-------------------------- MODULE ThreadSyncProofs --------------------------
(***************************************************************************)
(* Proofs about ThreadSync, for every size of the queue, the replay and     *)
(* the socket, any log and any number of lost connections and actors that   *)
(* end: types, and, of a thread that is picked once, that its reader's log  *)
(* has no hole, that `synchronized' tells the truth, and that the whole     *)
(* pipeline implements LogView.                                             *)
(***************************************************************************)
EXTENDS ThreadSync, SequenceTheorems, TLAPS

-----------------------------------------------------------------------------
(* The log and its actor, and what was read from it.                        *)

Known(f, n) == \A k \in 1..Len(f) : f[k].seq <= n

\* The actor is at most one event behind what it stored, and delivers before it
\* goes on.
Delivered == IF step = "fanout" THEN head - 1 ELSE head
HeadOK ==
  /\ step \in {"loop", "fanout"} => head = stored
  /\ step = "fold" => stored = head + 1
  /\ step = "fanout" => head > 0
SubKnown ==
  \A i \in Subs : /\ sub[i].end <= stored
                  /\ \A k \in 1..Len(sub[i].buf) : sub[i].buf[k] <= stored
JobKnown ==
  /\ Known(job.out, stored) /\ job.upto <= stored
  /\ job.pc = "planned" /\ ~job.fresh => job.after <= stored
LogOK == HeadOK /\ SubKnown /\ JobKnown /\ Known(down, stored) /\ answer <= stored

-----------------------------------------------------------------------------
(* What is on its way to the reader: every frame begins where the one before *)
(* it ended.                                                                *)

Before(p, f, k) == IF k = 1 THEN p ELSE f[k - 1].seq
Follows(p, e) ==
  /\ e.kind = "event" => e.seq = p + 1
  /\ e.kind = "synchronized" => e.seq = p
  /\ e.kind = "snapshot" => e.seq >= p
Chain(p, f) ==
  \A k \in 1..Len(f) :
    /\ Follows(Before(p, f, k), f[k])
    /\ f[k].kind = "resync" => k = Len(f)
Plain(f) == \A k \in 1..Len(f) : f[k].kind # "resync"
Tip(p, f) == IF f = <<>> THEN p ELSE f[Len(f)].seq

\* A queue holds consecutive events, of a listed subscription up to d, the last
\* that was delivered; First is the one it will yield next.
RunOK(s, d) ==
  /\ \A k \in 1..Len(s.buf) : k > 1 => s.buf[k] = s.buf[k - 1] + 1
  /\ s.listed /\ s.buf # <<>> => s.buf[Len(s.buf)] = d
  /\ s.listed => ~s.closed
First(s, d) == IF s.buf = <<>> THEN d + 1 ELSE s.buf[1]
Yields(s) == s.listed \/ s.buf # <<>>
InTime(s, d, n) == Yields(s) => First(s, d) <= n + 1
InStep(s, d, n) ==
  /\ n >= s.upto /\ InTime(s, d, n)
  /\ Yields(s) => n = s.upto \/ First(s, d) = n + 1
Used(s, phase) == s.phase = phase /\ ~s.cancelled

-----------------------------------------------------------------------------
(* How far one attachment has come.                                         *)

Quiet == job = Idle /\ attached = NoSub /\ \A i \in Subs : sub[i] = FreeSub
Silent == up = <<>> /\ down = <<>> /\ Quiet
Only(i) == \A k \in Subs : k # i => sub[k] = FreeSub

\* The page waits for the HTTP snapshot.
Waiting == request # "none" /\ Silent

\* The attach is on its way.
Asked ==
  /\ request = "none" /\ Len(up) = 1 /\ down = <<>> /\ Quiet
  /\ up[1].kind # "detach" /\ up[1].after = cursor

\* The connection's loop is serving it: what the queue will yield is no later than
\* what comes after the catch-up.
Serving ==
  /\ request = "none" /\ up = <<>> /\ attached = NoSub
  /\ job.pc # "idle" /\ job.sub \in Subs /\ Only(job.sub)
  /\ Used(sub[job.sub], "reading") /\ RunOK(sub[job.sub], Delivered)
  /\ job.pc \in {"subscribed", "planned"} =>
       /\ down = <<>> /\ job.out = <<>> /\ job.after = cursor
       /\ InTime(sub[job.sub], Delivered, HeadSeen)
  /\ job.pc = "planned" /\ ~job.fresh =>
       InTime(sub[job.sub], Delivered, job.after + MaxReplayGap)
  /\ job.pc = "sending" =>
       /\ Chain(cursor, down \o job.out) /\ Plain(down \o job.out)
       /\ Tip(cursor, down \o job.out) = job.upto
       /\ InTime(sub[job.sub], Delivered, job.upto)

\* Its drain is running: what the queue will yield was sent with the catch-up, or
\* is next.
Drained ==
  /\ request = "none" /\ up = <<>> /\ job = Idle
  /\ attached \in Subs /\ Only(attached)
  /\ Used(sub[attached], "draining") /\ RunOK(sub[attached], Delivered)
  /\ Chain(cursor, down) /\ Plain(down)
  /\ InStep(sub[attached], Delivered, Tip(cursor, down))

\* It was refused, or its drain has ended, perhaps asking for another.
Ended == request = "none" /\ up = <<>> /\ Quiet /\ Chain(cursor, down)

AttachOK == wanted /\ online => Waiting \/ Asked \/ Serving \/ Drained \/ Ended

\* A thread that is not shown is not asked for, and nothing moves before one is.
ClientOK ==
  /\ Gapless /\ cursor <= stored
  /\ ~wanted => cursor = 0 /\ request = "none"
  /\ request # "none" => cursor = 0
  /\ wanted => selects > 0
  /\ selects = 0 => Silent
  /\ ~online => Silent

-----------------------------------------------------------------------------
(* The inductive invariants: IInv always, OneInv of a thread picked once.   *)

Subscription ==
  [phase : {"free", "reading", "draining"}, buf : Seq(Seqs), listed : BOOLEAN,
   dropped : BOOLEAN, closed : BOOLEAN, cancelled : BOOLEAN, end : Seqs, upto : Seqs]
Attachment ==
  [pc : {"idle", "subscribed", "planned", "sending"}, sub : Subs \cup {NoSub},
   fresh : BOOLEAN, after : Seqs, upto : Seqs, out : Seq(Frames)]

LogTypes ==
  /\ stored \in Seqs /\ head \in Seqs /\ step \in {"loop", "fold", "fanout"}
  /\ live \in BOOLEAN /\ exits \in Nat
SubTypes ==
  sub \in [Subs -> Subscription] /\ \A i \in Subs : Len(sub[i].buf) <= QueueCap
JobTypes ==
  /\ job \in Attachment /\ Len(job.out) <= MaxReplayGap + 2
  /\ attached \in Subs \cup {NoSub} /\ (job.pc # "idle" => job.sub \in Subs)
WireTypes ==
  /\ online \in BOOLEAN /\ drops \in Nat /\ up \in Seq(Asks)
  /\ down \in Seq(Frames) /\ Len(down) <= MaxWire
ClientTypes ==
  /\ wanted \in BOOLEAN /\ applied \subseteq Seqs /\ cursor \in Seqs
  /\ request \in {"none", "asked", "answered"} /\ answer \in Seqs /\ selects \in Nat

IInv == LogTypes /\ SubTypes /\ JobTypes /\ WireTypes /\ ClientTypes /\ LogOK
OneInv == IInv /\ ClientOK /\ AttachOK

-----------------------------------------------------------------------------
(* Lemmas about sequences of frames.                                        *)

LEMMA FrameTypes ==
  ASSUME NEW n \in Seqs
  PROVE  /\ \A k \in {"event", "snapshot", "synchronized"} :
              Frame(k, n) \in Frames /\ Frame(k, n).kind = k /\ Frame(k, n).seq = n
         /\ Frame("resync", 0) \in Frames /\ Frame("resync", 0).kind = "resync"
<1> QED
  BY DEF Frame, Frames

LEMMA SeqsFacts ==
  /\ Seqs \subseteq Nat /\ 0 \in Seqs /\ MaxSeq \in Nat
  /\ \A n \in Nat : n \in Seqs <=> n <= MaxSeq
<1> QED
  BY ConstantsOK DEF Seqs

LEMMA FrameSeqs ==
  ASSUME NEW f \in Seq(Frames), NEW k \in 1..Len(f)
  PROVE  f[k] \in Frames /\ f[k].seq \in Seqs
         /\ f[k].kind \in {"event", "snapshot", "synchronized", "resync"}
<1>1. f[k] \in Frames
  BY ElementOfSeq
<1> QED
  BY <1>1, SeqsFacts DEF Frames

\* What the reader reads next, and what it leaves.
LEMMA TailFacts ==
  ASSUME NEW S, NEW f \in Seq(S), f # <<>>
  PROVE  /\ Len(f) \in Nat /\ Len(f) >= 1 /\ Tail(f) \in Seq(S) /\ Len(Tail(f)) = Len(f) - 1
         /\ Head(f) = f[1] /\ f[1] \in S
         /\ \A k \in 1..Len(Tail(f)) : Tail(f)[k] = f[k + 1]
         /\ Tail(f) = <<>> <=> Len(f) = 1
<1>1. Len(f) \in Nat \ {0}
  BY EmptySeq
<1>2. Tail(f) \in Seq(S) /\ Len(Tail(f)) = Len(f) - 1
      /\ \A k \in 1..Len(Tail(f)) : Tail(f)[k] = f[k + 1]
  BY HeadTailProperties
<1>3. Head(f) = f[1]
  BY DEF Head
<1>4. f[1] \in S
  BY <1>1, ElementOfSeq
<1>5. Tail(f) = <<>> <=> Len(f) = 1
  BY <1>1, <1>2, EmptySeq
<1> QED
  BY <1>1, <1>2, <1>3, <1>4, <1>5

LEMMA ChainTail ==
  ASSUME NEW p, NEW f \in Seq(Frames), f # <<>>, Chain(p, f)
  PROVE  Chain(f[1].seq, Tail(f)) /\ Follows(p, f[1]) /\ (Plain(f) => Plain(Tail(f)))
         /\ (f[1].kind = "resync" => Tail(f) = <<>>)
         /\ Tip(f[1].seq, Tail(f)) = Tip(p, f)
<1>1. /\ Len(f) \in Nat /\ Len(f) >= 1 /\ Len(Tail(f)) = Len(f) - 1 /\ Tail(f) \in Seq(Frames)
      /\ \A k \in 1..Len(Tail(f)) : Tail(f)[k] = f[k + 1]
      /\ Tail(f) = <<>> <=> Len(f) = 1
  BY TailFacts
<1>2. Follows(p, f[1]) /\ (f[1].kind = "resync" => Len(f) = 1)
  <2>1. 1 \in 1..Len(f) /\ Before(p, f, 1) = p
    BY <1>1 DEF Before
  <2> QED
    BY <1>1, <2>1 DEF Chain
<1>3. ASSUME NEW k \in 1..Len(Tail(f))
      PROVE  /\ Follows(Before(f[1].seq, Tail(f), k), Tail(f)[k])
             /\ Tail(f)[k].kind = "resync" => k = Len(Tail(f))
  <2>1. k + 1 \in 1..Len(f) /\ k + 1 # 1 /\ Tail(f)[k] = f[k + 1]
    BY <1>1
  <2>2. Before(f[1].seq, Tail(f), k) = f[k].seq
    BY <1>1 DEF Before
  <2>3. Before(p, f, k + 1) = f[k].seq
    BY <2>1 DEF Before
  <2>4. /\ Follows(Before(p, f, k + 1), f[k + 1])
        /\ f[k + 1].kind = "resync" => k + 1 = Len(f)
    BY <2>1 DEF Chain
  <2>5. Follows(Before(f[1].seq, Tail(f), k), Tail(f)[k])
    BY <2>1, <2>2, <2>3, <2>4
  <2>6. k + 1 = Len(f) <=> k = Len(Tail(f))
    BY <1>1
  <2> QED
    BY <2>1, <2>4, <2>5, <2>6
<1>4. Plain(f) => Plain(Tail(f))
  BY <1>1 DEF Plain
<1>5. Tip(f[1].seq, Tail(f)) = Tip(p, f)
  BY <1>1 DEF Tip
<1> QED
  BY <1>1, <1>2, <1>3, <1>4, <1>5 DEF Chain

LEMMA ChainAppend ==
  ASSUME NEW p, NEW f \in Seq(Frames), NEW e \in Frames,
         Chain(p, f), Plain(f), Follows(Tip(p, f), e)
  PROVE  /\ Chain(p, Append(f, e)) /\ Tip(p, Append(f, e)) = e.seq
         /\ e.kind # "resync" => Plain(Append(f, e))
<1> DEFINE g == Append(f, e)
<1>1. /\ Len(f) \in Nat /\ g \in Seq(Frames) /\ g # <<>> /\ Len(g) = Len(f) + 1
      /\ g[Len(f) + 1] = e /\ \A k \in 1..Len(f) : g[k] = f[k]
  BY AppendProperties, LenProperties
<1>2. f = <<>> <=> Len(f) = 0
  BY EmptySeq
<1> HIDE DEF g
<1>3. ASSUME NEW k \in 1..Len(g)
      PROVE  /\ Follows(Before(p, g, k), g[k])
             /\ g[k].kind = "resync" => k = Len(g)
  <2>1. CASE k \in 1..Len(f)
    <3>1. Before(p, g, k) = Before(p, f, k)
      BY <1>1, <2>1 DEF Before
    <3> QED
      BY <1>1, <2>1, <3>1 DEF Chain, Plain
  <2>2. CASE k = Len(f) + 1
    <3>1. Before(p, g, k) = Tip(p, f)
      BY <1>1, <1>2, <2>2 DEF Before, Tip
    <3> QED
      BY <1>1, <2>2, <3>1
  <2> QED
    BY <1>1, <2>1, <2>2
<1>4. Tip(p, g) = e.seq
  BY <1>1 DEF Tip
<1>5. e.kind # "resync" => Plain(g)
  BY <1>1 DEF Plain
<1> QED
  BY <1>3, <1>4, <1>5 DEF Chain, g

\* Taking the first frame of what is in flight, and moving one from the queue of the
\* catch-up to the socket.
LEMMA CatTail ==
  ASSUME NEW f \in Seq(Frames), NEW g \in Seq(Frames), f # <<>>
  PROVE  /\ f \o g \in Seq(Frames) /\ f \o g # <<>> /\ (f \o g)[1] = f[1]
         /\ Tail(f) \o g = Tail(f \o g)
<1>1. /\ Len(f) \in Nat /\ Len(f) >= 1 /\ Len(g) \in Nat /\ Tail(f) \in Seq(Frames)
      /\ Len(Tail(f)) = Len(f) - 1 /\ \A k \in 1..Len(Tail(f)) : Tail(f)[k] = f[k + 1]
  BY TailFacts, LenProperties
<1>2. /\ f \o g \in Seq(Frames) /\ Len(f \o g) = Len(f) + Len(g)
      /\ \A k \in 1..(Len(f) + Len(g)) : (f \o g)[k] = IF k <= Len(f) THEN f[k] ELSE g[k - Len(f)]
  BY ConcatProperties
<1>3. f \o g # <<>> /\ (f \o g)[1] = f[1]
  <2>1. 1 \in 1..(Len(f) + Len(g)) /\ Len(f \o g) # 0
    BY <1>1, <1>2
  <2> QED
    BY <1>1, <1>2, <2>1, EmptySeq
<1>4. /\ Tail(f) \o g \in Seq(Frames) /\ Len(Tail(f) \o g) = Len(f) - 1 + Len(g)
      /\ \A k \in 1..(Len(Tail(f)) + Len(g)) :
           (Tail(f) \o g)[k] = IF k <= Len(Tail(f)) THEN Tail(f)[k] ELSE g[k - Len(Tail(f))]
  BY <1>1, ConcatProperties
<1>5. /\ Tail(f \o g) \in Seq(Frames) /\ Len(Tail(f \o g)) = Len(f) + Len(g) - 1
      /\ \A k \in 1..Len(Tail(f \o g)) : Tail(f \o g)[k] = (f \o g)[k + 1]
  BY <1>2, <1>3, TailFacts
<1>6. ASSUME NEW k \in 1..Len(Tail(f \o g)) PROVE (Tail(f) \o g)[k] = Tail(f \o g)[k]
  <2>1. k + 1 \in 1..(Len(f) + Len(g)) /\ k \in 1..(Len(Tail(f)) + Len(g))
    BY <1>1, <1>5
  <2>2. CASE k <= Len(Tail(f))
    BY <1>1, <1>2, <1>4, <1>5, <2>1, <2>2
  <2>3. CASE k > Len(Tail(f))
    <3>1. k - Len(Tail(f)) = (k + 1) - Len(f)
      BY <1>1
    <3> QED
      BY <1>1, <1>2, <1>4, <1>5, <2>1, <2>3, <3>1
  <2> QED
    BY <1>1, <2>2, <2>3
<1>7. Tail(f) \o g = Tail(f \o g)
  BY <1>1, <1>4, <1>5, <1>6, SeqEqual
<1> QED
  BY <1>2, <1>3, <1>7

LEMMA CatSend ==
  ASSUME NEW f \in Seq(Frames), NEW g \in Seq(Frames), g # <<>>
  PROVE  Append(f, Head(g)) \o Tail(g) = f \o g
<1>1. /\ Len(g) \in Nat /\ Len(g) >= 1 /\ Len(f) \in Nat /\ Tail(g) \in Seq(Frames)
      /\ Head(g) = g[1] /\ g[1] \in Frames
      /\ Len(Tail(g)) = Len(g) - 1 /\ \A k \in 1..Len(Tail(g)) : Tail(g)[k] = g[k + 1]
  BY TailFacts, LenProperties
<1> DEFINE a == Append(f, Head(g))
<1>2. /\ a \in Seq(Frames) /\ Len(a) = Len(f) + 1 /\ a[Len(f) + 1] = g[1]
      /\ \A k \in 1..Len(f) : a[k] = f[k]
  BY <1>1, AppendProperties
<1> HIDE DEF a
<1>3. /\ f \o g \in Seq(Frames) /\ Len(f \o g) = Len(f) + Len(g)
      /\ \A k \in 1..(Len(f) + Len(g)) : (f \o g)[k] = IF k <= Len(f) THEN f[k] ELSE g[k - Len(f)]
  BY ConcatProperties
<1>4. /\ a \o Tail(g) \in Seq(Frames) /\ Len(a \o Tail(g)) = Len(f) + Len(g)
      /\ \A k \in 1..(Len(f) + Len(g)) :
           (a \o Tail(g))[k] = IF k <= Len(a) THEN a[k] ELSE Tail(g)[k - Len(a)]
  <2>1. /\ a \o Tail(g) \in Seq(Frames) /\ Len(a \o Tail(g)) = Len(a) + Len(Tail(g))
        /\ \A k \in 1..(Len(a) + Len(Tail(g))) :
             (a \o Tail(g))[k] = IF k <= Len(a) THEN a[k] ELSE Tail(g)[k - Len(a)]
    BY <1>1, <1>2, ConcatProperties
  <2>2. Len(a) + Len(Tail(g)) = Len(f) + Len(g)
    BY <1>1, <1>2
  <2> QED
    BY <2>1, <2>2
<1>5. ASSUME NEW k \in 1..Len(f \o g) PROVE (a \o Tail(g))[k] = (f \o g)[k]
  <2>1. k \in 1..(Len(f) + Len(g))
    BY <1>3
  <2>2. CASE k <= Len(f)
    BY <1>1, <1>2, <1>3, <1>4, <2>1, <2>2
  <2>3. CASE k = Len(f) + 1
    BY <1>1, <1>2, <1>3, <1>4, <2>1, <2>3
  <2>4. CASE k > Len(f) + 1
    <3>1. k - Len(a) \in 1..Len(Tail(g)) /\ (k - Len(a)) + 1 = k - Len(f)
      BY <1>1, <1>2, <2>1, <2>4
    <3>2. (a \o Tail(g))[k] = Tail(g)[k - Len(a)]
      BY <1>1, <1>2, <1>4, <2>1, <2>4
    <3>3. (f \o g)[k] = g[k - Len(f)]
      BY <1>1, <1>3, <2>1, <2>4
    <3> QED
      BY <1>1, <3>1, <3>2, <3>3
  <2>5. k <= Len(f) \/ k = Len(f) + 1 \/ k > Len(f) + 1
    BY <1>1, <2>1
  <2> QED
    BY <2>2, <2>3, <2>4, <2>5
<1>6. a \o Tail(g) = f \o g
  BY <1>3, <1>4, <1>5, SeqEqual
<1> QED
  BY <1>6 DEF a

LEMMA TipTypes ==
  ASSUME NEW p \in Nat, NEW f \in Seq(Frames)
  PROVE  Tip(p, f) \in Nat
<1>1. f # <<>> => Len(f) \in 1..Len(f)
  BY EmptySeq
<1> QED
  BY <1>1, FrameSeqs, SeqsFacts DEF Tip

\* The chain of one who has read it all.
LEMMA EmptyChain ==
  ASSUME NEW p
  PROVE  Chain(p, <<>>) /\ Plain(<<>>) /\ Tip(p, <<>>) = p
<1>1. \A k \in 1..Len(<<>>) : FALSE
  BY EmptySeq
<1> QED
  BY <1>1 DEF Chain, Plain, Tip

-----------------------------------------------------------------------------
(* Lemmas about subscriptions.                                              *)

LEMMA FreshSubs ==
  /\ FreeSub \in Subscription /\ NewSub \in Subscription /\ Idle \in Attachment
  /\ FreeSub.buf = <<>> /\ FreeSub.phase = "free" /\ ~FreeSub.listed /\ FreeSub.end = 0
  /\ NewSub.buf = <<>> /\ NewSub.phase = "reading" /\ NewSub.listed /\ ~NewSub.closed
  /\ ~NewSub.cancelled /\ NewSub.end = 0
  /\ Idle.out = <<>> /\ Idle.pc = "idle" /\ Idle.upto = 0 /\ ~Idle.fresh
  /\ Idle.sub = NoSub
<1>1. <<>> \in Seq(Seqs) /\ <<>> \in Seq(Frames)
  BY EmptySeq
<1>2. NewSub \in Subscription
  BY <1>1, SeqsFacts DEF NewSub, Subscription
<1>3. FreeSub \in Subscription
  BY <1>1, SeqsFacts DEF FreeSub, NewSub, Subscription
<1>4. Idle \in Attachment
  BY <1>1, SeqsFacts DEF Idle, Attachment
<1> QED
  BY <1>2, <1>3, <1>4 DEF FreeSub, NewSub, Idle

\* Fanout: a queue that is delivered to goes on where it was, or is cut off.
LEMMA DeliverEffect ==
  ASSUME NEW s \in Subscription, NEW n \in Seqs, n > 0, Len(s.buf) <= QueueCap
  PROVE  /\ Deliver(s, n) \in Subscription /\ Len(Deliver(s, n).buf) <= QueueCap
         /\ Deliver(s, n).phase = s.phase /\ Deliver(s, n).cancelled = s.cancelled
         /\ Deliver(s, n).upto = s.upto /\ Deliver(s, n).end = s.end
         /\ Deliver(s, n).closed = s.closed
         /\ \A k \in 1..Len(Deliver(s, n).buf) :
              Deliver(s, n).buf[k] = n \/ \E m \in 1..Len(s.buf) : Deliver(s, n).buf[k] = s.buf[m]
         /\ RunOK(s, n - 1) => RunOK(Deliver(s, n), n)
         /\ Yields(Deliver(s, n)) =>
              Yields(s) /\ First(Deliver(s, n), n) = First(s, n - 1)
<1>1. s.buf \in Seq(Seqs) /\ Len(s.buf) \in Nat /\ QueueCap >= 1 /\ n \in Nat
  BY LenProperties, ConstantsOK, SeqsFacts DEF Subscription
<1>2. s.buf = <<>> <=> Len(s.buf) = 0
  BY <1>1, EmptySeq
<1>3. CASE ~s.listed
  BY <1>1, <1>3 DEF Deliver, RunOK, First, Yields
<1>4. CASE s.listed /\ Room(s)
  <2> DEFINE b == Append(s.buf, n)
  <2>1. /\ b \in Seq(Seqs) /\ b # <<>> /\ Len(b) = Len(s.buf) + 1
        /\ b[Len(s.buf) + 1] = n /\ \A k \in 1..Len(s.buf) : b[k] = s.buf[k]
    BY <1>1, AppendProperties
  <2> HIDE DEF b
  <2>2. Deliver(s, n) = [s EXCEPT !.buf = b]
    BY <1>4 DEF Deliver, b
  <2>3. /\ Deliver(s, n) \in Subscription /\ Deliver(s, n).buf = b
        /\ Deliver(s, n).phase = s.phase /\ Deliver(s, n).cancelled = s.cancelled
        /\ Deliver(s, n).upto = s.upto /\ Deliver(s, n).end = s.end
        /\ Deliver(s, n).closed = s.closed /\ Deliver(s, n).listed = s.listed
    BY <2>1, <2>2 DEF Subscription
  <2>4. Len(b) <= QueueCap
    BY <1>1, <1>4, <2>1, ConstantsOK DEF Room
  <2>5. \A k \in 1..Len(b) : b[k] = n \/ \E m \in 1..Len(s.buf) : b[k] = s.buf[m]
    BY <1>1, <2>1
  <2>6. ASSUME RunOK(s, n - 1) PROVE RunOK(Deliver(s, n), n)
    <3>1. ASSUME NEW k \in 1..Len(b), k > 1 PROVE b[k] = b[k - 1] + 1
      <4>1. CASE k \in 1..Len(s.buf)
        BY <1>1, <2>1, <2>6, <3>1, <4>1 DEF RunOK
      <4>2. CASE k = Len(s.buf) + 1
        <5>1. s.buf # <<>> /\ s.buf[Len(s.buf)] = n - 1
          BY <1>1, <1>2, <1>4, <2>6, <3>1, <4>2 DEF RunOK
        <5>2. b[k - 1] = s.buf[Len(s.buf)]
          BY <1>1, <2>1, <3>1, <4>2
        <5> QED
          BY <1>1, <2>1, <4>2, <5>1, <5>2
      <4> QED
        BY <1>1, <2>1, <4>1, <4>2
    <3>2. b[Len(b)] = n
      BY <2>1
    <3> QED
      BY <2>3, <2>6, <3>1, <3>2 DEF RunOK
  <2>7. First(Deliver(s, n), n) = First(s, n - 1) /\ Yields(s)
    BY <1>1, <1>2, <1>4, <2>1, <2>3 DEF First, Yields
  <2> QED
    BY <2>3, <2>4, <2>5, <2>6, <2>7
<1>5. CASE s.listed /\ ~Room(s)
  <2>1. Deliver(s, n) = [s EXCEPT !.dropped = TRUE, !.listed = FALSE]
    BY <1>5 DEF Deliver, DropSlow
  <2>2. /\ Deliver(s, n) \in Subscription /\ Deliver(s, n).buf = s.buf
        /\ Deliver(s, n).phase = s.phase /\ Deliver(s, n).cancelled = s.cancelled
        /\ Deliver(s, n).upto = s.upto /\ Deliver(s, n).end = s.end
        /\ Deliver(s, n).closed = s.closed /\ ~Deliver(s, n).listed
    BY <2>1 DEF Subscription
  <2>3. s.buf # <<>>
    BY <1>1, <1>2, <1>5, ConstantsOK DEF Room
  <2> QED
    BY <1>1, <1>5, <2>2, <2>3 DEF RunOK, First, Yields
<1> QED
  BY <1>3, <1>4, <1>5

\* The drain: what is left of a queue goes on after what was taken from it.
LEMMA DrainEffect ==
  ASSUME NEW s \in Subscription, NEW d \in Int, s.buf # <<>>, Len(s.buf) <= QueueCap,
         NEW t, t = [s EXCEPT !.buf = Tail(s.buf)]
  PROVE  /\ t \in Subscription /\ t.buf = Tail(s.buf) /\ t.phase = s.phase /\ t.upto = s.upto
         /\ t.listed = s.listed /\ t.closed = s.closed /\ t.cancelled = s.cancelled /\ t.end = s.end
         /\ Len(Tail(s.buf)) <= QueueCap /\ Head(s.buf) = s.buf[1] /\ s.buf[1] \in Seqs
         /\ 1 \in 1..Len(s.buf)
         /\ \A k \in 1..Len(Tail(s.buf)) : Tail(s.buf)[k] = s.buf[k + 1] /\ k + 1 \in 1..Len(s.buf)
         /\ RunOK(s, d) => RunOK(t, d) /\ (Yields(t) => First(t, d) = s.buf[1] + 1)
<1>1. /\ Len(s.buf) \in Nat /\ Len(s.buf) >= 1 /\ Tail(s.buf) \in Seq(Seqs)
      /\ Len(Tail(s.buf)) = Len(s.buf) - 1 /\ Head(s.buf) = s.buf[1] /\ s.buf[1] \in Seqs
      /\ \A k \in 1..Len(Tail(s.buf)) : Tail(s.buf)[k] = s.buf[k + 1]
      /\ Tail(s.buf) = <<>> <=> Len(s.buf) = 1
  BY TailFacts DEF Subscription
<1>2. /\ t \in Subscription /\ t.buf = Tail(s.buf) /\ t.phase = s.phase /\ t.upto = s.upto
      /\ t.listed = s.listed /\ t.closed = s.closed /\ t.cancelled = s.cancelled /\ t.end = s.end
  BY <1>1 DEF Subscription
<1>3. \A k \in 1..Len(Tail(s.buf)) : k + 1 \in 1..Len(s.buf)
  BY <1>1
<1>4. ASSUME RunOK(s, d) PROVE RunOK(t, d) /\ (Yields(t) => First(t, d) = s.buf[1] + 1)
  <2>1. \A k \in 1..Len(t.buf) : k > 1 => t.buf[k] = t.buf[k - 1] + 1
    <3> SUFFICES ASSUME NEW k \in 1..Len(Tail(s.buf)), k > 1
                 PROVE  Tail(s.buf)[k] = Tail(s.buf)[k - 1] + 1
      BY <1>2
    <3>1. k + 1 \in 1..Len(s.buf) /\ k + 1 > 1 /\ k - 1 \in 1..Len(Tail(s.buf))
      BY <1>1
    <3>2. s.buf[k + 1] = s.buf[(k + 1) - 1] + 1
      BY <1>4, <3>1 DEF RunOK
    <3> QED
      BY <1>1, <3>1, <3>2
  <2>2. t.listed /\ t.buf # <<>> => t.buf[Len(t.buf)] = d
    BY <1>1, <1>2, <1>4 DEF RunOK
  <2>3. RunOK(t, d)
    BY <1>2, <1>4, <2>1, <2>2 DEF RunOK
  <2>4. CASE t.buf = <<>> /\ Yields(t)
    BY <1>1, <1>2, <1>4, <2>4 DEF Yields, First, RunOK
  <2>5. CASE t.buf # <<>>
    <3>1. 2 \in 1..Len(s.buf) /\ 1 \in 1..Len(Tail(s.buf))
      BY <1>1, <1>2, <2>5, EmptySeq
    <3>2. s.buf[2] = s.buf[2 - 1] + 1
      BY <1>4, <3>1 DEF RunOK
    <3>3. t.buf[1] = s.buf[2]
      BY <1>1, <1>2, <3>1
    <3> QED
      BY <2>3, <2>5, <3>2, <3>3 DEF First
  <2> QED
    BY <2>3, <2>4, <2>5
<1>5. RunOK(s, d) => RunOK(t, d) /\ (Yields(t) => First(t, d) = s.buf[1] + 1)
  BY <1>4
<1>6. /\ Len(Tail(s.buf)) <= QueueCap /\ 1 \in 1..Len(s.buf)
      /\ \A k \in 1..Len(Tail(s.buf)) : Tail(s.buf)[k] = s.buf[k + 1] /\ k + 1 \in 1..Len(s.buf)
  BY <1>1, <1>3, ConstantsOK
<1> QED
  BY <1>1, <1>2, <1>5, <1>6

-----------------------------------------------------------------------------
(* What the actions do to the subscriptions.                                *)

LEMMA SubUpdate ==
  ASSUME SubTypes, NEW i \in Subs, NEW new \in Subscription, Len(new.buf) <= QueueCap,
         sub' = [sub EXCEPT ![i] = new]
  PROVE  SubTypes' /\ sub'[i] = new /\ \A k \in Subs : k # i => sub'[k] = sub[k]
<1> QED
  BY DEF SubTypes

LEMMA DetachedEffect ==
  ASSUME SubTypes
  PROVE  /\ Detached \in [Subs -> Subscription]
         /\ \A k \in Subs : /\ Detached[k].buf = sub[k].buf /\ Detached[k].end = sub[k].end
                            /\ k # attached => Detached[k] = sub[k]
<1>1. ASSUME NEW k \in Subs
      PROVE  /\ [sub[k] EXCEPT !.cancelled = TRUE, !.listed = FALSE] \in Subscription
             /\ [sub[k] EXCEPT !.cancelled = TRUE, !.listed = FALSE].buf = sub[k].buf
             /\ [sub[k] EXCEPT !.cancelled = TRUE, !.listed = FALSE].end = sub[k].end
  BY DEF SubTypes, Subscription
<1> QED
  BY <1>1 DEF Detached, SubTypes

LEMMA StartDrainSub ==
  ASSUME SubTypes, job.sub \in Subs, StartDrain
  PROVE  sub' = [sub EXCEPT ![job.sub] =
                   [sub[job.sub] EXCEPT !.phase = "draining", !.upto = job.upto, !.end = 0]]
<1> QED
  BY DEF StartDrain, SubTypes, Subscription

LEMMA DrainEventSub ==
  ASSUME SubTypes, NEW i \in Subs, DrainEvent(i)
  PROVE  sub' = [sub EXCEPT ![i] = [sub[i] EXCEPT !.buf = Tail(sub[i].buf)]]
<1> QED
  BY DEF DrainEvent, SubTypes, Subscription

-----------------------------------------------------------------------------
(* Types.                                                                   *)

LEMMA LogTypesStep ==
  ASSUME IInv, [Next]_vars
  PROVE  LogTypes'
<1>1. CASE Store
  <2>1. live' \in BOOLEAN /\ exits' = exits /\ step' = "fold" /\ head' = head
    BY <1>1 DEF Store, IInv, LogTypes
  <2>2. stored' \in Seqs
    BY <1>1, SeqsFacts DEF Store, IInv, LogTypes
  <2> QED
    BY <2>1, <2>2 DEF IInv, LogTypes
<1>2. CASE Fold
  BY <1>2 DEF Fold, IInv, LogTypes
<1>3. CASE Fanout
  BY <1>3 DEF Fanout, IInv, LogTypes
<1>4. CASE ActorExit
  <2>1. live' \in BOOLEAN
    BY <1>4 DEF ActorExit
  <2>2. exits' = exits + 1 /\ stored' = stored /\ head' = head /\ step' = step
    BY <1>4 DEF ActorExit
  <2> QED
    BY <2>1, <2>2 DEF IInv, LogTypes
<1>5. CASE Restore
  BY <1>5 DEF Restore, IInv, LogTypes
<1>6. ASSUME NEW i \in Subs, ServeAttach(i) PROVE LogTypes'
  BY <1>6 DEF ServeAttach, IInv, LogTypes
<1>7. CASE HTTPAnswer
  BY <1>7 DEF HTTPAnswer, IInv, LogTypes
<1>8. CASE UNCHANGED <<stored, head, step, live, exits>>
  BY <1>8 DEF IInv, LogTypes
<1> QED
  BY <1>1, <1>2, <1>3, <1>4, <1>5, <1>6, <1>7, <1>8
  DEF Next, Actor, Serve, Drain, Client, vars, actorVars, serverVars, clientVars,
      ServeDetach, Plan, ReadState, AttachFails, ReadLog, SendCatchUp, StartDrain,
      DrainEvent, DrainResync, DrainStop, Connect, Disconnect, Select, Leave, HTTPShow,
      HTTPFail, Receive

LEMMA SubTypesStep ==
  ASSUME IInv, [Next]_vars
  PROVE  SubTypes'
<1>1. CASE Fanout
  <2>1. head \in Seqs /\ head > 0
    BY <1>1, SeqsFacts DEF Fanout, IInv, LogTypes, LogOK, HeadOK, SubKnown, JobKnown
  <2> QED
    BY <1>1, <2>1, DeliverEffect DEF Fanout, IInv, SubTypes
<1>2. CASE ActorExit
  <2> SUFFICES ASSUME NEW i \in Subs
               PROVE  sub'[i] \in Subscription /\ Len(sub'[i].buf) <= QueueCap
    BY <1>2 DEF ActorExit, SubTypes
  <2>1. sub[i] \in Subscription /\ Len(sub[i].buf) <= QueueCap /\ head \in Seqs
    BY DEF IInv, SubTypes, LogTypes
  <2>2. /\ [sub[i] EXCEPT !.closed = TRUE, !.listed = FALSE, !.end = head] \in Subscription
        /\ [sub[i] EXCEPT !.closed = TRUE, !.listed = FALSE, !.end = head].buf = sub[i].buf
    BY <2>1 DEF Subscription
  <2> QED
    BY <1>2, <2>1, <2>2 DEF ActorExit
<1>3. CASE ServeDetach
  BY <1>3, DetachedEffect DEF ServeDetach, IInv, SubTypes
<1>4. ASSUME NEW i \in Subs, ServeAttach(i) PROVE SubTypes'
  <2>1. Len(NewSub.buf) <= QueueCap
    BY FreshSubs, EmptySeq, ConstantsOK
  <2> QED
    BY <1>4, <2>1, DetachedEffect, FreshSubs DEF ServeAttach, IInv, SubTypes
<1>5. CASE AttachFails
  <2>1. Len(FreeSub.buf) <= QueueCap
    BY FreshSubs, EmptySeq, ConstantsOK
  <2> QED
    BY <1>5, <2>1, FreshSubs DEF AttachFails, IInv, SubTypes
<1>6. CASE StartDrain
  <2>1. job.sub \in Subs /\ job.upto \in Seqs
    BY <1>6 DEF StartDrain, IInv, JobTypes, Attachment
  <2>2. sub[job.sub] \in Subscription /\ Len(sub[job.sub].buf) <= QueueCap
    BY <2>1 DEF IInv, SubTypes
  <2> DEFINE new == [sub[job.sub] EXCEPT !.phase = "draining", !.upto = job.upto, !.end = 0]
  <2>3. new \in Subscription /\ new.buf = sub[job.sub].buf
    BY <2>1, <2>2, SeqsFacts DEF Subscription
  <2>4. sub' = [sub EXCEPT ![job.sub] = new]
    BY <1>6, <2>1, StartDrainSub DEF IInv
  <2> HIDE DEF new
  <2> QED
    BY <2>1, <2>2, <2>3, <2>4, SubUpdate DEF IInv
<1>7. ASSUME NEW i \in Subs, DrainEvent(i) PROVE SubTypes'
  <2>1. sub[i].buf # <<>> /\ sub[i] \in Subscription /\ Len(sub[i].buf) <= QueueCap /\ 0 \in Int
    BY <1>7 DEF DrainEvent, IInv, SubTypes
  <2>2. sub' = [sub EXCEPT ![i] = [sub[i] EXCEPT !.buf = Tail(sub[i].buf)]]
    BY <1>7, DrainEventSub DEF IInv
  <2>3. /\ [sub[i] EXCEPT !.buf = Tail(sub[i].buf)] \in Subscription
        /\ Len([sub[i] EXCEPT !.buf = Tail(sub[i].buf)].buf) <= QueueCap
    BY <2>1, DrainEffect
  <2> QED
    BY <2>2, <2>3, SubUpdate DEF IInv
<1>8. ASSUME NEW i \in Subs, DrainResync(i) PROVE SubTypes'
  <2>1. Len(FreeSub.buf) <= QueueCap
    BY FreshSubs, EmptySeq, ConstantsOK
  <2> QED
    BY <1>8, <2>1, FreshSubs, SubUpdate DEF DrainResync, Free, IInv
<1>9. ASSUME NEW i \in Subs, DrainStop(i) PROVE SubTypes'
  <2>1. Len(FreeSub.buf) <= QueueCap
    BY FreshSubs, EmptySeq, ConstantsOK
  <2> QED
    BY <1>9, <2>1, FreshSubs, SubUpdate DEF DrainStop, Free, IInv
<1>10. CASE Disconnect
  <2>1. Len(FreeSub.buf) <= QueueCap
    BY FreshSubs, EmptySeq, ConstantsOK
  <2> QED
    BY <1>10, <2>1, FreshSubs DEF Disconnect, IInv, SubTypes
<1>11. CASE UNCHANGED <<sub>>
  BY <1>11 DEF IInv, SubTypes
<1> QED
  BY <1>1, <1>2, <1>3, <1>4, <1>5, <1>6, <1>7, <1>8, <1>9, <1>10, <1>11
  DEF Next, Actor, Serve, Drain, Client, vars, actorVars, serverVars, clientVars, Store,
      Fold, Restore, Plan, ReadState, ReadLog, SendCatchUp, Connect, Select, Leave,
      HTTPAnswer, HTTPShow, HTTPFail, Receive

\* Attach reads no more than MaxReplayGap events, all of them stored.
LEMMA ReplayFacts ==
  ASSUME NEW after \in Seqs, after <= stored, stored \in Seqs
  PROVE  /\ LastRead(after) \in Seqs /\ after <= LastRead(after) /\ LastRead(after) <= stored
         /\ LastRead(after) <= after + MaxReplayGap
         /\ LastRead(after) = stored \/ LastRead(after) = after + MaxReplayGap
         /\ Replay(after) \in Seq(Frames) /\ Len(Replay(after)) = LastRead(after) - after
         /\ \A k \in 1..Len(Replay(after)) : Replay(after)[k] = Frame("event", after + k)
<1> DEFINE last == LastRead(after)
<1>1. /\ last \in Seqs /\ after <= last /\ last <= stored /\ last <= after + MaxReplayGap
      /\ last = stored \/ last = after + MaxReplayGap
  BY SeqsFacts, ConstantsOK DEF LastRead, ReadsTo
<1>2. Replay(after) = [i \in 1..(last - after) |-> Frame("event", after + i)]
  BY DEF Replay, Events, LastRead
<1> HIDE DEF last
<1>3. last - after \in Nat /\ after \in Nat /\ last \in Nat
  BY <1>1, SeqsFacts
<1>4. \A i \in 1..(last - after) : Frame("event", after + i) \in Frames
  <2> SUFFICES ASSUME NEW i \in 1..(last - after) PROVE Frame("event", after + i) \in Frames
    OBVIOUS
  <2>1. after + i \in Seqs
    BY <1>1, <1>3, SeqsFacts
  <2> QED
    BY <2>1, FrameTypes
<1>5. Replay(after) \in Seq(Frames) /\ Len(Replay(after)) = last - after
  BY <1>2, <1>3, <1>4
<1>6. \A k \in 1..Len(Replay(after)) : Replay(after)[k] = Frame("event", after + k)
  BY <1>2, <1>5
<1> QED
  BY <1>1, <1>5, <1>6 DEF last

LEMMA HeadSeenKnown ==
  ASSUME IInv, job.sub \in Subs
  PROVE  HeadSeen \in Nat /\ HeadSeen <= stored
<1>1. stored \in Nat /\ head \in Nat /\ head <= stored
  BY SeqsFacts DEF IInv, LogTypes, LogOK, HeadOK, SubKnown, JobKnown
<1>2. sub[job.sub].end \in Nat /\ sub[job.sub].end <= stored
  BY SeqsFacts DEF IInv, SubTypes, Subscription, LogOK, HeadOK, SubKnown, JobKnown
<1> QED
  BY <1>1, <1>2 DEF HeadSeen

LEMMA JobTypesStep ==
  ASSUME IInv, [Next]_vars
  PROVE  JobTypes'
<1>1. CASE ServeDetach
  BY <1>1 DEF ServeDetach, IInv, JobTypes
<1>2. ASSUME NEW i \in Subs, ServeAttach(i) PROVE JobTypes'
  <2>1. Head(up).after \in Seqs
    <3>1. up # <<>> /\ up \in Seq(Asks)
      BY <1>2 DEF ServeAttach, IInv, WireTypes
    <3>2. Head(up) \in Asks
      BY <3>1, TailFacts
    <3> QED
      BY <3>2 DEF Asks
  <2>2. Idle \in Attachment /\ Idle.out = <<>>
    BY FreshSubs
  <2> DEFINE new == [Idle EXCEPT !.pc = "subscribed", !.sub = i, !.after = Head(up).after,
                                 !.fresh = (Head(up).kind = "attach_fresh")]
  <2>3. new \in Attachment /\ new.out = <<>> /\ new.sub \in Subs
    BY <2>1, <2>2 DEF Attachment
  <2>4. job' = new /\ attached' = NoSub
    BY <1>2 DEF ServeAttach
  <2> HIDE DEF new
  <2>5. Len(job'.out) <= MaxReplayGap + 2
    BY <2>3, <2>4, EmptySeq, ConstantsOK
  <2> QED
    BY <2>3, <2>4, <2>5 DEF JobTypes
<1>3. CASE Plan
  <2> DEFINE fresh == job.fresh \/ HeadSeen < job.after \/ HeadSeen - job.after > MaxReplayGap
  <2>1. job' = [job EXCEPT !.pc = "planned", !.fresh = fresh] /\ fresh \in BOOLEAN
    BY <1>3 DEF Plan
  <2> HIDE DEF fresh
  <2>2. job' \in Attachment /\ job'.out = job.out /\ job'.sub = job.sub /\ job.pc # "idle"
    BY <1>3, <2>1 DEF Plan, IInv, JobTypes, Attachment
  <2> QED
    BY <1>3, <2>2 DEF Plan, IInv, JobTypes
<1>4. CASE ReadState
  <2> DEFINE frames == <<Frame("snapshot", head), Frame("synchronized", head)>>
  <2>1. head \in Seqs /\ frames \in Seq(Frames) /\ Len(frames) = 2
    BY FrameTypes DEF IInv, LogTypes
  <2>2. job' = [job EXCEPT !.pc = "sending", !.upto = head, !.out = frames]
    BY <1>4 DEF ReadState
  <2> HIDE DEF frames
  <2>3. job' \in Attachment /\ job'.out = frames /\ job'.sub = job.sub /\ job.pc # "idle"
    BY <1>4, <2>1, <2>2 DEF ReadState, IInv, JobTypes, Attachment
  <2> QED
    BY <1>4, <2>1, <2>3, ConstantsOK DEF ReadState, IInv, JobTypes
<1>5. CASE AttachFails
  <2>1. Len(Idle.out) <= MaxReplayGap + 2
    BY FreshSubs, EmptySeq, ConstantsOK
  <2> QED
    BY <1>5, <2>1, FreshSubs DEF AttachFails, IInv, JobTypes
<1>6. CASE ReadLog
  <2>1. job.after \in Seqs /\ job.after <= stored /\ stored \in Seqs
    BY <1>6 DEF ReadLog, IInv, JobTypes, Attachment, LogOK, HeadOK, SubKnown, JobKnown, LogTypes
  <2> DEFINE last == LastRead(job.after)
             frames == Append(Replay(job.after), Frame("synchronized", last))
  <2>2. job' = [job EXCEPT !.pc = "sending", !.upto = last, !.out = frames]
    BY <1>6 DEF ReadLog
  <2>3. last \in Seqs /\ Replay(job.after) \in Seq(Frames) /\ Len(Replay(job.after)) <= MaxReplayGap
    <3>1. /\ last \in Seqs /\ last <= job.after + MaxReplayGap
          /\ Replay(job.after) \in Seq(Frames) /\ Len(Replay(job.after)) = last - job.after
      BY <2>1, ReplayFacts
    <3>2. last \in Nat /\ job.after \in Nat /\ MaxReplayGap \in Nat
      BY <2>1, <3>1, SeqsFacts, ConstantsOK
    <3> HIDE DEF last
    <3> QED
      BY <3>1, <3>2
  <2>4. frames \in Seq(Frames) /\ Len(frames) <= MaxReplayGap + 1
    BY <2>3, FrameTypes, AppendProperties, LenProperties, ConstantsOK
  <2> HIDE DEF last, frames
  <2>5. job' \in Attachment /\ job'.out = frames /\ job'.sub = job.sub /\ job.pc # "idle"
    BY <1>6, <2>2, <2>3, <2>4 DEF ReadLog, IInv, JobTypes, Attachment
  <2> QED
    BY <1>6, <2>4, <2>5, ConstantsOK, LenProperties DEF ReadLog, IInv, JobTypes
<1>7. CASE SendCatchUp
  <2>1. job.out # <<>> /\ job.out \in Seq(Frames) /\ job' = [job EXCEPT !.out = Tail(job.out)]
    BY <1>7 DEF SendCatchUp, IInv, JobTypes, Attachment
  <2>2. /\ Tail(job.out) \in Seq(Frames)
        /\ Len(Tail(job.out)) = Len(job.out) - 1 /\ Len(job.out) \in Nat
    BY <2>1, TailFacts
  <2>3. job' \in Attachment /\ job'.out = Tail(job.out) /\ job'.sub = job.sub /\ job.pc # "idle"
    BY <1>7, <2>1, <2>2 DEF SendCatchUp, IInv, JobTypes, Attachment
  <2> QED
    BY <1>7, <2>2, <2>3, ConstantsOK DEF SendCatchUp, IInv, JobTypes
<1>8. CASE StartDrain
  <2>1. Len(Idle.out) <= MaxReplayGap + 2
    BY FreshSubs, EmptySeq, ConstantsOK
  <2> QED
    BY <1>8, <2>1, FreshSubs DEF StartDrain, IInv, JobTypes, Attachment
<1>9. ASSUME NEW i \in Subs, DrainResync(i) PROVE JobTypes'
  BY <1>9 DEF DrainResync, Free, IInv, JobTypes
<1>10. ASSUME NEW i \in Subs, DrainStop(i) PROVE JobTypes'
  BY <1>10 DEF DrainStop, Free, IInv, JobTypes
<1>11. CASE Disconnect
  <2>1. Len(Idle.out) <= MaxReplayGap + 2
    BY FreshSubs, EmptySeq, ConstantsOK
  <2> QED
    BY <1>11, <2>1, FreshSubs DEF Disconnect, JobTypes
<1>12. CASE UNCHANGED <<job, attached>>
  BY <1>12 DEF IInv, JobTypes
<1> QED
  BY <1>1, <1>2, <1>3, <1>4, <1>5, <1>6, <1>7, <1>8, <1>9, <1>10, <1>11, <1>12
  DEF Next, Actor, Serve, Drain, Client, vars, actorVars, serverVars, clientVars, Store,
      Fold, Fanout, ActorExit, Restore, DrainEvent, Connect, Select, Leave, HTTPAnswer,
      HTTPShow, HTTPFail, Receive

\* A frame on the socket.
LEMMA SendEffect ==
  ASSUME WireTypes, NEW k \in {"attach", "attach_fresh", "detach"}, NEW n \in Seqs,
         Send(<<Ask(k, n)>>)
  PROVE  /\ up' \in Seq(Asks)
         /\ online /\ up = <<>> => /\ Len(up') = 1 /\ up'[1].kind = k /\ up'[1].after = n
         /\ ~online => up' = up
<1> DEFINE a == Ask(k, n)
<1>1. a \in Asks /\ a.kind = k /\ a.after = n
  BY DEF Ask, Asks
<1>2. up' = IF online THEN up \o <<a>> ELSE up
  BY DEF Send
<1> HIDE DEF a
<1>3. up \o <<a>> \in Seq(Asks)
  BY <1>1, ConcatProperties DEF WireTypes
<1>4. up = <<>> => up \o <<a>> = <<a>>
  BY <1>1, ConcatEmptySeq
<1> QED
  BY <1>1, <1>2, <1>3, <1>4 DEF WireTypes

LEMMA HeadDown ==
  ASSUME WireTypes, down # <<>>
  PROVE  /\ Head(down) = down[1] /\ down[1] \in Frames /\ down[1].seq \in Seqs
         /\ down[1].kind \in {"event", "snapshot", "synchronized", "resync"}
         /\ Tail(down) \in Seq(Frames) /\ Len(Tail(down)) = Len(down) - 1 /\ Len(down) \in Nat
         /\ 1 \in 1..Len(down)
<1>1. /\ Len(down) \in Nat /\ Len(down) >= 1 /\ Tail(down) \in Seq(Frames)
      /\ Len(Tail(down)) = Len(down) - 1 /\ Head(down) = down[1]
  BY TailFacts DEF WireTypes
<1>2. 1 \in 1..Len(down)
  BY <1>1
<1> QED
  BY <1>1, <1>2, FrameSeqs DEF WireTypes

LEMMA DownAppend ==
  ASSUME WireTypes, NEW e \in Frames, Len(down) < MaxWire
  PROVE  Append(down, e) \in Seq(Frames) /\ Len(Append(down, e)) <= MaxWire
<1> QED
  BY AppendProperties, LenProperties, ConstantsOK DEF WireTypes

LEMMA WireTypesStep ==
  ASSUME IInv, [Next]_vars
  PROVE  WireTypes'
<1>1. CASE ServeDetach
  BY <1>1, TailFacts DEF ServeDetach, IInv, WireTypes
<1>2. ASSUME NEW i \in Subs, ServeAttach(i) PROVE WireTypes'
  BY <1>2, TailFacts DEF ServeAttach, IInv, WireTypes
<1>3. CASE SendCatchUp
  <2>1. Head(job.out) \in Frames
    BY <1>3, TailFacts DEF SendCatchUp, IInv, JobTypes, Attachment
  <2> QED
    BY <1>3, <2>1, DownAppend DEF SendCatchUp, IInv, WireTypes
<1>4. ASSUME NEW i \in Subs, DrainEvent(i) PROVE WireTypes'
  <2>1. sub[i].buf \in Seq(Seqs) /\ sub[i].buf # <<>>
    BY <1>4 DEF DrainEvent, IInv, SubTypes, Subscription
  <2>2. Frame("event", Head(sub[i].buf)) \in Frames
    BY <2>1, TailFacts, FrameTypes
  <2> QED
    BY <1>4, <2>2, DownAppend DEF DrainEvent, IInv, WireTypes
<1>5. ASSUME NEW i \in Subs, DrainResync(i) PROVE WireTypes'
  BY <1>5, FrameTypes, DownAppend, SeqsFacts DEF DrainResync, SayResync, IInv, WireTypes
<1>6. CASE Connect
  <2>1. up' \in Seq(Asks)
    <3>1. Ask("attach", cursor) \in Asks
      BY DEF Ask, Asks, IInv, ClientTypes
    <3>2. <<Ask("attach", cursor)>> \in Seq(Asks) /\ <<>> \in Seq(Asks)
      BY <3>1, EmptySeq
    <3> QED
      BY <1>6, <3>2 DEF Connect
  <2>2. online' \in BOOLEAN /\ UNCHANGED <<down, drops>>
    BY <1>6 DEF Connect
  <2> QED
    BY <2>1, <2>2 DEF IInv, WireTypes
<1>7. CASE Disconnect
  <2>1. online' \in BOOLEAN /\ up' = <<>> /\ down' = <<>> /\ drops' = drops + 1
    BY <1>7 DEF Disconnect
  <2>2. <<>> \in Seq(Asks) /\ <<>> \in Seq(Frames) /\ Len(<<>>) <= MaxWire
    BY EmptySeq, ConstantsOK
  <2> QED
    BY <2>1, <2>2 DEF IInv, WireTypes
<1>8. CASE Leave
  BY <1>8, SendEffect, SeqsFacts DEF Leave, IInv, WireTypes
<1>9. CASE HTTPShow
  BY <1>9, SendEffect DEF HTTPShow, IInv, WireTypes, ClientTypes
<1>10. CASE HTTPFail
  BY <1>10, SendEffect, SeqsFacts DEF HTTPFail, IInv, WireTypes
<1>11. CASE Receive
  <2>1. down # <<>> /\ down' = Tail(down) /\ UNCHANGED <<online, drops>>
    BY <1>11 DEF Receive
  <2>2. up' = up \/ Send(<<Ask("attach", cursor)>>)
    BY <1>11 DEF Receive, Reattach
  <2>3. up' \in Seq(Asks)
    BY <2>2, SendEffect DEF IInv, WireTypes, ClientTypes
  <2>4. down' \in Seq(Frames) /\ Len(down') <= MaxWire
    BY <2>1, HeadDown, ConstantsOK DEF IInv, WireTypes
  <2> QED
    BY <2>1, <2>3, <2>4 DEF IInv, WireTypes
<1>12. CASE UNCHANGED <<online, up, down, drops>>
  BY <1>12 DEF IInv, WireTypes
<1> QED
  BY <1>1, <1>2, <1>3, <1>4, <1>5, <1>6, <1>7, <1>8, <1>9, <1>10, <1>11, <1>12
  DEF Next, Actor, Serve, Drain, Client, vars, actorVars, serverVars, clientVars, Store,
      Fold, Fanout, ActorExit, Restore, Plan, ReadState, AttachFails, ReadLog, StartDrain,
      DrainStop, Select, HTTPAnswer

LEMMA ClientTypesStep ==
  ASSUME IInv, [Next]_vars
  PROVE  ClientTypes'
<1>1. CASE Select
  <2>1. wanted' \in BOOLEAN /\ applied' = {} /\ cursor' = 0 /\ request' = "asked" /\ answer' = 0
        /\ selects' = selects + 1
    BY <1>1 DEF Select, Show
  <2> QED
    BY <2>1, SeqsFacts DEF IInv, ClientTypes
<1>2. CASE Leave
  <2>1. wanted' \in BOOLEAN /\ applied' = {} /\ cursor' = 0 /\ request' = "none" /\ answer' = 0
        /\ selects' = selects
    BY <1>2 DEF Leave, Show
  <2> QED
    BY <2>1, SeqsFacts DEF IInv, ClientTypes
<1>3. CASE HTTPAnswer
  BY <1>3 DEF HTTPAnswer, IInv, ClientTypes, LogTypes
<1>4. CASE HTTPShow
  BY <1>4, SeqsFacts DEF HTTPShow, Show, IInv, ClientTypes, Seqs
<1>5. CASE HTTPFail
  BY <1>5 DEF HTTPFail, IInv, ClientTypes
<1>6. CASE Receive
  <2>1. down # <<>> /\ UNCHANGED <<wanted, request, answer, selects>>
    BY <1>6 DEF Receive
  <2>2. Head(down).seq \in Seqs
    BY <2>1, HeadDown DEF IInv
  <2>3. \/ UNCHANGED <<applied, cursor>>
        \/ cursor' = Head(down).seq /\ applied' = 1..Head(down).seq
        \/ cursor' = Head(down).seq /\ applied' = applied \cup {Head(down).seq}
    BY <1>6 DEF Receive, Show, ShowEvent
  <2>4. 1..Head(down).seq \subseteq Seqs
    BY <2>2, SeqsFacts DEF Seqs
  <2> QED
    BY <2>1, <2>2, <2>3, <2>4 DEF IInv, ClientTypes
<1>7. CASE UNCHANGED <<wanted, applied, cursor, request, answer, selects>>
  BY <1>7 DEF IInv, ClientTypes
<1> QED
  BY <1>1, <1>2, <1>3, <1>4, <1>5, <1>6, <1>7
  DEF Next, Actor, Serve, Drain, Client, vars, actorVars, serverVars, clientVars, Store,
      Fold, Fanout, ActorExit, Restore, ServeDetach, ServeAttach, Plan, ReadState,
      AttachFails, ReadLog, SendCatchUp, StartDrain, DrainEvent, DrainResync, DrainStop,
      Connect, Disconnect

-----------------------------------------------------------------------------
(* Nothing is sent that was not stored.                                     *)

LEMMA StoredGrows ==
  ASSUME IInv, [Next]_vars
  PROVE  stored \in Nat /\ stored' \in Nat /\ stored <= stored'
<1>1. stored \in Nat
  BY SeqsFacts DEF IInv, LogTypes
<1>2. CASE Store
  BY <1>1, <1>2 DEF Store
<1>3. CASE UNCHANGED stored
  BY <1>1, <1>3
<1> QED
  BY <1>2, <1>3
  DEF Next, Actor, Serve, Drain, Client, vars, actorVars, Fold, Fanout, ActorExit, Restore,
      ServeDetach, ServeAttach, Plan, ReadState, AttachFails, ReadLog, SendCatchUp, StartDrain,
      DrainEvent, DrainResync, DrainStop, Connect, Disconnect, Select, Leave, HTTPAnswer,
      HTTPShow, HTTPFail, Receive

LEMMA KnownFacts ==
  ASSUME NEW f \in Seq(Frames), NEW n \in Nat, Known(f, n)
  PROVE  /\ \A m \in Nat : n <= m => Known(f, m)
         /\ f # <<>> => Known(Tail(f), n) /\ f[1].seq <= n
         /\ \A e \in Frames : e.seq <= n => Known(Append(f, e), n)
<1>1. ASSUME NEW m \in Nat, n <= m PROVE Known(f, m)
  <2> SUFFICES ASSUME NEW k \in 1..Len(f) PROVE f[k].seq <= m
    BY DEF Known
  <2>1. f[k].seq \in Nat
    BY FrameSeqs, SeqsFacts
  <2>2. f[k].seq <= n
    BY DEF Known
  <2> QED
    BY <1>1, <2>1, <2>2
<1>2. ASSUME f # <<>> PROVE Known(Tail(f), n) /\ f[1].seq <= n
  BY <1>2, TailFacts DEF Known
<1>3. ASSUME NEW e \in Frames, e.seq <= n PROVE Known(Append(f, e), n)
  BY <1>3, AppendProperties, LenProperties DEF Known
<1> QED
  BY <1>1, <1>2, <1>3

LEMMA HeadOKStep ==
  ASSUME IInv, [Next]_vars
  PROVE  HeadOK'
<1>1. stored \in Nat /\ head \in Nat
  BY SeqsFacts DEF IInv, LogTypes
<1>2. CASE Store
  BY <1>1, <1>2 DEF Store, IInv, LogOK, HeadOK
<1>3. CASE Fold
  BY <1>1, <1>3 DEF Fold, IInv, LogOK, HeadOK
<1>4. CASE Fanout
  BY <1>1, <1>4 DEF Fanout, IInv, LogOK, HeadOK
<1>5. CASE UNCHANGED <<stored, head, step>>
  BY <1>5 DEF IInv, LogOK, HeadOK
<1> QED
  BY <1>2, <1>3, <1>4, <1>5
  DEF Next, Actor, Serve, Drain, Client, vars, actorVars, ActorExit, Restore,
      ServeDetach, ServeAttach, Plan, ReadState, AttachFails, ReadLog, SendCatchUp, StartDrain,
      DrainEvent, DrainResync, DrainStop, Connect, Disconnect, Select, Leave, HTTPAnswer,
      HTTPShow, HTTPFail, Receive

LEMMA SubKnownStep ==
  ASSUME IInv, [Next]_vars
  PROVE  SubKnown'
<1>0. stored \in Nat /\ stored' \in Nat /\ stored <= stored'
  BY StoredGrows
<1>1. CASE Fanout
  <2>1. head \in Seqs /\ head > 0 /\ head = stored /\ stored' = stored
    BY <1>1 DEF Fanout, IInv, LogTypes, LogOK, HeadOK
  <2> SUFFICES ASSUME NEW i \in Subs
               PROVE  /\ sub'[i].end <= stored
                      /\ \A k \in 1..Len(sub'[i].buf) : sub'[i].buf[k] <= stored
    BY <2>1 DEF SubKnown
  <2>2. sub[i] \in Subscription /\ Len(sub[i].buf) <= QueueCap /\ sub'[i] = Deliver(sub[i], head)
    BY <1>1 DEF Fanout, IInv, SubTypes
  <2>3. /\ sub'[i].end = sub[i].end
        /\ \A k \in 1..Len(sub'[i].buf) :
             sub'[i].buf[k] = head \/ \E m \in 1..Len(sub[i].buf) : sub'[i].buf[k] = sub[i].buf[m]
    BY <2>1, <2>2, DeliverEffect
  <2> QED
    BY <1>0, <2>1, <2>3 DEF IInv, LogOK, SubKnown
<1>2. CASE ActorExit
  <2> SUFFICES ASSUME NEW i \in Subs
               PROVE  /\ sub'[i].end <= stored
                      /\ \A k \in 1..Len(sub'[i].buf) : sub'[i].buf[k] <= stored
    BY <1>2 DEF ActorExit, SubKnown
  <2>1. sub[i] \in Subscription /\ head <= stored
    BY <1>2, <1>0 DEF ActorExit, IInv, SubTypes, LogOK, HeadOK
  <2>2. /\ [sub[i] EXCEPT !.closed = TRUE, !.listed = FALSE, !.end = head].end = head
        /\ [sub[i] EXCEPT !.closed = TRUE, !.listed = FALSE, !.end = head].buf = sub[i].buf
    BY <2>1 DEF Subscription
  <2> QED
    BY <1>2, <2>1, <2>2 DEF ActorExit, IInv, LogOK, SubKnown
<1>3. CASE ServeDetach
  BY <1>3, DetachedEffect DEF ServeDetach, actorVars, IInv, LogOK, SubKnown
<1>4. ASSUME NEW i \in Subs, ServeAttach(i) PROVE SubKnown'
  <2>1. NewSub.end = 0 /\ NewSub.buf = <<>> /\ Len(<<>>) = 0
    BY FreshSubs, EmptySeq
  <2>2. stored' = stored /\ sub' = [Detached EXCEPT ![i] = NewSub]
    BY <1>4 DEF ServeAttach
  <2>3. \A k \in Subs : sub'[k] = IF k = i THEN NewSub ELSE Detached[k]
    BY <2>2, DetachedEffect DEF IInv
  <2> QED
    BY <1>0, <2>1, <2>2, <2>3, DetachedEffect DEF IInv, LogOK, SubKnown
<1>5. CASE AttachFails
  <2>1. FreeSub.end = 0 /\ FreeSub.buf = <<>> /\ Len(<<>>) = 0
    BY FreshSubs, EmptySeq
  <2> QED
    BY <1>5, <1>0, <2>1 DEF AttachFails, actorVars, IInv, LogOK, SubKnown, SubTypes
<1>6. CASE StartDrain
  <2> DEFINE new == [sub[job.sub] EXCEPT !.phase = "draining", !.upto = job.upto, !.end = 0]
  <2>0. job.sub \in Subs
    BY <1>6 DEF StartDrain, IInv, JobTypes
  <2>1. new.end = 0 /\ new.buf = sub[job.sub].buf
    BY <2>0 DEF IInv, SubTypes, Subscription
  <2>2. sub' = [sub EXCEPT ![job.sub] = new] /\ stored' = stored
    BY <1>6, <2>0, StartDrainSub DEF StartDrain, actorVars, IInv
  <2> HIDE DEF new
  <2> QED
    BY <1>0, <2>0, <2>1, <2>2 DEF IInv, LogOK, SubKnown, SubTypes
<1>7. ASSUME NEW i \in Subs, DrainEvent(i) PROVE SubKnown'
  <2> DEFINE new == [sub[i] EXCEPT !.buf = Tail(sub[i].buf)]
  <2>1. sub[i].buf # <<>> /\ sub[i] \in Subscription /\ Len(sub[i].buf) <= QueueCap /\ 0 \in Int
    BY <1>7 DEF DrainEvent, IInv, SubTypes
  <2>2. sub' = [sub EXCEPT ![i] = new] /\ stored' = stored
    BY <1>7, DrainEventSub DEF DrainEvent, actorVars, IInv
  <2>3. /\ new.end = sub[i].end /\ new.buf = Tail(sub[i].buf)
        /\ \A k \in 1..Len(Tail(sub[i].buf)) :
             Tail(sub[i].buf)[k] = sub[i].buf[k + 1] /\ k + 1 \in 1..Len(sub[i].buf)
    BY <2>1, DrainEffect
  <2> HIDE DEF new
  <2> QED
    BY <2>2, <2>3 DEF IInv, LogOK, SubKnown, SubTypes
<1>8. ASSUME NEW i \in Subs, DrainResync(i) PROVE SubKnown'
  <2>1. FreeSub.end = 0 /\ FreeSub.buf = <<>> /\ Len(<<>>) = 0
    BY FreshSubs, EmptySeq
  <2> QED
    BY <1>8, <1>0, <2>1 DEF DrainResync, Free, actorVars, IInv, LogOK, SubKnown, SubTypes
<1>9. ASSUME NEW i \in Subs, DrainStop(i) PROVE SubKnown'
  <2>1. FreeSub.end = 0 /\ FreeSub.buf = <<>> /\ Len(<<>>) = 0
    BY FreshSubs, EmptySeq
  <2> QED
    BY <1>9, <1>0, <2>1 DEF DrainStop, Free, actorVars, IInv, LogOK, SubKnown, SubTypes
<1>10. CASE Disconnect
  <2>1. FreeSub.end = 0 /\ FreeSub.buf = <<>> /\ Len(<<>>) = 0
    BY FreshSubs, EmptySeq
  <2> QED
    BY <1>10, <1>0, <2>1 DEF Disconnect, actorVars, IInv, LogOK, SubKnown, SubTypes
<1>11. CASE UNCHANGED <<sub>>
  <2> SUFFICES ASSUME NEW i \in Subs
               PROVE  /\ sub[i].end <= stored'
                      /\ \A k \in 1..Len(sub[i].buf) : sub[i].buf[k] <= stored'
    BY <1>11 DEF SubKnown
  <2>1. sub[i].end \in Nat /\ sub[i].buf \in Seq(Seqs)
    BY SeqsFacts DEF IInv, SubTypes, Subscription
  <2>2. \A k \in 1..Len(sub[i].buf) : sub[i].buf[k] \in Nat
    BY <2>1, ElementOfSeq, SeqsFacts
  <2> QED
    BY <1>0, <2>1, <2>2 DEF IInv, LogOK, SubKnown
<1> QED
  BY <1>1, <1>2, <1>3, <1>4, <1>5, <1>6, <1>7, <1>8, <1>9, <1>10, <1>11
  DEF Next, Actor, Serve, Drain, Client, vars, actorVars, serverVars, clientVars, Store,
      Fold, Restore, Plan, ReadState, ReadLog, SendCatchUp, Connect, Select, Leave,
      HTTPAnswer, HTTPShow, HTTPFail, Receive

LEMMA JobFrames ==
  ASSUME IInv
  PROVE  /\ job \in Attachment /\ job.out \in Seq(Frames) /\ job.upto \in Nat /\ job.after \in Nat
         /\ Known(job.out, stored) /\ job.upto <= stored
         /\ job.pc = "planned" /\ ~job.fresh => job.after <= stored
<1> QED
  BY SeqsFacts DEF IInv, JobTypes, Attachment, LogOK, JobKnown

LEMMA IdleKnown ==
  ASSUME NEW n \in Nat
  PROVE  /\ Known(Idle.out, n) /\ Idle.upto <= n
         /\ ~(Idle.pc = "planned")
<1> QED
  BY FreshSubs, EmptySeq DEF Known

LEMMA JobKnownStep ==
  ASSUME IInv, [Next]_vars
  PROVE  JobKnown'
<1>0. stored \in Nat /\ stored' \in Nat /\ stored <= stored'
  BY StoredGrows
<1>j. /\ job \in Attachment /\ job.out \in Seq(Frames) /\ job.upto \in Nat /\ job.after \in Nat
      /\ Known(job.out, stored) /\ job.upto <= stored
      /\ job.pc = "planned" /\ ~job.fresh => job.after <= stored
  BY JobFrames
<1>1. ASSUME NEW i \in Subs, ServeAttach(i) PROVE JobKnown'
  <2>1. /\ job'.out = Idle.out /\ job'.upto = Idle.upto /\ job'.pc = "subscribed"
    BY <1>1, FreshSubs DEF ServeAttach, Attachment
  <2> QED
    BY <1>0, <2>1, IdleKnown DEF JobKnown
<1>2. CASE Plan
  <2>1. job.sub \in Subs
    BY <1>2 DEF Plan, IInv, JobTypes, Attachment
  <2>2. HeadSeen \in Nat /\ HeadSeen <= stored
    BY <2>1, HeadSeenKnown
  <2>3. /\ job'.out = job.out /\ job'.upto = job.upto /\ job'.after = job.after
        /\ ~job'.fresh => ~(HeadSeen < job.after)
        /\ stored' = stored
    BY <1>2, <1>j DEF Plan, actorVars, Attachment
  <2>4. ASSUME ~job'.fresh PROVE job'.after <= stored'
    <3>1. ~(HeadSeen < job.after)
      BY <2>3, <2>4
    <3> QED
      BY <1>j, <1>0, <2>2, <2>3, <3>1
  <2> QED
    BY <1>j, <2>3, <2>4 DEF JobKnown
<1>3. CASE ReadState
  <2> DEFINE frames == <<Frame("snapshot", head), Frame("synchronized", head)>>
  <2>1. job' = [job EXCEPT !.pc = "sending", !.upto = head, !.out = frames] /\ stored' = stored
    BY <1>3 DEF ReadState, actorVars
  <2>2. Known(frames, head)
    BY DEF Known, Frame, IInv, LogTypes, Seqs
  <2> HIDE DEF frames
  <2>3. job'.out = frames /\ job'.upto = head /\ job'.pc = "sending"
    BY <1>j, <2>1 DEF Attachment
  <2>4. head = stored
    BY <1>3 DEF ReadState, IInv, LogOK, HeadOK
  <2> QED
    BY <1>0, <2>1, <2>2, <2>3, <2>4 DEF JobKnown
<1>4. CASE AttachFails
  <2>1. job' = Idle
    BY <1>4 DEF AttachFails
  <2> QED
    BY <1>0, <2>1, IdleKnown DEF JobKnown
<1>5. CASE ReadLog
  <2> DEFINE last == LastRead(job.after)
             frames == Append(Replay(job.after), Frame("synchronized", last))
  <2>1. job' = [job EXCEPT !.pc = "sending", !.upto = last, !.out = frames] /\ stored' = stored
    BY <1>5 DEF ReadLog, actorVars
  <2>2. job.after \in Seqs /\ job.after <= stored /\ stored \in Seqs
    BY <1>5, <1>j DEF ReadLog, Attachment, IInv, LogTypes
  <2>3. /\ last \in Seqs /\ job.after <= last /\ last <= stored
        /\ Replay(job.after) \in Seq(Frames) /\ Len(Replay(job.after)) = last - job.after
        /\ \A k \in 1..Len(Replay(job.after)) : Replay(job.after)[k] = Frame("event", job.after + k)
    BY <2>2, ReplayFacts
  <2>4. Known(Replay(job.after), stored)
    <3> SUFFICES ASSUME NEW k \in 1..Len(Replay(job.after)) PROVE Replay(job.after)[k].seq <= stored
      BY DEF Known
    <3>0. Replay(job.after)[k] = Frame("event", job.after + k)
      BY <2>3
    <3>1. Replay(job.after)[k].seq = job.after + k
      BY <3>0 DEF Frame
    <3> HIDE DEF last
    <3>2. last \in Nat
      BY <2>3, SeqsFacts
    <3> QED
      BY <1>0, <1>j, <2>3, <3>1, <3>2
  <2>5. Frame("synchronized", last) \in Frames /\ Frame("synchronized", last).seq = last
    BY <2>3, FrameTypes
  <2>6. Known(frames, stored)
    BY <1>0, <2>3, <2>4, <2>5, KnownFacts
  <2> HIDE DEF frames, last
  <2>7. job'.out = frames /\ job'.upto = last /\ job'.pc = "sending"
    BY <1>j, <2>1 DEF Attachment
  <2> QED
    BY <2>1, <2>3, <2>6, <2>7 DEF JobKnown
<1>6. CASE SendCatchUp
  <2>1. job.out # <<>> /\ job' = [job EXCEPT !.out = Tail(job.out)] /\ stored' = stored
    BY <1>6 DEF SendCatchUp, actorVars
  <2>2. Known(Tail(job.out), stored)
    BY <1>0, <1>j, <2>1, KnownFacts
  <2>3. /\ job'.out = Tail(job.out) /\ job'.upto = job.upto /\ job'.pc = job.pc
    BY <1>j, <2>1 DEF Attachment
  <2>4. job.pc = "sending"
    BY <1>6 DEF SendCatchUp
  <2> QED
    BY <1>j, <2>1, <2>2, <2>3, <2>4 DEF JobKnown
<1>7. CASE StartDrain
  <2>1. job' = Idle
    BY <1>7 DEF StartDrain
  <2> QED
    BY <1>0, <2>1, IdleKnown DEF JobKnown
<1>8. CASE Disconnect
  <2>1. job' = Idle
    BY <1>8 DEF Disconnect
  <2> QED
    BY <1>0, <2>1, IdleKnown DEF JobKnown
<1>9. CASE UNCHANGED <<job>>
  <2>1. Known(job.out, stored')
    BY <1>0, <1>j, KnownFacts
  <2>2. job.upto <= stored'
    BY <1>0, <1>j
  <2>3. ASSUME job.pc = "planned", ~job.fresh PROVE job.after <= stored'
    <3>1. job.after <= stored
      BY <1>j, <2>3
    <3> QED
      BY <1>0, <1>j, <3>1
  <2> QED
    BY <1>9, <2>1, <2>2, <2>3 DEF JobKnown
<1> QED
  BY <1>1, <1>2, <1>3, <1>4, <1>5, <1>6, <1>7, <1>8, <1>9
  DEF Next, Actor, Serve, Drain, Client, vars, actorVars, serverVars, clientVars, Store,
      Fold, Fanout, ActorExit, Restore, ServeDetach, DrainEvent, DrainResync, DrainStop,
      Connect, Select, Leave, HTTPAnswer, HTTPShow, HTTPFail, Receive

LEMMA DownKnownStep ==
  ASSUME IInv, [Next]_vars
  PROVE  Known(down, stored)'
<1>0. stored \in Nat /\ stored' \in Nat /\ stored <= stored'
  BY StoredGrows
<1>f. down \in Seq(Frames) /\ Known(down, stored)
  BY DEF IInv, WireTypes, LogOK
<1>1. CASE SendCatchUp
  <2>1. job.out # <<>> /\ down' = Append(down, Head(job.out))
    BY <1>1 DEF SendCatchUp
  <2>2. Head(job.out) = job.out[1] /\ Head(job.out) \in Frames
    BY <2>1, JobFrames, TailFacts
  <2>3. Head(job.out).seq <= stored
    BY <1>0, <2>1, <2>2, JobFrames, KnownFacts
  <2>4. Known(Append(down, Head(job.out)), stored)
    BY <1>0, <1>f, <2>2, <2>3, KnownFacts
  <2>5. stored' = stored
    BY <1>1 DEF SendCatchUp, actorVars
  <2> QED
    BY <2>1, <2>4, <2>5
<1>2. ASSUME NEW i \in Subs, DrainEvent(i) PROVE Known(down, stored)'
  <2>1. sub[i].buf \in Seq(Seqs) /\ sub[i].buf # <<>>
    BY <1>2 DEF DrainEvent, IInv, SubTypes, Subscription
  <2>2. Head(sub[i].buf) \in Seqs /\ Head(sub[i].buf) = sub[i].buf[1] /\ 1 \in 1..Len(sub[i].buf)
    BY <2>1, TailFacts
  <2>3. Head(sub[i].buf) <= stored
    BY <2>2 DEF IInv, LogOK, SubKnown
  <2> DEFINE e == Frame("event", Head(sub[i].buf))
  <2>4. e \in Frames /\ e.seq <= stored
    BY <2>2, <2>3, FrameTypes
  <2>5. down' = down \/ down' = Append(down, e)
    BY <1>2 DEF DrainEvent
  <2> HIDE DEF e
  <2>6. Known(Append(down, e), stored)
    BY <1>0, <1>f, <2>4, KnownFacts
  <2>7. stored' = stored
    BY <1>2 DEF DrainEvent, actorVars
  <2> QED
    BY <1>f, <2>5, <2>6, <2>7
<1>3. ASSUME NEW i \in Subs, DrainResync(i) PROVE Known(down, stored)'
  <2>0. Frame("resync", 0) \in Frames
    BY FrameTypes, SeqsFacts
  <2>1. Frame("resync", 0) \in Frames /\ Frame("resync", 0).seq <= stored
    BY <1>0, <2>0 DEF Frame
  <2>2. down' = Append(down, Frame("resync", 0)) /\ stored' = stored
    BY <1>3 DEF DrainResync, SayResync, actorVars
  <2> QED
    BY <1>0, <1>f, <2>1, <2>2, KnownFacts
<1>4. CASE Disconnect
  <2>1. down' = <<>>
    BY <1>4 DEF Disconnect
  <2> QED
    BY <2>1 DEF Known
<1>5. CASE Receive
  <2>1. down # <<>> /\ down' = Tail(down) /\ stored' = stored
    BY <1>5 DEF Receive, actorVars
  <2> QED
    BY <1>0, <1>f, <2>1, KnownFacts
<1>6. CASE UNCHANGED <<down>>
  <2>1. Known(down, stored')
    BY <1>0, <1>f, KnownFacts
  <2> QED
    BY <1>6, <2>1
<1> QED
  BY <1>1, <1>2, <1>3, <1>4, <1>5, <1>6
  DEF Next, Actor, Serve, Drain, Client, vars, actorVars, serverVars, clientVars, Store,
      Fold, Fanout, ActorExit, Restore, ServeDetach, ServeAttach, Plan, ReadState,
      AttachFails, ReadLog, StartDrain, DrainStop, Connect, Select, Leave, HTTPAnswer,
      HTTPShow, HTTPFail

LEMMA AnswerKnownStep ==
  ASSUME IInv, [Next]_vars
  PROVE  answer' <= stored'
<1>0. stored \in Nat /\ stored' \in Nat /\ stored <= stored' /\ answer \in Nat /\ answer <= stored
  BY StoredGrows, SeqsFacts DEF IInv, ClientTypes, LogOK
<1>1. CASE Select
  BY <1>1, <1>0 DEF Select
<1>2. CASE Leave
  BY <1>2, <1>0 DEF Leave
<1>3. CASE HTTPAnswer
  <2>1. answer' = head /\ head = stored /\ stored' = stored
    BY <1>3 DEF HTTPAnswer, IInv, LogOK, HeadOK
  <2> QED
    BY <1>0, <2>1
<1>4. CASE HTTPShow
  BY <1>4, <1>0 DEF HTTPShow
<1>5. CASE UNCHANGED <<answer>>
  BY <1>5, <1>0
<1> QED
  BY <1>1, <1>2, <1>3, <1>4, <1>5
  DEF Next, Actor, Serve, Drain, Client, vars, actorVars, serverVars, clientVars, Store,
      Fold, Fanout, ActorExit, Restore, ServeDetach, ServeAttach, Plan, ReadState,
      AttachFails, ReadLog, SendCatchUp, StartDrain, DrainEvent, DrainResync, DrainStop,
      Connect, Disconnect, HTTPFail, Receive

LEMMA InitOK == Init => IInv
<1> SUFFICES ASSUME Init PROVE IInv
  OBVIOUS
<1>1. /\ sub \in [Subs -> Subscription] /\ job = Idle /\ down = <<>> /\ up = <<>>
      /\ \A i \in Subs : sub[i] = FreeSub
  BY FreshSubs DEF Init
<1>2. LogTypes /\ HeadOK
  BY SeqsFacts DEF Init, LogTypes, HeadOK
<1>3. SubTypes
  BY <1>1, FreshSubs, EmptySeq, ConstantsOK DEF SubTypes
<1>4. JobTypes
  BY <1>1, FreshSubs, EmptySeq, ConstantsOK DEF Init, JobTypes
<1>5. WireTypes
  <2>1. <<>> \in Seq(Asks) /\ <<>> \in Seq(Frames) /\ Len(<<>>) <= MaxWire
    BY EmptySeq, ConstantsOK
  <2>2. online \in BOOLEAN /\ drops \in Nat
    BY DEF Init
  <2> QED
    BY <1>1, <2>1, <2>2 DEF WireTypes
<1>6. ClientTypes
  BY SeqsFacts DEF Init, ClientTypes
<1>7. SubKnown
  <2>1. stored = 0 /\ FreeSub.end = 0 /\ FreeSub.buf = <<>> /\ Len(<<>>) = 0
    BY FreshSubs, EmptySeq DEF Init
  <2> SUFFICES ASSUME NEW i \in Subs
               PROVE  sub[i].end <= stored /\ \A k \in 1..Len(sub[i].buf) : sub[i].buf[k] <= stored
    BY DEF SubKnown
  <2>2. sub[i].end = 0 /\ Len(sub[i].buf) = 0
    BY <1>1, <2>1
  <2> QED
    BY <2>1, <2>2
<1>8. JobKnown
  BY <1>1, IdleKnown DEF Init, JobKnown
<1>9. Known(down, stored) /\ answer <= stored
  BY <1>1, EmptySeq DEF Init, Known
<1> QED
  BY <1>2, <1>3, <1>4, <1>5, <1>6, <1>7, <1>8, <1>9 DEF IInv, LogOK

LEMMA StepOK == IInv /\ [Next]_vars => IInv'
<1> SUFFICES ASSUME IInv, [Next]_vars PROVE IInv'
  OBVIOUS
<1>1. LogTypes' /\ SubTypes' /\ JobTypes' /\ WireTypes' /\ ClientTypes'
  BY LogTypesStep, SubTypesStep, JobTypesStep, WireTypesStep, ClientTypesStep
<1>2. LogOK'
  BY HeadOKStep, SubKnownStep, JobKnownStep, DownKnownStep, AnswerKnownStep DEF LogOK
<1> QED
  BY <1>1, <1>2 DEF IInv

LEMMA Invariant == Spec => []IInv
<1> QED
  BY InitOK, StepOK, PTL DEF Spec

-----------------------------------------------------------------------------
(* A connection on which nothing is attached.                               *)

\* What is free is not delivered to, closed, or drained.
LEMMA FreeStays ==
  ASSUME NEW n
  PROVE  Deliver(FreeSub, n) = FreeSub /\ ~FreeSub.listed /\ FreeSub.phase = "free"
<1> QED
  BY FreshSubs DEF Deliver

\* Only serving an attach ends the quiet.
LEMMA QuietStep ==
  ASSUME IInv, [Next]_vars, Quiet
  PROVE  Quiet' \/ \E i \in Subs : ServeAttach(i)
<1>0. /\ job = Idle /\ attached = NoSub /\ (\A i \in Subs : sub[i] = FreeSub)
      /\ sub \in [Subs -> Subscription] /\ NoSub \notin Subs /\ Idle.pc = "idle"
  BY FreshSubs, ConstantsOK DEF Quiet, IInv, SubTypes
<1>1. CASE Fanout
  BY <1>0, <1>1, FreeStays DEF Fanout, Quiet, serverVars
<1>2. CASE ActorExit
  BY <1>0, <1>2, FreeStays DEF ActorExit, Quiet, serverVars
<1>3. CASE ServeDetach
  <2>1. Detached = sub
    BY <1>0 DEF Detached
  <2> QED
    BY <1>0, <1>3, <2>1 DEF ServeDetach, Quiet
<1>4. CASE \E i \in Subs : ServeAttach(i)
  BY <1>4
<1>5. CASE Plan \/ ReadState \/ AttachFails \/ ReadLog \/ SendCatchUp \/ StartDrain
  BY <1>0, <1>5 DEF Plan, ReadState, AttachFails, Refused, ReadLog, SendCatchUp, StartDrain
<1>6. CASE \E i \in Subs : Drain(i)
  BY <1>0, <1>6, FreeStays DEF Drain, DrainEvent, DrainResync, DrainStop
<1>7. CASE Disconnect
  BY <1>7 DEF Disconnect, Quiet
<1>8. CASE UNCHANGED <<sub, job, attached>>
  BY <1>0, <1>8 DEF Quiet
<1> QED
  BY <1>1, <1>2, <1>3, <1>4, <1>5, <1>6, <1>7, <1>8
  DEF Next, Actor, Serve, Client, vars, actorVars, serverVars, clientVars, Store, Fold, Restore,
      Connect, Select, Leave, HTTPAnswer, HTTPShow, HTTPFail, Receive

\* Of a quiet connection only the client changes what is on the wire.
LEMMA QuietWire ==
  ASSUME IInv, [Next]_vars, Quiet
  PROVE  /\ down' = down \/ Receive \/ Disconnect
         /\ \/ up' = up \/ Receive \/ Connect \/ Disconnect \/ Leave \/ HTTPShow \/ HTTPFail
            \/ up # <<>>
<1>0. /\ job = Idle /\ (\A i \in Subs : sub[i] = FreeSub) /\ Idle.pc = "idle"
  BY FreshSubs DEF Quiet
<1>1. CASE ServeDetach \/ \E i \in Subs : ServeAttach(i)
  BY <1>1 DEF ServeDetach, ServeAttach
<1>2. CASE Plan \/ ReadState \/ AttachFails \/ ReadLog \/ SendCatchUp \/ StartDrain
  BY <1>0, <1>2 DEF Plan, ReadState, AttachFails, Refused, ReadLog, SendCatchUp, StartDrain
<1>3. CASE \E i \in Subs : Drain(i)
  BY <1>0, <1>3, FreeStays DEF Drain, DrainEvent, DrainResync, DrainStop
<1>4. CASE UNCHANGED <<up, down>>
  BY <1>4
<1>5. CASE Receive \/ Connect \/ Disconnect \/ Leave \/ HTTPShow \/ HTTPFail
  BY <1>5 DEF Connect, Leave, HTTPShow, HTTPFail
<1> QED
  BY <1>1, <1>2, <1>3, <1>4, <1>5
  DEF Next, Actor, Serve, Client, vars, actorVars, serverVars, clientVars, Store, Fold, Fanout,
      ActorExit, Restore, Select, HTTPAnswer

LEMMA SilentStep ==
  ASSUME IInv, [Next]_vars, Silent
  PROVE  /\ Quiet' /\ down' = <<>>
         /\ Silent' \/ Connect \/ Leave \/ HTTPShow \/ HTTPFail
<1>1. Quiet /\ up = <<>> /\ down = <<>>
  BY DEF Silent
<1>2. Quiet'
  BY <1>1, QuietStep DEF ServeAttach
<1>3. ~Receive
  BY <1>1 DEF Receive
<1>4. down' = <<>>
  BY <1>1, <1>3, QuietWire DEF Disconnect
<1>5. up' = <<>> \/ Connect \/ Leave \/ HTTPShow \/ HTTPFail
  BY <1>1, <1>3, QuietWire DEF Disconnect
<1> QED
  BY <1>2, <1>4, <1>5 DEF Silent

-----------------------------------------------------------------------------
(* What the client shows.                                                   *)

\* The first frame on the wire goes on where the reader is.
LEMMA FirstFollows ==
  ASSUME OneInv, wanted, down # <<>>
  PROVE  online /\ request = "none" /\ Follows(cursor, down[1])
<1>1. online
  BY DEF OneInv, ClientOK, Silent
<1>2. CASE Serving
  <2>1. job.pc = "sending"
    BY <1>2 DEF Serving, OneInv, IInv, JobTypes, Attachment
  <2>2. Chain(cursor, down \o job.out)
    BY <1>2, <2>1 DEF Serving
  <2>3. down \in Seq(Frames) /\ job.out \in Seq(Frames)
    BY JobFrames DEF OneInv, IInv, WireTypes
  <2>4. down \o job.out \in Seq(Frames) /\ down \o job.out # <<>> /\ (down \o job.out)[1] = down[1]
    BY <2>3, CatTail
  <2> QED
    BY <1>1, <1>2, <2>2, <2>4, ChainTail DEF Serving
<1>3. CASE Drained
  BY <1>1, <1>3, ChainTail DEF Drained, OneInv, IInv, WireTypes
<1>4. CASE Ended
  BY <1>1, <1>4, ChainTail DEF Ended, OneInv, IInv, WireTypes
<1> QED
  BY <1>1, <1>2, <1>3, <1>4 DEF OneInv, AttachOK, Waiting, Asked, Silent

\* It is then shown, and the reader is where it says; unless it is a resync.
LEMMA ReceiveEffect ==
  ASSUME OneInv, Receive, wanted
  PROVE  /\ online /\ request = "none" /\ down' = Tail(down) /\ Follows(cursor, down[1])
         /\ cursor' \in Nat /\ cursor' >= cursor /\ cursor' <= stored /\ applied' = 1..cursor'
         /\ down[1].kind # "resync" => cursor' = down[1].seq /\ up' = up
         /\ down[1].kind = "resync" => cursor' = cursor /\ Send(<<Ask("attach", cursor)>>)
<1>1. down # <<>> /\ down' = Tail(down)
  BY DEF Receive
<1>2. online /\ request = "none" /\ Follows(cursor, down[1])
  BY <1>1, FirstFollows
<1>3. /\ Head(down) = down[1] /\ down[1].seq \in Seqs /\ 1 \in 1..Len(down)
      /\ down[1].kind \in {"event", "snapshot", "synchronized", "resync"}
  BY <1>1, HeadDown DEF OneInv, IInv
<1>4. down[1].seq \in Nat /\ down[1].seq <= stored
  BY <1>3, SeqsFacts DEF OneInv, IInv, LogOK, Known
<1>5. cursor \in Nat /\ cursor <= stored /\ applied = 1..cursor
  BY SeqsFacts DEF OneInv, IInv, ClientTypes, ClientOK, Gapless
<1>6. CASE down[1].kind = "event"
  <2>1. down[1].seq = cursor + 1 /\ ~(down[1].seq <= cursor)
    BY <1>2, <1>4, <1>5, <1>6 DEF Follows
  <2>2. applied' = applied \cup {down[1].seq} /\ cursor' = down[1].seq /\ up' = up
    BY <1>3, <1>6, <2>1 DEF Receive, ShowEvent, Show
  <2>3. 1..(cursor + 1) = (1..cursor) \cup {cursor + 1}
    BY <1>5
  <2> QED
    BY <1>1, <1>2, <1>4, <1>5, <1>6, <2>1, <2>2, <2>3
<1>7. CASE down[1].kind = "snapshot"
  <2>1. applied' = 1..down[1].seq /\ cursor' = down[1].seq /\ up' = up
    BY <1>3, <1>7 DEF Receive, Show
  <2>2. down[1].seq >= cursor
    BY <1>2, <1>7 DEF Follows
  <2> QED
    BY <1>1, <1>2, <1>4, <1>7, <2>1, <2>2
<1>8. CASE down[1].kind = "synchronized"
  <2>1. applied' = applied /\ cursor' = cursor /\ up' = up
    BY <1>3, <1>8 DEF Receive
  <2>2. down[1].seq = cursor
    BY <1>2, <1>8 DEF Follows
  <2> QED
    BY <1>1, <1>2, <1>5, <1>8, <2>1, <2>2
<1>9. CASE down[1].kind = "resync"
  <2>1. applied' = applied /\ cursor' = cursor /\ Send(<<Ask("attach", cursor)>>)
    BY <1>3, <1>9 DEF Receive, Reattach
  <2> QED
    BY <1>1, <1>2, <1>5, <1>9, <2>1
<1> QED
  BY <1>3, <1>6, <1>7, <1>8, <1>9

\* How far the reader is moves only forward and only inside the log, or back to
\* the start.
LEMMA CursorStep ==
  ASSUME OneInv, [Next]_vars
  PROVE  /\ applied' = 1..cursor'
         /\ \/ stored' = stored + 1 /\ cursor' = cursor
            \/ /\ stored' = stored
               /\ cursor' = cursor \/ cursor' = 0 \/ cursor' \in (cursor + 1)..stored
<1>0. /\ stored \in Nat /\ cursor \in Nat /\ cursor <= stored /\ applied = 1..cursor
      /\ answer \in Nat /\ answer <= stored /\ 1..0 = {}
  BY SeqsFacts DEF OneInv, IInv, LogTypes, ClientTypes, ClientOK, Gapless, LogOK
<1>1. CASE Store
  BY <1>0, <1>1 DEF Store, clientVars
<1>2. CASE Select \/ Leave
  BY <1>0, <1>2 DEF Select, Leave, Show, actorVars
<1>3. CASE HTTPShow
  <2>1. cursor = 0
    BY <1>3 DEF HTTPShow, OneInv, ClientOK
  <2>2. applied' = 1..answer /\ cursor' = answer /\ stored' = stored
    BY <1>3 DEF HTTPShow, Show, actorVars
  <2> QED
    BY <1>0, <2>1, <2>2
<1>4. CASE Receive /\ wanted
  <2>1. cursor' \in Nat /\ cursor' >= cursor /\ cursor' <= stored /\ applied' = 1..cursor'
    BY <1>4, ReceiveEffect
  <2>2. stored' = stored
    BY <1>4 DEF Receive, actorVars
  <2> QED
    BY <1>0, <2>1, <2>2
<1>5. CASE Receive /\ ~wanted
  BY <1>0, <1>5 DEF Receive, actorVars
<1>6. CASE UNCHANGED <<stored, applied, cursor>>
  BY <1>0, <1>6
<1> QED
  BY <1>1, <1>2, <1>3, <1>4, <1>5, <1>6
  DEF Next, Actor, Serve, Drain, Client, vars, actorVars, serverVars, clientVars, Fold, Fanout,
      ActorExit, Restore, ServeDetach, ServeAttach, Plan, ReadState, AttachFails, ReadLog,
      SendCatchUp, StartDrain, DrainEvent, DrainResync, DrainStop, Connect, Disconnect,
      HTTPAnswer, HTTPFail

\* What is wanted was picked, and what is asked for is shown from the start.
LEMMA RequestStep ==
  ASSUME OneInv, [Next]_vars
  PROVE  /\ ~wanted' => cursor' = 0 /\ request' = "none"
         /\ request' # "none" => cursor' = 0
         /\ wanted' => selects' > 0
<1>0. /\ ~wanted => cursor = 0 /\ request = "none"
      /\ request # "none" => cursor = 0
      /\ wanted => selects > 0
      /\ selects \in Nat
  BY DEF OneInv, ClientOK, IInv, ClientTypes
<1>1. CASE Select
  <2>1. wanted' = TRUE /\ cursor' = 0 /\ selects' = selects + 1
    BY <1>1 DEF Select, Show
  <2> QED
    BY <1>0, <2>1
<1>2. CASE Leave
  BY <1>2 DEF Leave, Show
<1>3. CASE HTTPAnswer
  BY <1>0, <1>3 DEF HTTPAnswer
<1>4. CASE HTTPShow
  BY <1>0, <1>4 DEF HTTPShow
<1>5. CASE HTTPFail
  BY <1>0, <1>5 DEF HTTPFail
<1>6. CASE Receive
  <2>1. wanted' = wanted /\ request' = request /\ selects' = selects
    BY <1>6 DEF Receive
  <2>2. ~wanted => cursor' = cursor
    BY <1>6 DEF Receive
  <2>3. wanted => request = "none"
    BY <1>6, ReceiveEffect
  <2> QED
    BY <1>0, <2>1, <2>2, <2>3
<1>7. CASE UNCHANGED <<wanted, cursor, request, selects>>
  BY <1>0, <1>7
<1> QED
  BY <1>1, <1>2, <1>3, <1>4, <1>5, <1>6, <1>7
  DEF Next, Actor, Serve, Drain, Client, vars, actorVars, serverVars, clientVars, Store, Fold,
      Fanout, ActorExit, Restore, ServeDetach, ServeAttach, Plan, ReadState, AttachFails, ReadLog,
      SendCatchUp, StartDrain, DrainEvent, DrainResync, DrainStop, Connect, Disconnect

LEMMA ClientStep ==
  ASSUME OneInv, [Next]_vars
  PROVE  ClientOK'
<1>0. IInv /\ IInv'
  BY StepOK DEF OneInv
<1>1. Gapless' /\ cursor' <= stored'
  <2>1. stored \in Nat /\ cursor \in Nat /\ cursor <= stored
    BY <1>0, SeqsFacts DEF OneInv, IInv, LogTypes, ClientTypes, ClientOK
  <2> QED
    BY <2>1, CursorStep DEF Gapless
<1>2. ASSUME selects' = 0 PROVE Silent'
  <2>1. selects = 0 /\ ~Select
    <3>1. selects \in Nat
      BY <1>0 DEF IInv, ClientTypes
    <3>2. ~Select
      BY <1>2, <3>1 DEF Select
    <3>3. selects' = selects
      BY <3>2 DEF Next, Actor, Serve, Drain, Client, vars, actorVars, serverVars, clientVars,
           Store, Fold, Fanout, ActorExit, Restore, ServeDetach, ServeAttach, Plan, ReadState,
           AttachFails, ReadLog, SendCatchUp, StartDrain, DrainEvent, DrainResync, DrainStop,
           Connect, Disconnect, Leave, HTTPAnswer, HTTPShow, HTTPFail, Receive
    <3> QED
      BY <1>2, <3>2, <3>3
  <2>2. Silent /\ ~wanted /\ request = "none"
    <3>1. wanted => selects > 0
      BY DEF OneInv, ClientOK
    <3>2. ~wanted
      BY <2>1, <3>1
    <3> QED
      BY <2>1, <3>2 DEF OneInv, ClientOK
  <2>3. ~Leave /\ ~HTTPShow /\ ~HTTPFail /\ (Connect => up' = <<>>)
    BY <2>2 DEF Leave, HTTPShow, HTTPFail, Connect
  <2>4. Quiet' /\ down' = <<>> /\ (Silent' \/ Connect)
    BY <1>0, <2>2, <2>3, SilentStep
  <2> QED
    BY <2>3, <2>4 DEF Silent
<1>3. ASSUME ~online' PROVE Silent'
  <2>1. CASE Disconnect
    BY <2>1 DEF Disconnect, Silent, Quiet
  <2>2. CASE ~Disconnect
    <3>0. online' = online \/ Connect
      BY <2>2 DEF Next, Actor, Serve, Drain, Client, vars, actorVars, serverVars,
           clientVars, Store, Fold, Fanout, ActorExit, Restore, ServeDetach, ServeAttach, Plan,
           ReadState, AttachFails, ReadLog, SendCatchUp, StartDrain, DrainEvent, DrainResync,
           DrainStop, Select, Leave, HTTPAnswer, HTTPShow, HTTPFail, Receive
    <3>1. ~Connect /\ ~online
      BY <1>3, <3>0 DEF Connect
    <3>2. Silent
      BY <3>1 DEF OneInv, ClientOK
    <3>3. Quiet' /\ down' = <<>> /\ (Silent' \/ Leave \/ HTTPShow \/ HTTPFail)
      BY <1>0, <3>1, <3>2, SilentStep
    <3>4. Leave \/ HTTPShow \/ HTTPFail => up' = up
      BY <3>1 DEF Leave, HTTPShow, HTTPFail, Send
    <3> QED
      BY <3>2, <3>3, <3>4 DEF Silent
  <2> QED
    BY <2>1, <2>2
<1> QED
  BY <1>1, <1>2, <1>3, RequestStep DEF ClientOK

-----------------------------------------------------------------------------
(* The stages of an attachment.                                             *)

\* What the client may do is asked for by the stage it is in.
LEMMA NotPicked ==
  ASSUME OneInv, MaxSelects <= 1, wanted
  PROVE  ~Select
<1>1. selects \in Nat /\ selects > 0 /\ MaxSelects \in Nat
  BY ConstantsOK DEF OneInv, ClientOK, IInv, ClientTypes
<1> QED
  BY <1>1 DEF Select

\* An attach is sent on a connection with nothing on it.
LEMMA AskSent ==
  ASSUME IInv, IInv', online, Quiet', down' = <<>>, request' = "none", up = <<>>,
         NEW k \in {"attach", "attach_fresh"}, Send(<<Ask(k, cursor')>>)
  PROVE  Asked'
<1>1. cursor' \in Seqs
  BY DEF IInv, ClientTypes
<1>2. Len(up') = 1 /\ up'[1].kind = k /\ up'[1].after = cursor'
  BY <1>1, SendEffect DEF IInv
<1> QED
  BY <1>2 DEF Asked

LEMMA ConnectAsks ==
  ASSUME Connect, wanted, request = "none", Quiet', down' = <<>>
  PROVE  Asked'
<1>1. up' = <<Ask("attach", cursor)>> /\ cursor' = cursor /\ request' = "none"
  BY DEF Connect, clientVars
<1>2. Len(up') = 1 /\ up'[1] = Ask("attach", cursor)
  BY <1>1
<1> QED
  BY <1>1, <1>2 DEF Asked, Ask

\* A page that is not shown, or not connected, starts over.
LEMMA StartStep ==
  ASSUME OneInv, [Next]_vars, MaxSelects <= 1, ~(wanted /\ online), wanted', online'
  PROVE  Waiting' \/ Asked'
<1>0. IInv /\ IInv'
  BY StepOK DEF OneInv
<1>1. Select \/ Connect
  BY DEF Next, Actor, Serve, Drain, Client, vars, actorVars, serverVars, clientVars, Store, Fold,
      Fanout, ActorExit, Restore, ServeDetach, ServeAttach, Plan, ReadState, AttachFails, ReadLog,
      SendCatchUp, StartDrain, DrainEvent, DrainResync, DrainStop, Disconnect, Leave,
      HTTPAnswer, HTTPShow, HTTPFail, Receive
<1>2. CASE Select
  <2>1. selects = 0
    BY <1>0, <1>2, ConstantsOK DEF Select, IInv, ClientTypes
  <2>2. Silent
    BY <2>1 DEF OneInv, ClientOK
  <2>3. Quiet' /\ up' = <<>> /\ down' = <<>> /\ request' = "asked"
    BY <1>2, <2>2 DEF Select, Silent, Quiet, serverVars
  <2> QED
    BY <2>3 DEF Waiting, Silent
<1>3. CASE Connect
  <2>1. ~online /\ wanted /\ request' = request
    BY <1>3 DEF Connect, clientVars
  <2>2. Silent
    BY <2>1 DEF OneInv, ClientOK
  <2>3. Quiet' /\ down' = <<>>
    BY <1>0, <2>2, SilentStep
  <2>4. CASE request = "none"
    BY <1>3, <2>1, <2>3, <2>4, ConnectAsks
  <2>5. CASE request # "none"
    BY <1>3, <2>1, <2>3, <2>5 DEF Connect, Waiting, Silent
  <2> QED
    BY <2>4, <2>5
<1> QED
  BY <1>1, <1>2, <1>3

LEMMA WaitingStep ==
  ASSUME OneInv, [Next]_vars, wanted, online, ~Select, Waiting, wanted', online'
  PROVE  Waiting' \/ Asked'
<1>0. IInv /\ IInv' /\ Silent /\ up = <<>> /\ down = <<>> /\ request # "none"
  BY StepOK DEF OneInv, Waiting, Silent
<1>1. Quiet' /\ down' = <<>> /\ (Silent' \/ Connect \/ Leave \/ HTTPShow \/ HTTPFail)
  BY <1>0, SilentStep
<1>2. ~Connect /\ ~Leave /\ ~Receive
  BY <1>0 DEF Connect, Leave, Receive
<1>3. CASE HTTPShow
  <2>1. request' = "none" /\ cursor' = answer /\ Send(<<Ask("attach", answer)>>)
    BY <1>3 DEF HTTPShow, Show
  <2> QED
    BY <1>0, <1>1, <2>1, AskSent
<1>4. CASE HTTPFail
  <2>1. cursor = 0
    BY <1>0 DEF OneInv, ClientOK
  <2>2. request' = "none" /\ cursor' = 0 /\ Send(<<Ask("attach_fresh", 0)>>)
    BY <1>4, <2>1 DEF HTTPFail
  <2> QED
    BY <1>0, <1>1, <2>2, AskSent
<1>5. CASE HTTPAnswer
  BY <1>0, <1>1, <1>5 DEF HTTPAnswer, Waiting, Silent
<1>6. CASE ~HTTPShow /\ ~HTTPFail /\ ~HTTPAnswer
  <2>1. request' = request
    BY <1>2, <1>6 DEF Next, Actor, Serve, Drain, Client, vars, actorVars, serverVars, clientVars,
        Store, Fold, Fanout, ActorExit, Restore, ServeDetach, ServeAttach, Plan, ReadState,
        AttachFails, ReadLog, SendCatchUp, StartDrain, DrainEvent, DrainResync, DrainStop,
        Disconnect
  <2> QED
    BY <1>0, <1>1, <1>2, <1>6, <2>1 DEF Waiting
<1> QED
  BY <1>3, <1>4, <1>5, <1>6

\* Serving the attach: a new subscription, which has missed nothing it will need.
LEMMA ServeAttachStep ==
  ASSUME OneInv, Asked, NEW i \in Subs, ServeAttach(i)
  PROVE  Serving'
<1>0. /\ sub \in [Subs -> Subscription] /\ NoSub \notin Subs /\ head \in Nat /\ cursor \in Nat
      /\ Quiet /\ down = <<>> /\ request = "none" /\ up \in Seq(Asks) /\ Len(up) = 1
      /\ up[1].after = cursor
  BY ConstantsOK, SeqsFacts DEF OneInv, IInv, SubTypes, LogTypes, ClientTypes, WireTypes, Asked
<1>1. Head(up) = up[1] /\ Tail(up) = <<>>
  <2>1. up # <<>>
    BY DEF ServeAttach
  <2> QED
    BY <1>0, <2>1, TailFacts
<1>2. Detached = sub
  BY <1>0 DEF Detached, Quiet
<1>3. /\ up' = <<>> /\ down' = <<>> /\ attached' = NoSub /\ request' = "none" /\ cursor' = cursor
      /\ head' = head /\ step' = step /\ sub' = [sub EXCEPT ![i] = NewSub]
  BY <1>0, <1>1, <1>2 DEF ServeAttach, clientVars
<1>4. /\ job'.pc = "subscribed" /\ job'.sub = i /\ job'.after = cursor /\ job'.out = <<>>
  BY <1>0, <1>1, FreshSubs DEF ServeAttach, Attachment
<1>5. sub'[i] = NewSub /\ \A k \in Subs : k # i => sub'[k] = FreeSub
  BY <1>0, <1>3 DEF Quiet
<1>6. RunOK(NewSub, Delivered') /\ First(NewSub, Delivered') = Delivered' + 1
  <2>1. Len(NewSub.buf) = 0 /\ NewSub.buf = <<>> /\ ~NewSub.closed
    BY FreshSubs, EmptySeq
  <2> QED
    BY <2>1 DEF RunOK, First
<1>7. HeadSeen' = head /\ Delivered' <= head
  <2>1. Delivered' = IF step = "fanout" THEN head - 1 ELSE head
    BY <1>3 DEF Delivered
  <2>2. Delivered' <= head
    BY <1>0, <2>1
  <2> QED
    BY <1>3, <1>4, <1>5, <2>2, FreshSubs DEF HeadSeen
<1>8. Delivered' \in Int
  BY <1>0, <1>3 DEF Delivered
<1>9. InTime(NewSub, Delivered', HeadSeen')
  BY <1>0, <1>6, <1>7, <1>8 DEF InTime
<1> QED
  BY <1>3, <1>4, <1>5, <1>6, <1>9, FreshSubs DEF Serving, Only, Used

LEMMA AskedStep ==
  ASSUME OneInv, [Next]_vars, wanted, online, ~Select, Asked, wanted', online'
  PROVE  Asked' \/ Serving'
<1>0. /\ IInv /\ Quiet /\ request = "none" /\ down = <<>> /\ Len(up) = 1
      /\ up[1].kind # "detach" /\ up[1].after = cursor /\ up \in Seq(Asks)
  BY DEF OneInv, IInv, WireTypes, Asked
<1>1. ~ServeDetach
  <2>1. up # <<>> => Head(up) = up[1]
    BY <1>0, TailFacts
  <2> QED
    BY <1>0, <2>1 DEF ServeDetach
<1>2. CASE \E i \in Subs : ServeAttach(i)
  BY <1>2, ServeAttachStep
<1>3. CASE ~\E i \in Subs : ServeAttach(i)
  <2>1. Quiet'
    BY <1>0, <1>3, QuietStep
  <2>2. ~Connect /\ ~Disconnect /\ ~Leave /\ ~Receive /\ ~HTTPAnswer /\ ~HTTPShow /\ ~HTTPFail
    BY <1>0 DEF Connect, Disconnect, Leave, Receive, HTTPAnswer, HTTPShow, HTTPFail
  <2>3. ~(Plan \/ ReadState \/ AttachFails \/ ReadLog \/ SendCatchUp \/ StartDrain)
    BY <1>0, FreshSubs DEF Quiet, Plan, ReadState, AttachFails, Refused, ReadLog, SendCatchUp,
        StartDrain
  <2>4. ~\E i \in Subs : Drain(i)
    BY <1>0, FreeStays DEF Quiet, Drain, DrainEvent, DrainResync, DrainStop
  <2>5. UNCHANGED <<request, up, down, cursor>>
    BY <1>1, <1>3, <2>2, <2>3, <2>4
    DEF Next, Actor, Serve, Client, vars, actorVars, serverVars, clientVars, Store, Fold, Fanout,
        ActorExit, Restore
  <2> QED
    BY <1>0, <2>1, <2>5 DEF Asked
<1> QED
  BY <1>2, <1>3

LEMMA EndedStep ==
  ASSUME OneInv, [Next]_vars, wanted, online, ~Select, Ended, wanted', online'
  PROVE  Ended' \/ Asked'
<1>0. /\ IInv /\ IInv' /\ Quiet /\ request = "none" /\ up = <<>> /\ Chain(cursor, down)
      /\ down \in Seq(Frames)
  BY StepOK DEF OneInv, IInv, WireTypes, Ended
<1>1. ~ServeDetach /\ ~\E i \in Subs : ServeAttach(i)
  BY <1>0 DEF ServeDetach, ServeAttach
<1>2. Quiet'
  BY <1>0, <1>1, QuietStep
<1>3. CASE Receive
  <2>1. /\ down # <<>> /\ down' = Tail(down) /\ request' = request
        /\ down[1].kind # "resync" => cursor' = down[1].seq /\ up' = up
        /\ down[1].kind = "resync" => cursor' = cursor /\ Send(<<Ask("attach", cursor)>>)
    BY <1>3, ReceiveEffect DEF Receive
  <2>2. Chain(down[1].seq, Tail(down)) /\ (down[1].kind = "resync" => Tail(down) = <<>>)
    BY <1>0, <2>1, ChainTail
  <2>3. CASE down[1].kind = "resync"
    BY <1>0, <1>2, <2>1, <2>2, <2>3, AskSent
  <2>4. CASE down[1].kind # "resync"
    BY <1>0, <1>2, <2>1, <2>2, <2>4 DEF Ended
  <2> QED
    BY <2>3, <2>4
<1>4. CASE ~Receive
  <2>2. ~Connect /\ ~Disconnect /\ ~Leave /\ ~HTTPAnswer /\ ~HTTPShow /\ ~HTTPFail
    BY <1>0 DEF Connect, Disconnect, Leave, HTTPAnswer, HTTPShow, HTTPFail
  <2>3. ~(Plan \/ ReadState \/ AttachFails \/ ReadLog \/ SendCatchUp \/ StartDrain)
    BY <1>0, FreshSubs DEF Quiet, Plan, ReadState, AttachFails, Refused, ReadLog, SendCatchUp,
        StartDrain
  <2>4. ~\E i \in Subs : Drain(i)
    BY <1>0, FreeStays DEF Quiet, Drain, DrainEvent, DrainResync, DrainStop
  <2>5. UNCHANGED <<request, up, down, cursor>>
    BY <1>1, <1>4, <2>2, <2>3, <2>4
    DEF Next, Actor, Serve, Client, vars, actorVars, serverVars, clientVars, Store, Fold, Fanout,
        ActorExit, Restore
  <2> QED
    BY <1>0, <1>2, <2>5 DEF Ended
<1> QED
  BY <1>3, <1>4

-----------------------------------------------------------------------------
(* What the actor does under an attachment.                                 *)

SeenBy(s, h) == IF s.closed THEN s.end ELSE h

\* What a queue will yield next stays what it was, and what Attach could see of the
\* log does not shrink.
Carried(s, t, d, e, h, g) ==
  /\ t.phase = s.phase /\ t.cancelled = s.cancelled /\ t.upto = s.upto /\ RunOK(t, e)
  /\ Yields(t) => Yields(s) /\ First(t, e) = First(s, d)
  /\ SeenBy(t, g) >= SeenBy(s, h)

LEMMA ActorCarries ==
  ASSUME IInv, Actor, NEW j \in Subs, RunOK(sub[j], Delivered)
  PROVE  Carried(sub[j], sub'[j], Delivered, Delivered', head, head')
<1>0. /\ sub[j] \in Subscription /\ Len(sub[j].buf) <= QueueCap /\ head \in Nat /\ stored \in Nat
      /\ sub[j].end \in Nat /\ head \in Seqs /\ SeenBy(sub[j], head) \in Nat
  BY SeqsFacts DEF IInv, LogTypes, SubTypes, Subscription, SeenBy
<1>1. CASE Store
  <2>1. sub'[j] = sub[j] /\ head' = head /\ Delivered' = Delivered
    BY <1>1 DEF Store, Delivered
  <2> QED
    BY <1>0, <2>1 DEF Carried
<1>2. CASE Fold
  <2>1. sub'[j] = sub[j] /\ head' = head + 1 /\ step = "fold" /\ step' = "fanout"
    BY <1>2 DEF Fold, IInv, LogOK, HeadOK
  <2>2. Delivered' = Delivered
    BY <1>0, <2>1 DEF Delivered
  <2>3. SeenBy(sub[j], head + 1) >= SeenBy(sub[j], head)
    BY <1>0 DEF SeenBy
  <2> QED
    BY <2>1, <2>2, <2>3 DEF Carried
<1>3. CASE Fanout
  <2>1. /\ sub'[j] = Deliver(sub[j], head) /\ head' = head /\ step = "fanout" /\ step' = "loop"
        /\ head > 0
    BY <1>3 DEF Fanout, IInv, LogOK, HeadOK
  <2>2. Delivered = head - 1 /\ Delivered' = head
    BY <2>1 DEF Delivered
  <2>3. /\ sub'[j].phase = sub[j].phase /\ sub'[j].cancelled = sub[j].cancelled
        /\ sub'[j].upto = sub[j].upto /\ sub'[j].end = sub[j].end /\ sub'[j].closed = sub[j].closed
        /\ RunOK(sub[j], head - 1) => RunOK(sub'[j], head)
        /\ Yields(sub'[j]) => Yields(sub[j]) /\ First(sub'[j], head) = First(sub[j], head - 1)
    BY <1>0, <2>1, DeliverEffect
  <2>4. SeenBy(sub'[j], head) >= SeenBy(sub[j], head)
    BY <1>0, <2>3 DEF SeenBy
  <2>5. RunOK(sub'[j], head)
    BY <2>2, <2>3
  <2> QED
    BY <2>1, <2>2, <2>3, <2>4, <2>5 DEF Carried
<1>4. CASE ActorExit
  <2>1. step' = step /\ head' = head /\ Delivered' = Delivered
    BY <1>4 DEF ActorExit, Delivered
  <2>2. CASE sub[j].listed
    <3>1. sub'[j] = [sub[j] EXCEPT !.closed = TRUE, !.listed = FALSE, !.end = head]
      BY <1>4, <2>2 DEF ActorExit
    <3>2. /\ sub'[j].buf = sub[j].buf /\ sub'[j].end = head /\ sub'[j].closed
          /\ ~sub'[j].listed /\ sub'[j].phase = sub[j].phase
          /\ sub'[j].cancelled = sub[j].cancelled /\ sub'[j].upto = sub[j].upto
      BY <1>0, <3>1 DEF Subscription
    <3>3. ~sub[j].closed
      BY <2>2 DEF RunOK
    <3>4. SeenBy(sub'[j], head) >= SeenBy(sub[j], head)
      BY <1>0, <3>2, <3>3 DEF SeenBy
    <3>5. RunOK(sub'[j], Delivered)
      BY <3>2 DEF RunOK
    <3>6. Yields(sub'[j]) => Yields(sub[j]) /\ First(sub'[j], Delivered) = First(sub[j], Delivered)
      BY <3>2 DEF Yields, First
    <3> QED
      BY <2>1, <3>2, <3>4, <3>5, <3>6 DEF Carried
  <2>3. CASE ~sub[j].listed
    <3>1. sub'[j] = sub[j]
      BY <1>4, <2>3 DEF ActorExit
    <3> QED
      BY <1>0, <2>1, <3>1 DEF Carried
  <2> QED
    BY <2>2, <2>3
<1>5. CASE Restore
  <2>1. sub'[j] = sub[j] /\ head' = head /\ Delivered' = Delivered
    BY <1>5 DEF Restore, Delivered
  <2> QED
    BY <1>0, <2>1 DEF Carried
<1> QED
  BY <1>1, <1>2, <1>3, <1>4, <1>5 DEF Actor

LEMMA CarriedTiming ==
  ASSUME NEW s, NEW t, NEW d, NEW e, NEW h, NEW g, Carried(s, t, d, e, h, g)
  PROVE  /\ \A p : Used(s, p) => Used(t, p)
         /\ \A n : InTime(s, d, n) => InTime(t, e, n)
         /\ \A n : InStep(s, d, n) => InStep(t, e, n)
<1> QED
  BY DEF Carried, Used, InTime, InStep

LEMMA ActorKeeps ==
  ASSUME IInv, Actor
  PROVE  /\ UNCHANGED <<job, attached, up, down, cursor, request>>
         /\ \A k \in Subs : sub[k] = FreeSub => sub'[k] = FreeSub
<1>1. UNCHANGED <<job, attached, up, down, cursor, request>>
  BY DEF Actor, Store, Fold, Fanout, ActorExit, Restore, serverVars, clientVars
<1>2. \A k \in Subs : sub[k] = FreeSub => sub'[k] = FreeSub
  BY FreeStays DEF Actor, Store, Fold, Fanout, ActorExit, Restore
<1> QED
  BY <1>1, <1>2

LEMMA FirstTypes ==
  ASSUME IInv, NEW j \in Subs
  PROVE  /\ sub[j] \in Subscription /\ Len(sub[j].buf) <= QueueCap /\ sub[j].buf \in Seq(Seqs)
         /\ Delivered \in Int /\ Delivered <= stored /\ stored \in Nat /\ stored \in Seqs
         /\ First(sub[j], Delivered) \in Int /\ cursor \in Nat /\ head \in Nat
         /\ sub[j].upto \in Nat
<1>1. /\ sub[j] \in Subscription /\ Len(sub[j].buf) <= QueueCap /\ sub[j].buf \in Seq(Seqs)
      /\ sub[j].upto \in Nat
  BY SeqsFacts DEF IInv, SubTypes, Subscription
<1>2. head \in Nat /\ stored \in Nat /\ cursor \in Nat /\ stored \in Seqs
  BY SeqsFacts DEF IInv, LogTypes, ClientTypes
<1>3. Delivered \in Int /\ Delivered <= stored
  BY <1>2 DEF Delivered, IInv, LogOK, HeadOK, LogTypes
<1>4. sub[j].buf # <<>> => sub[j].buf[1] \in Seqs
  BY <1>1, TailFacts
<1>5. First(sub[j], Delivered) \in Int
  <2>1. sub[j].buf # <<>> => sub[j].buf[1] \in Int
    BY <1>4 DEF Seqs
  <2>2. Delivered + 1 \in Int
    BY <1>3
  <2> QED
    BY <2>1, <2>2 DEF First
<1> QED
  BY <1>1, <1>2, <1>3, <1>5

-----------------------------------------------------------------------------
(* An attach being served.                                                  *)

LEMMA ServingActor ==
  ASSUME OneInv, Actor, Serving
  PROVE  Serving'
<1>0. IInv /\ IInv' /\ job' = job /\ job.sub \in Subs
  BY ActorKeeps, StepOK DEF OneInv, Serving, Next
<1>1. Carried(sub[job.sub], sub'[job.sub], Delivered, Delivered', head, head')
  BY <1>0, ActorCarries DEF Serving
<1>2. /\ UNCHANGED <<job, attached, up, down, cursor, request>>
      /\ \A k \in Subs : sub[k] = FreeSub => sub'[k] = FreeSub
  BY <1>0, ActorKeeps
<1>3. /\ Used(sub'[job.sub], "reading") /\ RunOK(sub'[job.sub], Delivered')
      /\ \A n : InTime(sub[job.sub], Delivered, n) => InTime(sub'[job.sub], Delivered', n)
  BY <1>1, CarriedTiming DEF Serving, Carried
<1>4. InTime(sub[job.sub], Delivered, HeadSeen) => InTime(sub'[job.sub], Delivered', HeadSeen')
  <2>1. HeadSeen = SeenBy(sub[job.sub], head) /\ HeadSeen' = SeenBy(sub'[job.sub], head')
    BY <1>0 DEF HeadSeen, SeenBy
  <2>2. HeadSeen \in Nat /\ First(sub[job.sub], Delivered) \in Int
    BY <1>0, FirstTypes, HeadSeenKnown
  <2>3. sub'[job.sub].end \in Nat /\ head' \in Nat
    BY <1>0, SeqsFacts DEF IInv, SubTypes, Subscription, LogTypes
  <2>4. HeadSeen' \in Nat
    BY <2>1, <2>3 DEF SeenBy
  <2>5. HeadSeen' >= HeadSeen
    BY <1>1, <2>1 DEF Carried
  <2>6. Yields(sub'[job.sub]) =>
          Yields(sub[job.sub]) /\ First(sub'[job.sub], Delivered') = First(sub[job.sub], Delivered)
    BY <1>1 DEF Carried
  <2> QED
    BY <2>2, <2>4, <2>5, <2>6 DEF InTime
<1> QED
  BY <1>0, <1>2, <1>3, <1>4 DEF Serving, Only

LEMMA ServingPlan ==
  ASSUME OneInv, Serving, Plan
  PROVE  Serving'
<1> DEFINE fresh == job.fresh \/ HeadSeen < job.after \/ HeadSeen - job.after > MaxReplayGap
<1>0. IInv /\ job.sub \in Subs /\ job \in Attachment /\ job.pc = "subscribed" /\ job.after \in Nat
  BY JobFrames DEF OneInv, Serving, Plan
<1>1. job' = [job EXCEPT !.pc = "planned", !.fresh = fresh]
  BY DEF Plan
<1>2. UNCHANGED <<head, step, sub, attached, up, down, cursor, request>>
  BY DEF Plan, actorVars, clientVars
<1>3. /\ job'.pc = "planned" /\ job'.sub = job.sub /\ job'.after = job.after /\ job'.out = job.out
      /\ job'.fresh = fresh
  BY <1>0, <1>1 DEF Attachment
<1>4. HeadSeen' = HeadSeen /\ Delivered' = Delivered
  BY <1>2, <1>3 DEF HeadSeen, Delivered
<1>5. ASSUME ~fresh
      PROVE  InTime(sub[job.sub], Delivered, job.after + MaxReplayGap)
  <2>1. HeadSeen \in Nat /\ First(sub[job.sub], Delivered) \in Int /\ MaxReplayGap \in Nat
    BY <1>0, FirstTypes, HeadSeenKnown, ConstantsOK
  <2>2. InTime(sub[job.sub], Delivered, HeadSeen)
    BY <1>0 DEF Serving
  <2>3. HeadSeen <= job.after + MaxReplayGap
    BY <1>0, <1>5, <2>1
  <2> QED
    BY <1>0, <2>1, <2>2, <2>3 DEF InTime
<1> HIDE DEF fresh
<1> QED
  BY <1>0, <1>2, <1>3, <1>4, <1>5 DEF Serving, Only

LEMMA ServingReadState ==
  ASSUME OneInv, Serving, ReadState
  PROVE  Serving'
<1>0. /\ IInv /\ job.sub \in Subs /\ job \in Attachment /\ job.pc = "planned" /\ step = "loop"
      /\ ~sub[job.sub].closed /\ down = <<>> /\ head = stored /\ head \in Seqs
  BY JobFrames DEF OneInv, IInv, LogTypes, LogOK, HeadOK, Serving, ReadState
<1>1. cursor \in Nat /\ cursor <= head /\ head \in Nat
  BY <1>0, SeqsFacts DEF OneInv, IInv, ClientTypes, ClientOK
<1> DEFINE a == Frame("snapshot", head)
           b == Frame("synchronized", head)
           frames == <<a, b>>
<1>2. /\ a \in Frames /\ a.kind = "snapshot" /\ a.seq = head
      /\ b \in Frames /\ b.kind = "synchronized" /\ b.seq = head
  BY <1>0, FrameTypes
<1>3. job' = [job EXCEPT !.pc = "sending", !.upto = head, !.out = frames]
  BY DEF ReadState
<1>4. UNCHANGED <<head, step, sub, attached, up, down, cursor, request>>
  BY DEF ReadState, actorVars, clientVars
<1> HIDE DEF a, b
<1>5. Chain(cursor, frames) /\ Plain(frames) /\ Tip(cursor, frames) = head
  <2>1. Len(frames) = 2 /\ frames[1] = a /\ frames[2] = b /\ frames # <<>>
    OBVIOUS
  <2> HIDE DEF frames
  <2>2. \A k \in 1..Len(frames) : k = 1 \/ k = 2
    BY <2>1
  <2>3. Before(cursor, frames, 1) = cursor /\ Before(cursor, frames, 2) = head
    BY <1>2, <2>1 DEF Before
  <2>4. Follows(cursor, a) /\ Follows(head, b)
    BY <1>1, <1>2 DEF Follows
  <2>5. Chain(cursor, frames)
    BY <1>2, <2>1, <2>2, <2>3, <2>4 DEF Chain
  <2>6. Plain(frames)
    BY <1>2, <2>1, <2>2 DEF Plain
  <2>7. Tip(cursor, frames) = head
    BY <1>2, <2>1 DEF Tip
  <2> QED
    BY <2>5, <2>6, <2>7
<1>6. frames \in Seq(Frames)
  BY <1>2
<1> HIDE DEF frames
<1>7. job'.pc = "sending" /\ job'.upto = head /\ job'.out = frames /\ job'.sub = job.sub
  BY <1>0, <1>3 DEF Attachment
<1>8. down' \o job'.out = frames
  BY <1>0, <1>4, <1>6, <1>7, ConcatEmptySeq
<1>9. InTime(sub[job.sub], Delivered, head)
  <2>1. HeadSeen = head
    BY <1>0 DEF HeadSeen
  <2> QED
    BY <1>0, <2>1 DEF Serving
<1>10. Delivered' = Delivered
  BY <1>4 DEF Delivered
<1> QED
  BY <1>0, <1>4, <1>5, <1>7, <1>8, <1>9, <1>10 DEF Serving, Only

\* The replay goes on where the reader is.
LEMMA ReplayChain ==
  ASSUME NEW after \in Seqs, after <= stored, stored \in Seqs
  PROVE  /\ Chain(after, Replay(after)) /\ Plain(Replay(after))
         /\ Tip(after, Replay(after)) = LastRead(after)
<1> DEFINE f == Replay(after)
           last == LastRead(after)
<1>1. /\ last \in Seqs /\ after <= last /\ f \in Seq(Frames) /\ Len(f) = last - after
      /\ \A k \in 1..Len(f) : f[k] = Frame("event", after + k)
  BY ReplayFacts
<1>2. \A k \in 1..Len(f) : f[k].kind = "event" /\ f[k].seq = after + k
  BY <1>1 DEF Frame
<1> HIDE DEF f, last
<1>3. after \in Nat /\ last \in Nat /\ Len(f) \in Nat
  BY <1>1, SeqsFacts
<1>4. ASSUME NEW k \in 1..Len(f)
      PROVE  Follows(Before(after, f, k), f[k])
  <2>1. CASE k = 1
    BY <1>2, <2>1 DEF Before, Follows
  <2>2. CASE k # 1
    <3>1. k - 1 \in 1..Len(f)
      BY <1>3, <2>2
    <3>2. f[k - 1].seq = after + (k - 1)
      BY <1>2, <3>1
    <3>3. Before(after, f, k) = after + (k - 1)
      BY <2>2, <3>2 DEF Before
    <3>4. f[k].seq = (after + (k - 1)) + 1
      BY <1>2, <1>3
    <3> QED
      BY <1>2, <3>3, <3>4 DEF Follows
  <2> QED
    BY <2>1, <2>2
<1>5. Chain(after, f) /\ Plain(f)
  BY <1>2, <1>4 DEF Chain, Plain
<1>6. Tip(after, f) = last
  <2>1. CASE f = <<>>
    BY <1>1, <1>3, <2>1, EmptySeq DEF Tip
  <2>2. CASE f # <<>>
    <3>1. Len(f) \in 1..Len(f)
      BY <1>1, <2>2, EmptySeq
    <3>2. f[Len(f)].seq = after + Len(f)
      BY <1>2, <3>1
    <3> QED
      BY <1>1, <1>3, <2>2, <3>2 DEF Tip
  <2> QED
    BY <2>1, <2>2
<1> QED
  BY <1>5, <1>6 DEF f, last

LEMMA ServingReadLog ==
  ASSUME OneInv, Serving, ReadLog
  PROVE  Serving'
<1> DEFINE last == LastRead(job.after)
           a == Frame("synchronized", last)
           frames == Append(Replay(job.after), a)
<1>0. /\ IInv /\ job.sub \in Subs /\ job \in Attachment /\ job.pc = "planned" /\ ~job.fresh
      /\ down = <<>> /\ stored \in Seqs /\ job.after \in Seqs /\ job.after = cursor
      /\ job.after <= stored
  BY JobFrames DEF OneInv, IInv, LogTypes, Serving, ReadLog, Attachment
<1>1. /\ last \in Seqs /\ last <= stored /\ (last = stored \/ last = job.after + MaxReplayGap)
      /\ Replay(job.after) \in Seq(Frames)
  BY <1>0, ReplayFacts
<1>2. a \in Frames /\ a.kind = "synchronized" /\ a.seq = last
  BY <1>1, FrameTypes
<1>3. job' = [job EXCEPT !.pc = "sending", !.upto = last, !.out = frames]
  BY DEF ReadLog
<1>4. UNCHANGED <<head, step, sub, attached, up, down, cursor, request>>
  BY DEF ReadLog, actorVars, clientVars
<1>5. Chain(cursor, frames) /\ Plain(frames) /\ Tip(cursor, frames) = last /\ frames \in Seq(Frames)
  <2>1. /\ Chain(cursor, Replay(job.after)) /\ Plain(Replay(job.after))
        /\ Tip(cursor, Replay(job.after)) = last
    BY <1>0, ReplayChain
  <2> HIDE DEF last, a
  <2>2. Follows(last, a)
    BY <1>2 DEF Follows
  <2> QED
    BY <1>1, <1>2, <2>1, <2>2, ChainAppend, AppendProperties
<1> HIDE DEF last, a, frames
<1>6. job'.pc = "sending" /\ job'.upto = last /\ job'.out = frames /\ job'.sub = job.sub
  BY <1>0, <1>3 DEF Attachment
<1>7. down' \o job'.out = frames
  BY <1>0, <1>4, <1>5, <1>6, ConcatEmptySeq
<1>8. InTime(sub[job.sub], Delivered, last)
  <2>1. InTime(sub[job.sub], Delivered, HeadSeen)
        /\ InTime(sub[job.sub], Delivered, job.after + MaxReplayGap)
    BY <1>0 DEF Serving
  <2>2. CASE last = job.after + MaxReplayGap
    BY <2>1, <2>2
  <2>3. CASE last = stored
    <3>1. HeadSeen \in Nat /\ HeadSeen <= stored /\ First(sub[job.sub], Delivered) \in Int
          /\ stored \in Nat
      BY <1>0, FirstTypes, HeadSeenKnown
    <3> QED
      BY <2>1, <2>3, <3>1 DEF InTime
  <2> QED
    BY <1>1, <2>2, <2>3
<1>9. Delivered' = Delivered
  BY <1>4 DEF Delivered
<1> QED
  BY <1>0, <1>4, <1>5, <1>6, <1>7, <1>8, <1>9 DEF Serving, Only

LEMMA ServingSend ==
  ASSUME OneInv, Serving, SendCatchUp
  PROVE  Serving'
<1>0. /\ IInv /\ job.sub \in Subs /\ job \in Attachment /\ job.pc = "sending" /\ job.out # <<>>
      /\ job.out \in Seq(Frames) /\ down \in Seq(Frames)
  BY JobFrames DEF OneInv, IInv, WireTypes, Serving, SendCatchUp
<1>1. job' = [job EXCEPT !.out = Tail(job.out)] /\ down' = Append(down, Head(job.out))
  BY DEF SendCatchUp
<1>2. UNCHANGED <<head, step, sub, attached, up, cursor, request>>
  BY DEF SendCatchUp, actorVars, clientVars
<1>3. /\ job'.pc = "sending" /\ job'.upto = job.upto /\ job'.out = Tail(job.out)
      /\ job'.sub = job.sub
  BY <1>0, <1>1 DEF Attachment
<1>4. down' \o job'.out = down \o job.out
  BY <1>0, <1>1, <1>3, CatSend
<1>5. Delivered' = Delivered
  BY <1>2 DEF Delivered
<1> QED
  BY <1>0, <1>2, <1>3, <1>4, <1>5 DEF Serving, Only

LEMMA ServingReceive ==
  ASSUME OneInv, wanted, Serving, Receive
  PROVE  Serving'
<1>0. /\ IInv /\ job.sub \in Subs /\ job.pc = "sending" /\ down # <<>>
      /\ job.out \in Seq(Frames) /\ down \in Seq(Frames)
  BY JobFrames DEF OneInv, IInv, WireTypes, Serving, Receive, JobTypes, Attachment
<1>1. /\ down' = Tail(down) /\ Chain(cursor, down \o job.out) /\ Plain(down \o job.out)
      /\ Tip(cursor, down \o job.out) = job.upto
  BY <1>0 DEF Serving, Receive
<1> DEFINE f == down \o job.out
<1>2. f \in Seq(Frames) /\ f # <<>> /\ f[1] = down[1] /\ Tail(down) \o job.out = Tail(f)
  BY <1>0, CatTail
<1> HIDE DEF f
<1>3. /\ Chain(f[1].seq, Tail(f)) /\ Plain(Tail(f)) /\ Tip(f[1].seq, Tail(f)) = job.upto
  BY <1>1, <1>2, ChainTail DEF f
<1>4. down[1].kind # "resync"
  <2>1. 1 \in 1..Len(f)
    BY <1>2, TailFacts
  <2> QED
    BY <1>1, <1>2, <2>1 DEF Plain, f
<1>5. cursor' = down[1].seq /\ up' = up
  BY <1>4, ReceiveEffect
<1>6. UNCHANGED <<head, step, sub, job, attached, request>>
  BY DEF Receive, actorVars, serverVars
<1>7. Delivered' = Delivered
  BY <1>6 DEF Delivered
<1> QED
  BY <1>0, <1>1, <1>2, <1>3, <1>5, <1>6, <1>7 DEF Serving, Only

LEMMA ServingEnds ==
  ASSUME OneInv, Serving, AttachFails
  PROVE  Ended'
<1>0. job.pc = "planned" /\ job.sub \in Subs /\ sub \in [Subs -> Subscription]
  BY DEF OneInv, IInv, SubTypes, Serving, AttachFails, Refused
<1>1. /\ sub' = [sub EXCEPT ![job.sub] = FreeSub] /\ job' = Idle
      /\ UNCHANGED <<attached, up, down, cursor, request>>
  BY DEF AttachFails, clientVars
<1>2. \A k \in Subs : sub'[k] = FreeSub
  BY <1>0, <1>1 DEF Serving, Only
<1>3. attached = NoSub /\ request = "none" /\ up = <<>> /\ down = <<>>
  BY <1>0 DEF Serving
<1> QED
  BY <1>1, <1>2, <1>3, EmptyChain DEF Ended, Quiet

LEMMA ServingDrains ==
  ASSUME OneInv, Serving, StartDrain
  PROVE  Drained'
<1>0. /\ IInv /\ job.pc = "sending" /\ job.sub \in Subs /\ job.out = <<>> /\ down \in Seq(Frames)
      /\ sub[job.sub] \in Subscription /\ job.upto \in Nat /\ SubTypes
  BY JobFrames DEF OneInv, IInv, SubTypes, WireTypes, Serving, StartDrain
<1> DEFINE s == sub[job.sub]
           t == [s EXCEPT !.phase = "draining", !.upto = job.upto, !.end = 0]
<1>1. sub' = [sub EXCEPT ![job.sub] = t]
  BY <1>0, StartDrainSub
<1>2. /\ t.buf = s.buf /\ t.closed = s.closed /\ t.listed = s.listed /\ t.phase = "draining"
      /\ t.cancelled = s.cancelled /\ t.upto = job.upto
  BY <1>0 DEF Subscription
<1> HIDE DEF t
<1>3. sub'[job.sub] = t /\ \A k \in Subs : k # job.sub => sub'[k] = sub[k]
  BY <1>0, <1>1 DEF SubTypes
<1>4. /\ attached' = job.sub /\ job' = Idle
      /\ UNCHANGED <<head, step, up, down, cursor, request>>
  BY DEF StartDrain, actorVars, clientVars
<1>5. Delivered' = Delivered
  BY <1>4 DEF Delivered
<1>6. down \o job.out = down
  BY <1>0, ConcatEmptySeq
<1>7. Chain(cursor, down) /\ Plain(down) /\ Tip(cursor, down) = job.upto
  BY <1>0, <1>6 DEF Serving
<1>8. InTime(s, Delivered, job.upto) /\ RunOK(s, Delivered) /\ Used(s, "reading")
  BY <1>0 DEF Serving
<1>9. RunOK(t, Delivered) /\ Used(t, "draining") /\ InTime(t, Delivered, job.upto)
  BY <1>2, <1>8 DEF RunOK, Used, InTime, Yields, First
<1>10. InStep(t, Delivered, job.upto)
  BY <1>0, <1>2, <1>9 DEF InStep
<1> QED
  BY <1>0, <1>3, <1>4, <1>5, <1>7, <1>9, <1>10 DEF Drained, Serving, Only

LEMMA ServingStep ==
  ASSUME OneInv, [Next]_vars, wanted, online, ~Select, Serving, wanted', online'
  PROVE  Serving' \/ Drained' \/ Ended'
<1>0. up = <<>> /\ request = "none" /\ job.pc # "idle"
  BY DEF Serving
<1>1. ~ServeDetach /\ ~\E i \in Subs : ServeAttach(i)
  BY <1>0 DEF ServeDetach, ServeAttach
<1>2. ~\E i \in Subs : Drain(i)
  <2>1. \A i \in Subs : sub[i].phase # "draining"
    BY FreeStays DEF Serving, Only, Used
  <2> QED
    BY <2>1 DEF Drain, DrainEvent, DrainResync, DrainStop
<1>3. ~Connect /\ ~Disconnect /\ ~Leave /\ ~HTTPAnswer /\ ~HTTPShow /\ ~HTTPFail
  BY <1>0 DEF Connect, Disconnect, Leave, HTTPAnswer, HTTPShow, HTTPFail
<1>4. CASE UNCHANGED vars
  BY <1>4 DEF vars, actorVars, serverVars, clientVars, Serving, Only, Delivered, HeadSeen
<1> QED
  BY <1>1, <1>2, <1>3, <1>4, ServingActor, ServingPlan, ServingReadState, ServingReadLog,
     ServingSend, ServingReceive, ServingEnds, ServingDrains
  DEF Next, Serve, Client

-----------------------------------------------------------------------------
(* A drain at work.                                                         *)

LEMMA DrainedActor ==
  ASSUME OneInv, Actor, Drained
  PROVE  Drained'
<1>0. IInv /\ attached \in Subs
  BY DEF OneInv, Drained
<1>1. Carried(sub[attached], sub'[attached], Delivered, Delivered', head, head')
  BY <1>0, ActorCarries DEF Drained
<1>2. /\ UNCHANGED <<job, attached, up, down, cursor, request>>
      /\ \A k \in Subs : sub[k] = FreeSub => sub'[k] = FreeSub
  BY <1>0, ActorKeeps
<1>3. /\ Used(sub'[attached], "draining") /\ RunOK(sub'[attached], Delivered')
      /\ InStep(sub'[attached], Delivered', Tip(cursor, down))
  BY <1>1, CarriedTiming DEF Drained, Carried
<1> QED
  BY <1>0, <1>2, <1>3 DEF Drained, Only

LEMMA DrainedReceive ==
  ASSUME OneInv, wanted, Drained, Receive
  PROVE  Drained'
<1>0. /\ IInv /\ down # <<>> /\ down \in Seq(Frames) /\ down' = Tail(down)
      /\ Chain(cursor, down) /\ Plain(down)
  BY DEF OneInv, IInv, WireTypes, Drained, Receive
<1>1. /\ Chain(down[1].seq, Tail(down)) /\ Plain(Tail(down))
      /\ Tip(down[1].seq, Tail(down)) = Tip(cursor, down)
  BY <1>0, ChainTail
<1>2. down[1].kind # "resync"
  <2>1. 1 \in 1..Len(down)
    BY <1>0, TailFacts
  <2> QED
    BY <1>0, <2>1 DEF Plain
<1>3. cursor' = down[1].seq /\ up' = up
  BY <1>2, ReceiveEffect
<1>4. UNCHANGED <<head, step, sub, job, attached, request>>
  BY DEF Receive, actorVars, serverVars
<1>5. Delivered' = Delivered
  BY <1>4 DEF Delivered
<1> QED
  BY <1>0, <1>1, <1>3, <1>4, <1>5 DEF Drained, Only

LEMMA DrainedEvent ==
  ASSUME OneInv, Drained, DrainEvent(attached)
  PROVE  Drained'
<1> DEFINE s == sub[attached]
           n == s.buf[1]
           t == [s EXCEPT !.buf = Tail(s.buf)]
           tip == Tip(cursor, down)
           e == Frame("event", n)
<1>0. /\ IInv /\ attached \in Subs /\ s \in Subscription /\ Len(s.buf) <= QueueCap /\ s.buf # <<>>
      /\ Delivered \in Int /\ down \in Seq(Frames) /\ cursor \in Nat /\ s.upto \in Nat /\ SubTypes
      /\ s.buf \in Seq(Seqs)
  BY FirstTypes DEF OneInv, IInv, WireTypes, Drained, DrainEvent
<1>1. /\ RunOK(s, Delivered) /\ Used(s, "draining") /\ InStep(s, Delivered, tip)
      /\ Chain(cursor, down) /\ Plain(down)
  BY DEF Drained
<1>2. n \in Nat /\ n \in Seqs /\ Head(s.buf) = n /\ tip \in Nat
  BY <1>0, TailFacts, TipTypes, SeqsFacts
<1>3. /\ t.buf = Tail(s.buf) /\ t.phase = s.phase /\ t.upto = s.upto /\ t.cancelled = s.cancelled
      /\ RunOK(t, Delivered) /\ (Yields(t) => First(t, Delivered) = n + 1)
  BY <1>0, <1>1, DrainEffect
<1>4. sub' = [sub EXCEPT ![attached] = t]
  BY <1>0, DrainEventSub
<1> HIDE DEF t
<1>5. sub'[attached] = t /\ \A k \in Subs : k # attached => sub'[k] = sub[k]
  BY <1>0, <1>4 DEF SubTypes
<1>6. /\ UNCHANGED <<head, step, job, attached, up, cursor, request>>
      /\ IF n > s.upto THEN down' = Append(down, e) ELSE down' = down
  BY <1>2 DEF DrainEvent, actorVars, serverVars, clientVars
<1>7. Delivered' = Delivered
  BY <1>6 DEF Delivered
<1>8. First(s, Delivered) = n /\ Yields(s)
  BY <1>0 DEF First, Yields
<1>9. n <= tip + 1 /\ tip >= s.upto /\ (tip = s.upto \/ n = tip + 1)
  BY <1>1, <1>8 DEF InStep, InTime
<1>10. Used(t, "draining")
  BY <1>1, <1>3 DEF Used
<1>11. CASE n > s.upto
  <2>1. n = tip + 1 /\ e \in Frames /\ e.kind = "event" /\ e.seq = n
    BY <1>0, <1>2, <1>9, <1>11, FrameTypes
  <2> HIDE DEF e, tip, n, s
  <2>2. Follows(tip, e)
    BY <2>1 DEF Follows
  <2>3. /\ Chain(cursor, Append(down, e)) /\ Tip(cursor, Append(down, e)) = n
        /\ Plain(Append(down, e))
    BY <1>0, <1>1, <2>1, <2>2, ChainAppend DEF tip
  <2>4. InStep(t, Delivered, n)
    BY <1>2, <1>3, <1>11, <1>0 DEF InStep, InTime
  <2> QED
    BY <1>0, <1>3, <1>5, <1>6, <1>7, <1>10, <1>11, <2>3, <2>4 DEF Drained, Only
<1>12. CASE ~(n > s.upto)
  <2>1. tip = s.upto
    BY <1>0, <1>2, <1>9, <1>12
  <2>2. InStep(t, Delivered, tip)
    BY <1>0, <1>2, <1>3, <1>12, <2>1 DEF InStep, InTime
  <2> QED
    BY <1>0, <1>1, <1>3, <1>5, <1>6, <1>7, <1>10, <1>12, <2>2 DEF Drained, Only
<1> QED
  BY <1>11, <1>12

LEMMA DrainedEnds ==
  ASSUME OneInv, Drained, DrainResync(attached) \/ DrainStop(attached)
  PROVE  Ended'
<1>0. /\ attached \in Subs /\ sub \in [Subs -> Subscription] /\ down \in Seq(Frames) /\ job = Idle
      /\ Chain(cursor, down) /\ Plain(down) /\ request = "none" /\ up = <<>>
  BY DEF OneInv, IInv, SubTypes, WireTypes, Drained
<1>1. /\ sub' = [sub EXCEPT ![attached] = FreeSub] /\ attached' = NoSub
      /\ UNCHANGED <<job, up, cursor, request>>
  BY DEF DrainResync, DrainStop, Free, clientVars
<1>2. Quiet'
  BY <1>0, <1>1 DEF Quiet, Drained, Only
<1>3. CASE DrainStop(attached)
  <2>1. down' = down
    BY <1>3 DEF DrainStop
  <2> QED
    BY <1>0, <1>1, <1>2, <2>1 DEF Ended
<1>4. CASE DrainResync(attached)
  <2> DEFINE e == Frame("resync", 0)
  <2>1. e \in Frames /\ e.kind = "resync"
    BY FrameTypes, SeqsFacts
  <2>2. down' = Append(down, e)
    BY <1>4 DEF DrainResync, SayResync
  <2> HIDE DEF e
  <2>3. Follows(Tip(cursor, down), e)
    BY <2>1 DEF Follows
  <2>4. Chain(cursor, Append(down, e))
    BY <1>0, <2>1, <2>3, ChainAppend
  <2> QED
    BY <1>0, <1>1, <1>2, <2>2, <2>4 DEF Ended
<1> QED
  BY <1>3, <1>4

LEMMA DrainedStep ==
  ASSUME OneInv, [Next]_vars, wanted, online, ~Select, Drained, wanted', online'
  PROVE  Drained' \/ Ended'
<1>0. up = <<>> /\ request = "none" /\ job.pc = "idle"
  BY FreshSubs DEF Drained
<1>1. ~Serve
  BY <1>0 DEF Serve, ServeDetach, ServeAttach, Plan, ReadState, AttachFails, Refused, ReadLog,
      SendCatchUp, StartDrain
<1>2. ASSUME NEW i \in Subs, Drain(i) PROVE Drained' \/ Ended'
  <2>1. i = attached
    BY <1>2, FreeStays DEF Drained, Only, Drain, DrainEvent, DrainResync, DrainStop
  <2> QED
    BY <1>2, <2>1, DrainedEvent, DrainedEnds DEF Drain
<1>3. ~Connect /\ ~Disconnect /\ ~Leave /\ ~HTTPAnswer /\ ~HTTPShow /\ ~HTTPFail
  BY <1>0 DEF Connect, Disconnect, Leave, HTTPAnswer, HTTPShow, HTTPFail
<1>4. CASE UNCHANGED vars
  BY <1>4 DEF vars, actorVars, serverVars, clientVars, Drained, Only, Delivered
<1> QED
  BY <1>1, <1>2, <1>3, <1>4, DrainedActor, DrainedReceive DEF Next, Client

LEMMA AttachStep ==
  ASSUME OneInv, [Next]_vars, MaxSelects <= 1
  PROVE  AttachOK'
<1> SUFFICES ASSUME wanted', online'
             PROVE  Waiting' \/ Asked' \/ Serving' \/ Drained' \/ Ended'
  BY DEF AttachOK
<1>1. CASE ~(wanted /\ online)
  BY <1>1, StartStep
<1>2. CASE wanted /\ online
  <2>1. ~Select
    BY <1>2, NotPicked
  <2>2. Waiting \/ Asked \/ Serving \/ Drained \/ Ended
    BY <1>2 DEF OneInv, AttachOK
  <2> QED
    BY <1>2, <2>1, <2>2, WaitingStep, AskedStep, ServingStep, DrainedStep, EndedStep
<1> QED
  BY <1>1, <1>2

-----------------------------------------------------------------------------
(* What follows from the invariants.                                        *)

\* Type correctness, of any number of picks; in particular no queue grows past its
\* capacity, however slow its reader (actor.go fanout).
THEOREM TypeCorrect == Spec => []TypeOK
<1>1. IInv => TypeOK
  <2> SUFFICES ASSUME IInv PROVE TypeOK
    OBVIOUS
  <2>1. \A i \in Subs : SubOK(sub[i])
    BY DEF IInv, SubTypes, Subscription, SubOK
  <2>2. JobOK /\ attached \in Subs \cup {NoSub}
    BY DEF IInv, JobTypes, Attachment, JobOK
  <2>3. /\ stored \in Seqs /\ head \in Seqs /\ step \in {"loop", "fold", "fanout"}
        /\ live \in BOOLEAN /\ exits \in Nat
    BY DEF IInv, LogTypes
  <2>4. /\ online \in BOOLEAN /\ up \in Seq(Asks) /\ drops \in Nat
        /\ down \in Seq(Frames) /\ Len(down) <= MaxWire
    BY DEF IInv, WireTypes
  <2>5. /\ wanted \in BOOLEAN /\ applied \subseteq Seqs /\ cursor \in Seqs
        /\ request \in {"none", "asked", "answered"} /\ answer \in Seqs /\ selects \in Nat
    BY DEF IInv, ClientTypes
  <2> QED
    BY <2>1, <2>2, <2>3, <2>4, <2>5 DEF TypeOK
<1> QED
  BY <1>1, Invariant, PTL

LEMMA OnceInit == Init => OneInv
<1> SUFFICES ASSUME Init PROVE OneInv
  OBVIOUS
<1>1. Silent
  BY DEF Init, Silent, Quiet
<1>2. Gapless /\ cursor <= stored
  BY DEF Init, Gapless
<1>3. wanted = FALSE /\ cursor = 0 /\ request = "none"
  BY DEF Init
<1> QED
  BY <1>1, <1>2, <1>3, InitOK DEF OneInv, ClientOK, AttachOK

LEMMA OnceInvariant == MaxSelects <= 1 => (Spec => []OneInv)
<1> SUFFICES ASSUME MaxSelects <= 1 PROVE Spec => []OneInv
  OBVIOUS
<1>1. OneInv /\ [Next]_vars => OneInv'
  BY StepOK, ClientStep, AttachStep DEF OneInv
<1> QED
  BY <1>1, OnceInit, PTL DEF Spec

\* What the reader of a thread picked once shows is the log up to its cursor, and
\* `synchronized' is true when it arrives, however store, fanout, replay, overflow,
\* reconnection and the actor's end interleave (actor.go append, ws.go attach,
\* apply.ts applyEvent).
THEOREM ReaderIsHonest == MaxSelects <= 1 => (Spec => []ReaderHonest)
<1> SUFFICES ASSUME MaxSelects <= 1 PROVE Spec => []ReaderHonest
  OBVIOUS
<1>1. OneInv => ReaderHonest
  <2> SUFFICES ASSUME OneInv PROVE ReaderHonest
    OBVIOUS
  <2>1. Gapless
    BY DEF OneInv, ClientOK
  <2>2. ASSUME down # <<>>, wanted, Head(down).kind = "synchronized"
        PROVE  1..Head(down).seq \subseteq applied
    <3>1. Follows(cursor, down[1]) /\ Head(down) = down[1]
      BY <2>2, FirstFollows, HeadDown DEF OneInv, IInv
    <3>2. Head(down).seq = cursor
      BY <2>2, <3>1 DEF Follows
    <3> QED
      BY <2>1, <3>2 DEF Gapless
  <2> QED
    BY <2>1, <2>2 DEF ReaderHonest, SynchronizedIsComplete
<1> QED
  BY <1>1, OnceInvariant, PTL

\* Store, fanout, attach, drain, socket and client together implement LogView for a
\* thread picked once: the view moves forward inside the log or is let go.
THEOREM ReaderImplementsLogView == MaxSelects <= 1 => (Spec => ReaderSpec)
<1> SUFFICES ASSUME MaxSelects <= 1 PROVE Spec => ReaderSpec
  OBVIOUS
<1>1. Init => Reader!Init
  <2> SUFFICES ASSUME Init PROVE Reader!Init
    OBVIOUS
  <2>1. Gapless /\ cursor = 0 /\ stored = 0
    BY DEF Init, Gapless
  <2> QED
    BY <2>1 DEF Reader!Init, View
<1>2. OneInv /\ OneInv' /\ [Next]_vars => [Reader!Next]_<<stored, View>>
  <2> SUFFICES ASSUME OneInv, OneInv', [Next]_vars
               PROVE  Reader!Next \/ UNCHANGED <<stored, View>>
    OBVIOUS
  <2>1. View = cursor /\ View' = cursor'
    BY DEF OneInv, ClientOK, View
  <2>2. \/ stored' = stored + 1 /\ cursor' = cursor
        \/ /\ stored' = stored
           /\ cursor' = cursor \/ cursor' = 0 \/ cursor' \in (cursor + 1)..stored
    BY CursorStep
  <2> HIDE DEF View
  <2> QED
    BY <2>1, <2>2 DEF Reader!Next, Reader!Publish, Reader!Advance, Reader!LetGo
<1> QED
  BY <1>1, <1>2, OnceInvariant, PTL DEF Spec, ReaderSpec, Reader!Spec

=============================================================================
