---------------------------- MODULE MCCallSession ----------------------------
EXTENDS CallSession
CONSTANTS t1, a1, q1
\* A composer action, or a steer, next to a prompt.
MCMenus  == {{t1, a1}, {t1, q1}}
MCPrompt == {{t1}}
=============================================================================
