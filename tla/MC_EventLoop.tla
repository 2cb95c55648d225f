----------------------------- MODULE MC_EventLoop -----------------------------
EXTENDS EventLoop

\* A timer that a callback adds is installed again after every pass, without
\* end: the model looks at the first few copies.
FewTimers == Len(m_timers) <= 3
=============================================================================
