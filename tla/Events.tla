------------------------------- MODULE Events -------------------------------
\* What can be seen of a run of a compiled program: an operation (assn, read,
\* write, or the value of a return), a test with its outcome, a call, the return
\* from it, and the end.  The number is that of the piece of source.

NoEvent == <<"none">>     \* nothing has been loaded
Ready == <<"ready">>      \* loaded, and nothing has happened
OpEvent(id) == <<"op", id>>
TestEvent(id, outcome) == <<"test", id, outcome>>
CallEvent(id) == <<"call", id>>
ReturnEvent == <<"ret">>
HaltEvent == <<"halt">>

=============================================================================
