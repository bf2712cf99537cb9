-------------------------------- MODULE MCIpc --------------------------------
(* Small instances of Ipc.                                                 *)
EXTENDS Ipc

\* Programs that make the calls of the C library.
ToService == [t \in Program |-> {SysSrv}]

LibraryCalls == {Exit, Write}

\* Programs that send each other messages as well.
ToAll == [t \in Program |-> (Program \ {t}) \union {SysSrv}]

AllCalls == {Exit, Write, SendAndWait + 2^17}

AllReceives == {RecvOp, RecvOp + 2^17}

Never == {}
=============================================================================
