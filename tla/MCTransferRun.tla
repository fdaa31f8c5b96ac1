----------------------------- MODULE MCTransferRun -----------------------------
(* TransferRun on small files: the option sets the configurations refer to. *)
EXTENDS TransferRun, TLC

Uploads == [parallel : BOOLEAN, preserve : BOOLEAN, temp : BOOLEAN, atomic : BOOLEAN]

\* openSsh asks for useTempFile; a stream does not ask for the mode on its own.
AllUploads == {o \in Uploads : (o.atomic => o.temp) /\ (o.preserve => o.parallel)}
RetriedUploads == {o \in AllUploads : o.preserve => ~o.temp}
===============================================================================
