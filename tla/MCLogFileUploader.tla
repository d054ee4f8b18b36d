--------------------------- MODULE MCLogFileUploader ---------------------------
(* LogFileUploader with the outcomes of sending a file fixed for TLC.      *)
EXTENDS LogFileUploader, TLC

CONSTANTS f1, f2

FileSymmetry == Permutations(Files)

(* Every outcome of an exchange with the server's own script, which        *)
(* answers a request without a file with "FAILURE".                        *)
NoPage      == NoFile :> {"refuse", "ioError"}
AllOutcomes == [f \in Files |-> Outcomes \ {"otherPage"}] @@ NoPage
AnyPage     == [f \in Files |-> {"otherPage", "refuse"}] @@ NoFile :> {"refuse"}

===============================================================================
