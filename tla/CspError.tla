------------------------------ MODULE CspError ------------------------------
(***************************************************************************)
(* libcsp's return codes and the errors the crate makes of them            *)
(* (src/src/error.rs).                                                     *)
(***************************************************************************)
EXTENDS Integers, Sequences

(* An error: a variant of the enum; Other alone carries a code. *)
Variant(name) == [variant |-> name, code |-> 0]

(* CSP_ERR_NOMEM = -1 down to CSP_ERR_AGAIN = -12, in order. *)
Numbered ==
    <<"NoMemory", "InvalidArgument", "TimedOut", "ResourceInUse",
      "NotSupported", "Busy", "AlreadyInProgress", "ConnectionReset",
      "NoBuffers", "TransmitFailed", "DriverError", "Again">>

(* CspError::from_code *)
FromCode(code) ==
    CASE -code \in 1 .. 12 -> Variant(Numbered[-code])
      [] code = -38  -> Variant("NotImplemented")
      [] code = -100 -> Variant("HmacFailed")
      [] code = -102 -> Variant("Crc32Failed")
      [] code = -103 -> Variant("SfpError")
      [] code = -200 -> Variant("Aborted")
      [] OTHER       -> [variant |-> "Other", code |-> code]

(* Every error a code becomes (AlreadyInitialized is init's own); "None" stands
   for the absence of one. *)
CspErrors ==
    [variant : {Numbered[i] : i \in 1 .. 12}
                 \cup {"NotImplemented", "HmacFailed", "Crc32Failed", "SfpError",
                       "Aborted", "Other", "None"},
     code : Int]

CSP_ERR_NOMEM == -1
CSP_ERR_INVAL == -2
CSP_ERR_TIMEDOUT == -3
CSP_ERR_SFP == -103
CSP_ERR_ABORTED == -200     \* a progress callback's, outside libcsp's range
=============================================================================
