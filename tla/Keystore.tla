------------------------------ MODULE Keystore ------------------------------
(***************************************************************************)
(* The CPIP master key sealed by the TPM, or, on a host without one, by a  *)
(* key derived from the machine's name (backend/tpm_keystore.py and        *)
(* routes/tpm.py): the blob, the context file of the TPM's primary key in  *)
(* the working directory, and what the last unsealing answered.            *)
(*                                                                         *)
(* A handler blocks the event loop for as long as its commands take; what  *)
(* it has done when one of them fails, or the process dies, stays.  The    *)
(* primary key is always the same one, as the TPM derives it anew from the *)
(* same seed.                                                              *)
(***************************************************************************)
EXTENDS Naturals

CONSTANTS
    BootStates,  \* values of the PCRs
    MaxSealStops \* bound: commands that fail, and deaths between two of them

ASSUME KeystoreAssumption == MaxSealStops \in Nat

VARIABLES
    tpm,       \* _TPM_AVAILABLE
    boot,      \* the boot state of the device
    sealed,    \* the blob: "none", "cut short", "software", or the boot state
               \* its policy names
    primary,   \* primary.ctx exists
    unsealed,  \* the answer to the last unsealing: "", "key" or "failed"
    excuse,    \* a command failed, or the boot state changed, since the seal
    sealStops

keystoreVars == <<tpm, boot, sealed, primary, unsealed, excuse, sealStops>>

KeystoreTypeOK ==
    /\ tpm \in BOOLEAN
    /\ boot \in BootStates
    /\ sealed \in BootStates \cup {"none", "cut short", "software"}
    /\ primary \in BOOLEAN
    /\ unsealed \in {"", "key", "failed"}
    /\ excuse \in BOOLEAN
    /\ sealStops \in 0..MaxSealStops

KeystoreInit ==
    /\ tpm \in BOOLEAN
    /\ boot \in BootStates
    /\ sealed = "none"
    /\ primary = FALSE
    /\ unsealed = ""
    /\ excuse = FALSE
    /\ sealStops = 0

\* seal_key: the last command of _seal_tpm removes primary.ctx.
Seal ==
    /\ sealed' = IF tpm THEN boot ELSE "software"
    /\ primary' = (primary /\ ~tpm)
    /\ excuse' = FALSE
    /\ unsealed' = ""
    /\ UNCHANGED <<tpm, boot, sealStops>>

\* It ends before: without the primary key, with it, or in the write of the blob.
SealStops ==
    /\ sealStops < MaxSealStops
    /\ sealStops' = sealStops + 1
    /\ \/ UNCHANGED <<primary, sealed>>
       \/ tpm /\ primary' = TRUE /\ UNCHANGED sealed
       \/ primary' = (primary \/ tpm) /\ sealed' = "cut short"
    /\ excuse' = TRUE
    /\ unsealed' = ""
    /\ UNCHANGED <<tpm, boot>>

\* unseal_key: tpm2_load needs primary.ctx, and the two halves of the blob to be
\* its two parts; tpm2_unseal, the boot state of the policy.  A blob of the other
\* kind is no error to the XOR, nor is a short one.
Unseal ==
    /\ unsealed' \in IF sealed = "none" THEN {"failed"}
                     ELSE IF ~tpm THEN {"key"}
                     ELSE IF primary /\ sealed = boot THEN {"key", "failed"} ELSE {"failed"}
    /\ UNCHANGED <<tpm, boot, sealed, primary, excuse, sealStops>>

\* The device starts again, perhaps with another firmware; the TPM may show, or
\* stop showing, its device file.
Reboot ==
    /\ boot' \in BootStates
    /\ tpm' \in BOOLEAN
    /\ excuse' = (excuse \/ boot' # boot \/ tpm' # tpm)
    /\ unsealed' = ""
    /\ UNCHANGED <<sealed, primary, sealStops>>

KeystoreRequest == Seal \/ SealStops \/ Unseal

-----------------------------------------------------------------------------
(* A key that was sealed can be unsealed in the same boot state: "Unseal   *)
(* using the TPM (fails if PCR values have changed)",                      *)
(* backend/tpm_keystore.py.                                                *)
SealedCanBeUnsealed ==
    (sealed # "none" /\ ~excuse) => unsealed # "failed"
=============================================================================
