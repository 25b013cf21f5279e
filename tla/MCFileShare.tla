---------------------------- MODULE MCFileShare ----------------------------
(* The host's side and the VM's side of a shared directory, each against     *)
(* every behaviour of the other's: `part` says which one this behaviour is.   *)
EXTENDS HostShare, GuestMount
VARIABLE part
filesVars == <<part, shareVars, mountVars>>
FilesInit ==
    /\ ShareInit /\ MountInit
    /\ \/ part = "host" /\ present = {}
       \/ part = "guest" /\ readOnly = FALSE /\ root = CHOOSE r \in Roots : TRUE
FilesNext ==
    \/ part = "host" /\ ShareNext /\ UNCHANGED <<part, mountVars>>
    \/ part = "guest" /\ MountNext /\ UNCHANGED <<part, shareVars>>
FilesSpec == FilesInit /\ [][FilesNext]_filesVars /\ ShareFairness /\ MountFairness
=============================================================================
