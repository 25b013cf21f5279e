---------------------------- MODULE MCVmInstall ----------------------------
(***************************************************************************)
(* What the host installs and records of its VMs.  The parts share no      *)
(* state, so a behaviour is of one of them: the installs of VMs (two from  *)
(* the store and one from the cache; where one of the three does not       *)
(* begin, the store has two versions and the process ends once); the store *)
(* session (two tasks, four tokens, one restart); the edits of a VM's      *)
(* settings; the edits of its administration URLs beside the beginning of  *)
(* two installations of applications.                                      *)
(***************************************************************************)
EXTENDS VmInstall, StoreLogin, AppInstall, TLC

VARIABLE part   \* chosen once

storeVars == <<installVars, loginVars, settingsVars, appVars, part>>

Beginning == {"new", "fetch", "urls", "clear", "refused"}

StoreInit ==
  /\ part \in {"install", "login", "settings", "urls"}
  /\ InstallInit /\ (part # "install" => hashed /\ cacheable)
  /\ LoginInit /\ (part # "login" => rotates /\ legacy = 0)
  /\ AppInit

StoreNext ==
  /\ UNCHANGED part
  /\ \/ /\ part = "install" /\ InstallNext
        /\ (crashes' = 0 /\ published' = 1) \/ \E i \in Installs : ins'[i].pc = "new"
        /\ UNCHANGED <<loginVars, settingsVars, appVars>>
     \/ part = "login" /\ LoginNext /\ UNCHANGED <<installVars, settingsVars, appVars>>
     \/ part = "settings" /\ SettingsNext /\ UNCHANGED <<installVars, loginVars, appVars>>
     \/ /\ part = "urls" /\ connected /\ AppNext /\ connected'
        /\ \A i \in AppInstalls : inst'[i].pc \in Beginning
        /\ UNCHANGED <<installVars, loginVars>>

StoreSpec == StoreInit /\ [][StoreNext]_storeVars

\* i1 and i2 are the tasks of every part.
StoreSymmetry == Permutations(Installs \ Offline)
=============================================================================
