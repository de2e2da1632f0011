------------------------------- MODULE BootMount ------------------------------
(***************************************************************************)
(* tools/mount-sysfs, the script that loads the kext at boot and mounts     *)
(* /sys, and fs/mount_sysfs.c, which it calls.  The rest of the machine     *)
(* changes under it: the kext is approved, loaded and unloaded, users log   *)
(* in and out, /sys appears, an operator mounts or unmounts.  Every look    *)
(* the script takes at the machine is a step of its own.                    *)
(***************************************************************************)
EXTENDS Naturals

CONSTANTS
  TRIES,        \* TRIES
  LOGIN_TRIES,  \* the rounds of the wait for a login
  MaxChanges    \* bound on what the rest of the machine does

ASSUME BootMountAssumption == {TRIES, LOGIN_TRIES} \subseteq Nat \ {0} /\ MaxChanges \in Nat

VARIABLES
  pc,           \* the statement the script is at
  i,            \* its loop counter
  exit,         \* its exit status, 2 while it runs
  armed,        \* the arm flag exists
  approved,     \* kmutil may load the kext
  loaded,       \* the kext is loaded, and the VFS type registered
  console,      \* the owner of /dev/console
  installed,    \* /sys is a directory and the helper can be executed
  mounts,       \* the mounts on /sys
  changes,
  loggedIn,     \* history: some user has logged in since the boot
  unloaded,     \* history: somebody has unloaded the kext
  seen,         \* history: /sys was mounted at some time while the script ran
  waited,       \* history: the rounds the script waited for a login
  failed        \* history: the tries that failed in the present phase

machine == <<armed, approved, loaded, console, installed, changes, loggedIn, unloaded>>
vars == <<pc, i, exit, machine, mounts, seen, waited, failed>>

SYSTEM == {"", "root", "_windowserver", "loginwindow"}   \* owners that are no user

Init ==
  /\ pc = "armed?" /\ i = 0 /\ exit = 2
  /\ armed \in BOOLEAN /\ approved \in BOOLEAN /\ installed \in BOOLEAN
  /\ loaded \in BOOLEAN /\ console \in {"", "root"} /\ mounts = 0
  /\ changes = 0 /\ loggedIn = FALSE /\ unloaded = FALSE
  /\ seen = FALSE /\ waited = 0 /\ failed = 0

Goto(label) == pc' = label /\ UNCHANGED exit
Exit(status) == pc' = "end" /\ exit' = status
TryFailed == failed' = IF failed < TRIES THEN failed + 1 ELSE failed

\* [ ! -e "$ARM_FLAG" ]
CheckArmed ==
  /\ pc = "armed?"
  /\ IF armed THEN Goto("loaded?") ELSE Exit(0)
  /\ UNCHANGED <<i, machine, mounts, seen, waited, failed>>

-------------------------------------------------------------------------------
(* Phase 1.                                                                 *)

RoomForAnother(tries) == i < tries

\* The loop condition and the first kext_loaded.
LookLoaded ==
  /\ pc = "loaded?"
  /\ Goto(IF ~ RoomForAnother(TRIES) \/ loaded THEN "confirm" ELSE "load")
  /\ UNCHANGED <<i, machine, mounts, seen, waited, failed>>

\* kmutil load, which works once the kext is approved and can fail then too.
Load ==
  /\ pc = "load" /\ Goto("again?")
  /\ loaded' \in {loaded, approved \/ loaded}
  /\ IF loaded' THEN UNCHANGED failed ELSE TryFailed
  /\ UNCHANGED <<i, armed, approved, console, installed, changes, loggedIn, unloaded,
                 mounts, seen, waited>>

LookLoadedAgain ==
  /\ pc = "again?"
  /\ \/ loaded /\ Goto("confirm") /\ UNCHANGED i
     \/ ~ loaded /\ Goto("loaded?") /\ i' = i + 1
  /\ UNCHANGED <<machine, mounts, seen, waited, failed>>

Confirm ==
  /\ pc = "confirm"
  /\ IF loaded THEN Goto("login?") ELSE Exit(1)
  /\ i' = 0 /\ failed' = IF loaded THEN 0 ELSE failed
  /\ UNCHANGED <<machine, mounts, seen, waited>>

-------------------------------------------------------------------------------
(* Phase 1.5: stat of /dev/console, every two seconds.                      *)

IsUserByName(owner) == owner # ""   \* mutant: only an unknown owner is no user
IsUser(owner) == owner \notin SYSTEM

\* After the last round the script goes on without a user.
AfterTheWaitGiveUp ==   \* mutant: it gives up
  IF IsUser(console) THEN Goto("mounted?") ELSE Exit(1)
AfterTheWait == Goto("mounted?")

WaitForLogin ==
  /\ pc = "login?"
  /\ \/ ~ RoomForAnother(LOGIN_TRIES) /\ AfterTheWait /\ i' = 0
     \/ RoomForAnother(LOGIN_TRIES) /\ IsUser(console) /\ Goto("mounted?") /\ i' = 0
     \/ RoomForAnother(LOGIN_TRIES) /\ ~ IsUser(console) /\ Goto("login?") /\ i' = i + 1
  /\ waited' = i
  /\ UNCHANGED <<machine, mounts, seen, failed>>

-------------------------------------------------------------------------------
(* Phase 2.                                                                 *)

\* mount | grep: any mount on /sys counts.
LookMounted ==
  /\ pc = "mounted?"
  /\ IF ~ RoomForAnother(TRIES) THEN Exit(1)
     ELSE IF mounts > 0 THEN Exit(0) ELSE Goto("mount")
  /\ UNCHANGED <<i, machine, mounts, seen, waited, failed>>

\* main() of mount_sysfs: mount(2), which needs the VFS type and can fail; its
\* result is the exit status.
MountHelper(status) ==
  \/ status = 0 /\ loaded /\ mounts' = mounts + 1 /\ seen' = TRUE /\ UNCHANGED failed
  \/ status = 1 /\ UNCHANGED <<mounts, seen>> /\ TryFailed

NotInstalled == ~ installed /\ UNCHANGED <<mounts, seen>> /\ TryFailed

TryMountUnchecked ==   \* mutant: the status of the helper is not looked at
  /\ pc = "mount"
  /\ \/ /\ installed /\ \E status \in {0, 1} : MountHelper(status)
        /\ Exit(0) /\ UNCHANGED i
     \/ NotInstalled /\ Goto("mounted?") /\ i' = i + 1
  /\ UNCHANGED <<machine, waited>>

TryMountCounted ==   \* mutant: only a failed mount counts as a try
  /\ pc = "mount"
  /\ \/ installed /\ MountHelper(0) /\ Exit(0) /\ UNCHANGED i
     \/ installed /\ MountHelper(1) /\ Goto("mounted?") /\ i' = i + 1
     \/ NotInstalled /\ Goto("mounted?") /\ UNCHANGED i
  /\ UNCHANGED <<machine, waited>>

TryMount ==
  /\ pc = "mount"
  /\ \/ installed /\ MountHelper(0) /\ Exit(0) /\ UNCHANGED i
     \/ installed /\ MountHelper(1) /\ Goto("mounted?") /\ i' = i + 1
     \/ NotInstalled /\ Goto("mounted?") /\ i' = i + 1
  /\ UNCHANGED <<machine, waited>>

Script ==
  \/ CheckArmed \/ LookLoaded \/ Load \/ LookLoadedAgain \/ Confirm
  \/ WaitForLogin \/ LookMounted \/ TryMount

-------------------------------------------------------------------------------
(* The rest of the machine.                                                 *)

Change ==
  /\ changes < MaxChanges /\ changes' = changes + 1
  /\ UNCHANGED <<pc, i, exit, waited, failed>>

Approve ==
  /\ Change /\ ~ approved /\ approved' = TRUE
  /\ UNCHANGED <<armed, loaded, console, installed, loggedIn, unloaded, mounts, seen>>

\* The flag is read once; what happens to it after that makes no difference.
Disarm ==
  /\ pc = "armed?" /\ Change /\ armed /\ armed' = FALSE
  /\ UNCHANGED <<approved, loaded, console, installed, loggedIn, unloaded, mounts, seen>>

\* /sys is made from synthetic.conf, the helper is installed or removed.
Install ==
  /\ Change /\ installed' = ~ installed
  /\ UNCHANGED <<armed, approved, loaded, console, loggedIn, unloaded, mounts, seen>>

Console(owner) ==
  /\ Change /\ console # owner /\ console' = owner
  /\ loggedIn' = (loggedIn \/ owner \notin SYSTEM)
  /\ UNCHANGED <<armed, approved, loaded, installed, unloaded, mounts, seen>>

\* Somebody else loads the kext, or unloads it, which a mount prevents.
OtherLoad ==
  /\ Change /\ approved /\ ~ loaded /\ loaded' = TRUE
  /\ UNCHANGED <<armed, approved, console, installed, loggedIn, unloaded, mounts, seen>>

Unload ==
  /\ Change /\ loaded /\ mounts = 0 /\ loaded' = FALSE /\ unloaded' = TRUE
  /\ UNCHANGED <<armed, approved, console, installed, loggedIn, mounts, seen>>

OtherMount ==
  /\ Change /\ loaded /\ installed
  /\ mounts' = mounts + 1 /\ seen' = TRUE
  /\ UNCHANGED <<armed, approved, loaded, console, installed, loggedIn, unloaded>>

OtherUnmount ==
  /\ Change /\ mounts > 0 /\ mounts' = mounts - 1
  /\ UNCHANGED <<armed, approved, loaded, console, installed, loggedIn, unloaded, seen>>

Next ==
  \/ Script
  \/ Approve \/ Disarm \/ Install \/ OtherLoad \/ Unload \/ OtherMount \/ OtherUnmount
  \/ \E owner \in SYSTEM \cup {"user"} : Console(owner)

Spec == Init /\ [][Next]_vars

\* The shell goes on running, and no command it calls hangs.
FairSpec == Spec /\ WF_vars(Script)

-------------------------------------------------------------------------------

(* Exit status 0 of an armed script means that /sys has been mounted while it *)
(* ran, by the script or by somebody else, whatever failed or was undone in   *)
(* between.                                                                   *)
SuccessMeansMounted ==
  [][(exit = 2 /\ exit' = 0 /\ pc # "armed?") => seen']_vars

(* The script does not mount before a user has logged in, unless it has      *)
(* waited through all its rounds: "Mounting /sys during the early-boot window *)
(* [...] hangs coreservicesd and black-screens login" (mount-sysfs:67).       *)
NoEarlyMount ==
  [][(pc = "mount" /\ mounts' > mounts /\ exit' = 0 /\ ~ loggedIn)
       => waited = LOGIN_TRIES]_vars

(* An armed script gives up only after TRIES failures of one phase, or when   *)
(* somebody unloads the kext: neither a login that never comes nor one        *)
(* failure early in the boot keeps it from mounting.                          *)
GivesUpLate == exit = 1 => failed >= TRIES \/ unloaded

(* Every run of the script ends, whatever the machine does.                   *)
Ends == <>(pc = "end")
===============================================================================
