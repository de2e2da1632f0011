---------------------------- MODULE BootMountProofs ---------------------------
(***************************************************************************)
(* The safety properties of the boot script for every number of tries and   *)
(* any number of changes of the machine under it.                           *)
(***************************************************************************)
EXTENDS BootMount, TLAPS

Labels == {"armed?", "loaded?", "load", "again?", "confirm", "login?", "mounted?",
           "mount", "end"}

Types ==
  /\ pc \in Labels /\ exit \in {0, 1, 2} /\ (pc = "end" <=> exit # 2)
  /\ i \in Nat /\ waited \in Nat /\ failed \in Nat
  /\ loaded \in BOOLEAN /\ unloaded \in BOOLEAN /\ loggedIn \in BOOLEAN
  /\ approved \in BOOLEAN

\* In phase 1 the counter counts failed loads, as long as nobody unloads the kext:
\* then a load that worked lasts.
LoadPhase ==
  unloaded \/
    /\ pc = "armed?" => i = 0
    /\ pc = "loaded?" => failed >= i /\ i <= TRIES
    /\ pc = "load" => failed >= i /\ i < TRIES
    /\ pc = "again?" => i < TRIES /\ (loaded \/ failed >= i + 1)
    /\ pc = "confirm" => loaded \/ failed >= TRIES

\* A user at the console has logged in, and the wait ends with one or with the
\* last round.
LoginPhase ==
  /\ console \notin SYSTEM => loggedIn
  /\ pc = "login?" => i <= LOGIN_TRIES
  /\ pc \in {"mounted?", "mount"} => loggedIn \/ waited = LOGIN_TRIES

\* In phase 2 the counter counts failed mounts.
MountPhase ==
  /\ pc = "mounted?" => failed >= i /\ i <= TRIES
  /\ pc = "mount" => failed >= i /\ i < TRIES

BootInv == Types /\ LoadPhase /\ LoginPhase /\ MountPhase /\ GivesUpLate

USE DEF machine

LEMMA InitBoot == Init => BootInv
<1> SUFFICES ASSUME Init PROVE BootInv
  OBVIOUS
<1>1. Types
  BY Zenon DEF Init, Types, Labels
<1>2. pc = "armed?" /\ i = 0 /\ exit = 2
  BY Zenon DEF Init
<1>5. LoadPhase
  BY <1>2 DEF LoadPhase
<1>6. MountPhase /\ GivesUpLate
  BY <1>2 DEF MountPhase, GivesUpLate
<1>3. console \in SYSTEM
  BY Zenon DEF Init, SYSTEM
<1>4. LoginPhase
  BY <1>3, Zenon DEF Init, LoginPhase
<1> QED BY <1>1, <1>4, <1>5, <1>6 DEF BootInv

\* The steps of phase 1, which leave the console and its history alone.
LEMMA Phase1Step ==
  ASSUME BootInv, CheckArmed \/ LookLoaded \/ Load \/ LookLoadedAgain \/ Confirm
  PROVE  BootInv'
<1> USE BootMountAssumption DEF BootInv, Types, Labels
<1>1. CASE CheckArmed
  BY <1>1 DEF CheckArmed, Goto, Exit, LoadPhase, LoginPhase, MountPhase, GivesUpLate
<1>2. CASE LookLoaded
  BY <1>2 DEF LookLoaded, Goto, RoomForAnother, LoadPhase, LoginPhase, MountPhase, GivesUpLate
<1>3. CASE Load
  BY <1>3 DEF Load, Goto, TryFailed, LoadPhase, LoginPhase, MountPhase, GivesUpLate
<1>4. CASE LookLoadedAgain
  BY <1>4 DEF LookLoadedAgain, Goto, LoadPhase, LoginPhase, MountPhase, GivesUpLate
<1>5. CASE Confirm
  BY <1>5 DEF Confirm, Goto, Exit, LoadPhase, LoginPhase, MountPhase, GivesUpLate
<1> QED BY <1>1, <1>2, <1>3, <1>4, <1>5

LEMMA WaitStep == ASSUME BootInv, WaitForLogin PROVE BootInv'
<1> USE BootMountAssumption DEF BootInv, Types, Labels
<1> QED
  BY DEF WaitForLogin, AfterTheWait, IsUser, Goto, RoomForAnother,
         LoadPhase, LoginPhase, MountPhase, GivesUpLate

LEMMA Phase2Step == ASSUME BootInv, LookMounted \/ TryMount PROVE BootInv'
<1> USE BootMountAssumption DEF BootInv, Types, Labels
<1>1. CASE LookMounted
  BY <1>1 DEF LookMounted, Goto, Exit, RoomForAnother, LoadPhase, LoginPhase, MountPhase, GivesUpLate
<1>2. CASE TryMount
  BY <1>2 DEF TryMount, MountHelper, NotInstalled, TryFailed, Goto, Exit,
              LoadPhase, LoginPhase, MountPhase, GivesUpLate
<1> QED BY <1>1, <1>2

\* What the rest of the machine does.  A kext that is unloaded sets "unloaded".
LEMMA MachineStep ==
  ASSUME BootInv,
         \/ Approve \/ Disarm \/ Install \/ OtherLoad \/ Unload \/ OtherMount \/ OtherUnmount
         \/ \E owner \in SYSTEM \cup {"user"} : Console(owner)
  PROVE  BootInv'
<1> USE BootMountAssumption DEF BootInv, Types, Labels, Change
<1>1. CASE Approve
  BY <1>1 DEF Approve, LoadPhase, LoginPhase, MountPhase, GivesUpLate
<1>5. CASE Disarm
  BY <1>5 DEF Disarm, LoadPhase, LoginPhase, MountPhase, GivesUpLate
<1>6. CASE Install
  BY <1>6 DEF Install, LoadPhase, LoginPhase, MountPhase, GivesUpLate
<1>7. CASE OtherLoad
  BY <1>7 DEF OtherLoad, LoadPhase, LoginPhase, MountPhase, GivesUpLate
<1>2. CASE Unload
  BY <1>2, Zenon DEF Unload, LoadPhase, LoginPhase, MountPhase, GivesUpLate
<1>3. CASE OtherMount \/ OtherUnmount
  BY <1>3 DEF OtherMount, OtherUnmount, LoadPhase, LoginPhase, MountPhase, GivesUpLate
<1>4. CASE \E owner \in SYSTEM \cup {"user"} : Console(owner)
  <2> PICK owner \in SYSTEM \cup {"user"} : Console(owner)
    BY <1>4
  <2>1. Types'
    BY DEF Console
  <2>2. LoginPhase'
    BY Zenon DEF Console, LoginPhase
  <2>3. LoadPhase' /\ MountPhase' /\ GivesUpLate'
    BY DEF Console, LoadPhase, MountPhase, GivesUpLate
  <2> QED BY <2>1, <2>2, <2>3
<1> QED BY <1>1, <1>2, <1>3, <1>4, <1>5, <1>6, <1>7

LEMMA NextBoot == BootInv /\ [Next]_vars => BootInv'
<1> SUFFICES ASSUME BootInv, [Next]_vars PROVE BootInv'
  OBVIOUS
<1>1. CASE Script
  BY <1>1, Phase1Step, WaitStep, Phase2Step DEF Script
<1>2. CASE Next /\ ~ Script
  BY <1>2, MachineStep DEF Next
<1>3. CASE UNCHANGED vars
  BY <1>3 DEF vars, BootInv, Types, LoadPhase, LoginPhase, MountPhase, GivesUpLate
<1> QED BY <1>1, <1>2, <1>3

LEMMA BootInvariant == Spec => []BootInv
  BY InitBoot, NextBoot, PTL DEF Spec

(* mount-sysfs exits with 1 only after TRIES failures of one phase or after    *)
(* somebody has unloaded the kext, for every TRIES.                            *)
THEOREM GivesUpOnlyLate == Spec => []GivesUpLate
<1>1. BootInv => GivesUpLate
  BY DEF BootInv
<1> QED BY <1>1, BootInvariant, PTL

(* mount-sysfs mounts before the first login only after its whole wait, for    *)
(* every number of rounds.                                                     *)
THEOREM MountsAfterLoginOrWait == Spec => NoEarlyMount
<1>1. BootInv /\ [Next]_vars =>
        [(pc = "mount" /\ mounts' > mounts /\ exit' = 0 /\ ~ loggedIn)
           => waited = LOGIN_TRIES]_vars
  BY DEF BootInv, LoginPhase
<1> QED BY <1>1, BootInvariant, PTL DEF Spec, NoEarlyMount

\* A mount on /sys was made while the script ran.
MountsSeen == mounts \in Nat /\ (mounts > 0 => seen = TRUE)

LEMMA SeenInvariant == Spec => []MountsSeen
<1>1. Init => MountsSeen
  <2>1. Init => mounts = 0
    BY Zenon DEF Init
  <2> QED BY <2>1 DEF MountsSeen
<1>2. MountsSeen /\ [Next]_vars => MountsSeen'
  <2> SUFFICES ASSUME MountsSeen, [Next]_vars PROVE MountsSeen'
    OBVIOUS
  <2> USE DEF MountsSeen
  <2>1. CASE TryMount
    BY <2>1 DEF TryMount, MountHelper, NotInstalled
  <2>2. CASE OtherMount \/ OtherUnmount
    BY <2>2 DEF OtherMount, OtherUnmount
  <2>3. CASE UNCHANGED <<mounts, seen>>
    BY <2>3
  <2>4. CASE Script /\ ~ TryMount
    BY <2>3, <2>4 DEF Script, CheckArmed, LookLoaded, Load, LookLoadedAgain, Confirm,
                      WaitForLogin, LookMounted
  <2>5. CASE Approve \/ Disarm \/ Install \/ OtherLoad \/ Unload
    BY <2>3, <2>5 DEF Approve, Disarm, Install, OtherLoad, Unload
  <2>6. CASE \E owner \in SYSTEM \cup {"user"} : Console(owner)
    BY <2>3, <2>6 DEF Console
  <2>7. CASE UNCHANGED vars
    BY <2>3, <2>7 DEF vars
  <2> QED BY <2>1, <2>2, <2>4, <2>5, <2>6, <2>7, Zenon DEF Next
<1> QED BY <1>1, <1>2, PTL DEF Spec

(* Exit status 0 of an armed mount-sysfs means that /sys was mounted while it  *)
(* ran, for every number of tries.                                             *)
THEOREM ZeroMeansMounted == Spec => SuccessMeansMounted
<1>1. MountsSeen /\ [Next]_vars =>
        [(exit = 2 /\ exit' = 0 /\ pc # "armed?") => seen']_vars
  <2> SUFFICES ASSUME MountsSeen, Next, exit = 2, exit' = 0, pc # "armed?"
               PROVE  seen' = TRUE
    BY Zenon
  <2>1. CASE Script
    <3>1. CASE CheckArmed
      BY <3>1 DEF CheckArmed
    <3>2. CASE LookLoaded \/ Load \/ LookLoadedAgain \/ Confirm \/ WaitForLogin
      BY <3>2 DEF LookLoaded, Load, LookLoadedAgain, Confirm, WaitForLogin,
                  AfterTheWait, Goto, Exit
    <3>3. CASE LookMounted
      BY <3>3 DEF LookMounted, MountsSeen, Goto, Exit
    <3>4. CASE TryMount
      BY <3>4 DEF TryMount, MountHelper, Goto, Exit
    <3> QED BY <2>1, <3>1, <3>2, <3>3, <3>4, Zenon DEF Script
  <2>2. CASE \/ Approve \/ Disarm \/ Install \/ OtherLoad \/ Unload
            \/ OtherMount \/ OtherUnmount
    BY <2>2 DEF Approve, Disarm, Install, OtherLoad, Unload, OtherMount, OtherUnmount, Change
  <2>3. CASE \E owner \in SYSTEM \cup {"user"} : Console(owner)
    BY <2>3 DEF Console, Change
  <2> QED BY <2>1, <2>2, <2>3, Zenon DEF Next
<1> QED BY <1>1, SeenInvariant, PTL DEF Spec, SuccessMeansMounted
===============================================================================
