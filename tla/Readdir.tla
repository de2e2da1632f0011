-------------------------------- MODULE Readdir -------------------------------
(***************************************************************************)
(* How a directory is handed out over several calls of readdir, and a file  *)
(* over several calls of read, while the snapshot behind it is replaced.    *)
(* All five readdir loops of sysfs_vnops.c start from the first entry on    *)
(* every call, count the size of the entries they skip, and copy entries    *)
(* out once the caller's offset is reached.  An entry is one step: every    *)
(* sysfs_iokit_child_at() looks at the snapshot that is current then.       *)
(***************************************************************************)
EXTENDS Integers, Sequences, FiniteSets, SequencesExt

CONSTANTS
  Static,      \* the children of a static directory, "." and ".." first
  DevStatic,   \* the static children of /sys/devices
  DevAttrs,    \* sysfs_dev_attrs
  ModAttrs,    \* sysfs_mod_attrs
  Lists,       \* what the snapshots list in the directory; a file's values
  Bufs,        \* sizes of the caller's buffer
  MaxSeeks     \* bound on the caller's lseek() calls

\* Of an entry only its name and the length of the name matter.
Entry(name, len) == [name |-> name, len |-> len]
Dots == <<Entry(".", 1), Entry("..", 2)>>

Entries == [name : STRING, len : Nat]

ASSUME ReaddirAssumption ==
  /\ {Dots, Static, DevStatic, DevAttrs, ModAttrs} \cup Lists \subseteq Seq(Entries)
  /\ IsPrefix(Dots, Static) /\ Bufs \subseteq Nat /\ MaxSeeks \in Nat

VARIABLES
  kind,        \* the loop that serves the directory, or "file"
  list,        \* what the current snapshot lists
  pc,          \* "user" between the calls, "scan" in readdir
  buf,         \* the size of the buffer of the present or last call
  resid,       \* uio_resid()
  offset,      \* the offset of the open file: uio_offset() at the next call
  pos,         \* nextpos
  i,           \* the entries passed in this call
  num,         \* numentries
  result,      \* of the last call: "more", "eof" or an error
  got,         \* history: what the caller has, with d_seekoff, since offset 0
  steady,      \* history: since then snapshots have only added to the end
  seeks

vars == <<kind, list, pc, buf, resid, offset, pos, i, num, result, got, steady, seeks>>
uio == <<buf, resid, pos, i, num>>

-------------------------------------------------------------------------------
\* sysfs_calc_dirent_size(): 24 bytes and the name with its NUL, to a multiple
\* of 8.
CalcDirentSize(len) == 24 + ((len + 8) \div 8) * 8
SizeOf(e) == IF kind = "file" THEN 1 ELSE CalcDirentSize(e.len)

\* What a loop enumerates, with what the current snapshot lists at the end of
\* the ones that look at it.
Volatile == kind \in {"devices", "device", "class", "file"}

Enumeration ==
  CASE kind = "static"  -> Static
    [] kind = "devices" -> Dots \o DevStatic \o list   \* /sys/devices itself
    [] kind = "device"  -> Dots \o DevAttrs \o list    \* one registry entry
    [] kind = "class"   -> Dots \o list                \* a class, or /sys/module
    [] kind = "module"  -> Dots \o ModAttrs            \* one module
    [] kind = "file"    -> list

Init ==
  /\ kind \in {"static", "devices", "device", "class", "module", "file"}
  /\ list \in IF Volatile THEN Lists ELSE {<<>>}
  /\ pc = "user" /\ buf = 0 /\ resid = 0 /\ offset = 0 /\ pos = 0 /\ i = 0 /\ num = 0
  /\ result = "more" /\ got = <<>> /\ steady = TRUE /\ seeks = 0

\* getdirentries64(), until it reports the end or fails.
Call(b) ==
  /\ pc = "user" /\ result = "more" /\ kind # "file"
  /\ pc' = "scan" /\ buf' = b /\ resid' = b /\ pos' = 0 /\ i' = 0 /\ num' = 0
  /\ UNCHANGED <<kind, list, offset, result, got, steady, seeks>>

-------------------------------------------------------------------------------
(* One round of a loop.  "e" is the entry it looks at.                      *)

AtEnd == i >= Len(Enumeration)
e == Enumeration[i + 1]

\* The loops for "." and ".." do not look at uio_resid(), the static loop, which
\* has them as children, does.
BufferFull == resid <= 0 /\ (kind = "static" \/ i >= 2)

\* The loops over fixed entries know that they are through; the others ask for
\* another child first, and only if there is room.
ExhaustedWhenFull == TRUE   \* mutant: a full buffer counts as the end

Exhausted == AtEnd /\ (Volatile => resid > 0)

\* The end of the five functions.
ReturnPlain(exhausted, error) ==   \* mutant: a call without an entry is no error
  /\ pc' = "user" /\ offset' = pos
  /\ result' = IF error # "" THEN error ELSE IF exhausted THEN "eof" ELSE "more"
  /\ UNCHANGED <<kind, list, uio, got, steady, seeks>>

Return(exhausted, error) ==
  /\ pc' = "user" /\ offset' = pos
  /\ result' = CASE error # "" -> error
                 [] error = "" /\ exhausted -> "eof"
                 [] error = "" /\ ~ exhausted /\ num > 0 -> "more"
                 [] OTHER -> "EINVAL"
  /\ UNCHANGED <<kind, list, uio, got, steady, seeks>>

Leave ==
  /\ pc = "scan" /\ (AtEnd \/ BufferFull)
  /\ Return(Exhausted, "")

\* Whether the entry is before the caller's offset.
BeforeOrAt == pos <= offset   \* mutant: the entry at the offset is skipped
Before == pos < offset

Advance == pos' = pos + SizeOf(e) /\ i' = i + 1

Skip ==
  /\ pc = "scan" /\ ~ AtEnd /\ ~ BufferFull /\ Before
  /\ Advance
  /\ UNCHANGED <<kind, list, pc, buf, resid, offset, num, result, got, steady, seeks>>

\* sysfs_copyout_dirent(): all of the entry or nothing.
FitsBelow == SizeOf(e) < resid   \* mutant: one byte must be left
Fits == SizeOf(e) <= resid

CopyOut ==
  /\ pc = "scan" /\ ~ AtEnd /\ ~ BufferFull /\ ~ Before /\ Fits
  /\ Advance
  /\ resid' = resid - SizeOf(e) /\ num' = num + 1
  /\ got' = IF steady THEN Append(got, [entry |-> e, seekoff |-> pos']) ELSE got
  /\ UNCHANGED <<kind, list, pc, buf, offset, result, steady, seeks>>

NoRoom ==
  /\ pc = "scan" /\ ~ AtEnd /\ ~ BufferFull /\ ~ Before /\ ~ Fits
  /\ Return(FALSE, "")

\* uiomove() fails.
CopyOutFails ==
  /\ pc = "scan" /\ ~ AtEnd /\ ~ BufferFull /\ ~ Before /\ Fits
  /\ Return(FALSE, "EFAULT")

Scan == Leave \/ Skip \/ CopyOut \/ NoRoom \/ CopyOutFails

-------------------------------------------------------------------------------
\* sysfs_copy_data(), at the end of every read function: from the caller's
\* offset, as much as there is room for, and nothing beyond the end.
Read(b) ==
  /\ pc = "user" /\ result = "more" /\ kind = "file" /\ b > 0
  /\ LET n == IF offset >= Len(list) THEN 0
              ELSE IF b < Len(list) - offset THEN b ELSE Len(list) - offset
     IN  /\ offset' = offset + n
         /\ result' = IF n = 0 THEN "eof" ELSE "more"
         /\ got' = IF ~ steady THEN got ELSE
              got \o [k \in 1 .. n |-> [entry |-> list[offset + k], seekoff |-> offset + k]]
  /\ buf' = b
  /\ UNCHANGED <<kind, list, pc, resid, pos, i, num, steady, seeks>>

\* A new snapshot is published.
Publish(new) ==
  /\ Volatile /\ new # list
  /\ list' = new
  /\ steady' = (steady /\ (IsPrefix(list, new) \/ (pc = "user" /\ offset = 0 /\ got = <<>>)))
  /\ got' = IF steady' THEN got ELSE <<>>
  /\ UNCHANGED <<kind, pc, uio, offset, result, seeks>>

\* lseek() to the d_seekoff of an entry the caller has, or to the start.
Seek(k) ==
  /\ pc = "user" /\ seeks < MaxSeeks
  /\ seeks' = seeks + 1
  /\ offset' = IF k = 0 THEN 0 ELSE got[k].seekoff
  /\ got' = SubSeq(got, 1, k)
  /\ steady' = (steady \/ k = 0) /\ result' = "more"
  /\ UNCHANGED <<kind, list, pc, uio>>

Next ==
  \/ \E b \in Bufs : Call(b) \/ Read(b)
  \/ Scan
  \/ \E new \in Lists : Publish(new)
  \/ \E k \in 0 .. Len(got) : Seek(k)

Spec == Init /\ [][Next]_vars

\* A call runs to its end, as it waits for nothing but short critical sections,
\* and a caller that was not told of the end calls again.
FairSpec == Spec /\ WF_vars(Scan) /\ WF_vars(\E b \in Bufs : Call(b) \/ Read(b))

-------------------------------------------------------------------------------
AllEntries ==
  UNION {ToSet(s) : s \in Lists \cup {Static, DevStatic, DevAttrs, ModAttrs}}

(* As long as new snapshots only add entries at the end, what a caller has    *)
(* read, in buffers of any sizes and with lseek() to any d_seekoff in between,*)
(* is the beginning of the directory: no entry is left out and none comes     *)
(* twice.  The same holds of the bytes of a file.                             *)
ListedOnce ==
  steady => IsPrefix([k \in DOMAIN got |-> got[k].entry], Enumeration)

(* The caller is told of the end only when it has everything that the current *)
(* snapshot lists.  a_eofflag is set in one place and the loops leave in five.*)
EndMeansAll ==
  [][(result # "eof" /\ result' = "eof" /\ steady) => Len(got) = Len(Enumeration)]_vars

(* EINVAL tells a caller that the buffer is too small for one entry, and      *)
(* nothing else: a buffer that holds the longest entry never gets it, whatever*)
(* is published during the call.                                              *)
BigBufferSuffices ==
  result = "EINVAL" => \E x \in AllEntries : buf < CalcDirentSize(x.len)

(* A caller that reads on is told of the end or gets an error, even if a new  *)
(* snapshot is published before every step: no call without an error leaves   *)
(* the offset where it was ("an unkillable spin", sysfs_vnops.c:791).         *)
ScanEnds == result = "more" ~> result # "more"
===============================================================================
