----------------------------- MODULE ReaddirProofs ----------------------------
(***************************************************************************)
(* That a directory is listed completely and without repetition however it  *)
(* is cut into calls: for all directories, buffers, seeks and snapshots.    *)
(***************************************************************************)
EXTENDS Readdir, SequenceTheorems, TLAPS

Kinds == {"static", "devices", "device", "class", "module", "file"}

Types ==
  /\ kind \in Kinds /\ list \in Seq(Entries) /\ pc \in {"user", "scan"}
  /\ offset \in Nat /\ pos \in Nat /\ i \in Nat /\ num \in Nat
  /\ buf \in Nat /\ resid \in Int
  /\ got \in Seq([entry : Entries, seekoff : Nat]) /\ steady \in BOOLEAN

\* The position after the first k entries the caller has.
End(k) == IF k = 0 THEN 0 ELSE got[k].seekoff

\* What the caller has is the beginning of the directory, and the offsets are the
\* sums of the sizes.  That they grow is stated too, to need no induction.
GotInv ==
  steady =>
    /\ Len(got) <= Len(Enumeration)
    /\ \A k \in 1 .. Len(got) : got[k].entry = Enumeration[k]
    /\ \A k \in 1 .. Len(got) : End(k) = End(k - 1) + SizeOf(got[k].entry)
    /\ \A j, k \in 0 .. Len(got) : j < k => End(j) < End(k)

\* Between two calls the offset is the end of what the caller has.
UserInv ==
  (pc = "user" /\ result = "more" /\ steady) => offset = End(Len(got))

\* In a call the loop first passes what the caller has, up to the offset, and then
\* adds to it.
ScanInv ==
  pc = "scan" =>
    /\ kind # "file" /\ result = "more"
    /\ steady => /\ i <= Len(got) /\ pos = End(i)
                 /\ i < Len(got) => offset = End(Len(got))
                 /\ i = Len(got) => pos >= offset

Forgotten == ~ steady => got = <<>>

\* Of a file every byte is an entry of size 1.
FileInv == (kind = "file" /\ steady) => \A k \in 0 .. Len(got) : End(k) = k

\* A call that has copied nothing out has its whole buffer, and one that has is
\* past the offset.
RoomInv ==
  pc = "scan" => /\ num = 0 => resid = buf
                 /\ num > 0 => pos > offset

ListInv == Types /\ GotInv /\ UserInv /\ ScanInv /\ Forgotten /\ FileInv /\ RoomInv

-------------------------------------------------------------------------------
(* Facts about sequences and sizes.                                         *)

LEMMA SizePositive == \A len \in Nat : CalcDirentSize(len) \in Nat /\ CalcDirentSize(len) > 0
  BY DEF CalcDirentSize

LEMMA SizeOfPositive == ASSUME NEW x \in Entries PROVE SizeOf(x) \in Nat /\ SizeOf(x) > 0
  BY SizePositive DEF SizeOf, Entries

\* IsPrefix by elements.
LEMMA PrefixElements ==
  ASSUME NEW S, NEW s \in Seq(S), NEW t \in Seq(S)
  PROVE  IsPrefix(s, t) <=> Len(s) <= Len(t) /\ \A k \in 1 .. Len(s) : s[k] = t[k]
<1>1. SubSeq(s, 1, Len(s)) = s
  BY SubSeqFull, Zenon
<1>2. ASSUME Len(s) <= Len(t)
      PROVE  /\ SubSeq(t, 1, Len(s)) \in Seq(S) /\ Len(SubSeq(t, 1, Len(s))) = Len(s)
             /\ \A k \in 1 .. Len(s) : SubSeq(t, 1, Len(s))[k] = t[k]
  <2>1. Len(s) \in Nat /\ Len(t) \in Nat
    BY LenProperties, Zenon
  <2>2. \A k \in 1 .. Len(s) : t[k] \in S
    BY <1>2, <2>1, ElementOfSeq
  <2>3. /\ SubSeq(t, 1, Len(s)) \in Seq(S)
        /\ Len(SubSeq(t, 1, Len(s))) = IF 1 <= Len(s) THEN Len(s) - 1 + 1 ELSE 0
        /\ \A k \in 1 .. Len(s) - 1 + 1 : SubSeq(t, 1, Len(s))[k] = t[1 + k - 1]
    BY <2>1, <2>2, SubSeqProperties
  <2> QED BY <2>1, <2>3
<1>3. ASSUME IsPrefix(s, t) PROVE Len(s) <= Len(t) /\ \A k \in 1 .. Len(s) : s[k] = t[k]
  BY <1>1, <1>2, <1>3, Zenon DEF IsPrefix
<1>4. ASSUME Len(s) <= Len(t), \A k \in 1 .. Len(s) : s[k] = t[k] PROVE IsPrefix(s, t)
  <2>1. s = SubSeq(t, 1, Len(s))
    BY <1>2, <1>4, SeqEqual, Zenon
  <2> QED BY <1>1, <1>4, <2>1, Zenon DEF IsPrefix
<1> QED BY <1>3, <1>4, Zenon

\* What is put in front does not change what is a prefix.
LEMMA ConcatGrows ==
  ASSUME NEW S, NEW a \in Seq(S), NEW s \in Seq(S), NEW t \in Seq(S), IsPrefix(s, t)
  PROVE  Len(a \o s) <= Len(a \o t) /\ \A k \in 1 .. Len(a \o s) : (a \o s)[k] = (a \o t)[k]
<1>1. Len(s) <= Len(t) /\ \A k \in 1 .. Len(s) : s[k] = t[k]
  BY PrefixElements
<1>2. Len(a) \in Nat /\ Len(s) \in Nat /\ Len(t) \in Nat
  BY LenProperties, Zenon
<1>3. /\ Len(a \o s) = Len(a) + Len(s)
      /\ \A k \in 1 .. Len(a) + Len(s) :
           (a \o s)[k] = IF k <= Len(a) THEN a[k] ELSE s[k - Len(a)]
  BY ConcatProperties, Zenon
<1>4. /\ Len(a \o t) = Len(a) + Len(t)
      /\ \A k \in 1 .. Len(a) + Len(t) :
           (a \o t)[k] = IF k <= Len(a) THEN a[k] ELSE t[k - Len(a)]
  BY ConcatProperties, Zenon
<1>5. ASSUME NEW k \in 1 .. Len(a \o s) PROVE (a \o s)[k] = (a \o t)[k]
  <2>1. k \in 1 .. Len(a) + Len(s) /\ k \in 1 .. Len(a) + Len(t)
    BY <1>1, <1>2, <1>3
  <2>2. CASE k <= Len(a)
    BY <1>3, <1>4, <2>1, <2>2, Zenon
  <2>3. CASE ~ (k <= Len(a))
    <3>1. k - Len(a) \in 1 .. Len(s)
      BY <1>2, <2>1, <2>3
    <3> QED BY <1>1, <1>3, <1>4, <2>1, <2>3, <3>1, Zenon
  <2> QED BY <2>2, <2>3, Zenon
<1>6. Len(a \o s) = Len(a) + Len(s) /\ Len(a \o t) = Len(a) + Len(t) /\ Len(s) <= Len(t)
  BY <1>1, <1>3, <1>4, Zenon
<1>7. Len(a \o s) <= Len(a \o t)
  BY <1>2, <1>6
<1> QED BY <1>5, <1>7, Zenon

LEMMA DotsType == Dots \in Seq(Entries) /\ Len(Dots) = 2 /\ Dots[1] = Entry(".", 1)
<1>1. Dots \in Seq(Entries)
  BY ReaddirAssumption, Zenon
<1> QED BY <1>1, Zenon DEF Dots

\* The entries a loop enumerates before it looks at the snapshot.
FixedPart ==
  CASE kind = "devices" -> Dots \o DevStatic
    [] kind = "device"  -> Dots \o DevAttrs
    [] kind = "class"   -> Dots
    [] OTHER            -> <<>>

LEMMA FixedPartType == FixedPart \in Seq(Entries)
<1>1. Dots \o DevStatic \in Seq(Entries) /\ Dots \o DevAttrs \in Seq(Entries)
  BY DotsType, ConcatProperties, ReaddirAssumption, Zenon
<1>2. <<>> \in Seq(Entries)
  BY EmptySeq, Zenon
<1> QED BY <1>1, <1>2, DotsType, Zenon DEF FixedPart

LEMMA VolatileEnumeration ==
  ASSUME Volatile, list \in Seq(Entries) PROVE Enumeration = FixedPart \o list
<1>1. CASE kind = "file"
  BY <1>1, ConcatEmptySeq, Zenon DEF Enumeration, FixedPart
<1>2. CASE kind # "file"
  BY <1>2, Zenon DEF Enumeration, FixedPart, Volatile
<1> QED BY <1>1, <1>2, Zenon

LEMMA EnumerationType == ASSUME Types PROVE Enumeration \in Seq(Entries)
<1>1. CASE Volatile
  <2>1. list \in Seq(Entries)
    BY Zenon DEF Types
  <2>2. FixedPart \o list \in Seq(Entries)
    BY ONLY <2>1, FixedPartType, ConcatProperties, Zenon
  <2> QED BY <1>1, <2>1, <2>2, VolatileEnumeration, Zenon
<1>2. CASE kind = "static"
  BY <1>2, ReaddirAssumption, Zenon DEF Enumeration
<1>3. CASE kind = "module"
  BY <1>3, ReaddirAssumption, DotsType, ConcatProperties, Zenon DEF Enumeration
<1> QED BY <1>1, <1>2, <1>3, Zenon DEF Types, Kinds, Volatile

\* The same two facts after a step.
LEMMA EnumerationNext ==
  /\ Types' => Enumeration' \in Seq(Entries)
  /\ (Volatile /\ list \in Seq(Entries))' => Enumeration' = FixedPart' \o list'
<1>1. Types => Enumeration \in Seq(Entries)
  BY EnumerationType, Zenon
<1>2. (Volatile /\ list \in Seq(Entries)) => Enumeration = FixedPart \o list
  BY VolatileEnumeration, Zenon
<1>3. (Types => Enumeration \in Seq(Entries))'
  BY <1>1, PTL
<1>4. ((Volatile /\ list \in Seq(Entries)) => Enumeration = FixedPart \o list)'
  BY <1>2, PTL
<1> QED BY <1>3, <1>4, Zenon

-------------------------------------------------------------------------------
(* The steps.                                                               *)

LEMMA InitList == Init => ListInv
<1> SUFFICES ASSUME Init PROVE ListInv
  BY Zenon
<1>1. got = <<>> /\ Len(got) = 0 /\ got \in Seq([entry : Entries, seekoff : Nat])
  BY EmptySeq, Zenon DEF Init
<1>2. list \in Seq(Entries)
  BY EmptySeq, ReaddirAssumption, Zenon DEF Init
<1>3. Types
  BY <1>1, <1>2 DEF Init, Types, Kinds
<1>4. Len(Enumeration) \in Nat
  BY <1>3, EnumerationType, LenProperties, Zenon
<1>5. GotInv
  BY <1>1, <1>4 DEF GotInv, End
<1>6. UserInv /\ ScanInv /\ Forgotten /\ FileInv /\ RoomInv
  BY <1>1 DEF Init, UserInv, ScanInv, Forgotten, FileInv, RoomInv, End
<1> QED BY <1>3, <1>5, <1>6, Zenon DEF ListInv

\* What depends on the directory and on what the caller has.
LEMMA GotFrame ==
  ASSUME ListInv, UNCHANGED <<kind, list, got, steady>>
  PROVE  GotInv' /\ Forgotten' /\ FileInv'
<1>1. Enumeration' = Enumeration
  BY Zenon DEF Enumeration
<1>2. \A x : SizeOf(x)' = SizeOf(x)
  BY Zenon DEF SizeOf
<1> QED BY <1>1 DEF ListInv, GotInv, Forgotten, FileInv, End, SizeOf

LEMMA CallStep ==
  ASSUME ListInv, NEW b \in Bufs, Call(b)
  PROVE  ListInv'
<1>1. Types'
  BY ReaddirAssumption DEF ListInv, Types, Call
<1>2. Len(got) \in Nat
  BY LenProperties, Zenon DEF ListInv, Types
<1>3. ScanInv'
  BY <1>2 DEF ListInv, Types, UserInv, ScanInv, Call, End
<1>4. UserInv' /\ RoomInv'
  BY ReaddirAssumption DEF Call, UserInv, RoomInv
<1>5. GotInv' /\ Forgotten' /\ FileInv'
  BY GotFrame, Zenon DEF Call
<1> QED BY <1>1, <1>3, <1>4, <1>5, Zenon DEF ListInv

\* In a call that goes on, the entry is one of the directory's.
LEMMA EntryType == ASSUME Types, ~ AtEnd PROVE e \in Entries
<1>1. Enumeration \in Seq(Entries) /\ Len(Enumeration) \in Nat
  BY EnumerationType, LenProperties, Zenon
<1>2. i + 1 \in 1 .. Len(Enumeration)
  BY <1>1 DEF AtEnd, Types
<1> QED BY <1>1, <1>2, ElementOfSeq, Zenon DEF e

\* A call that has copied something out stands at the end of what the caller has.
LEMMA CopiedIsLast ==
  ASSUME ListInv, pc = "scan", steady, num > 0 PROVE i = Len(got)
<1>1. Len(got) \in Nat /\ i \in Nat /\ i <= Len(got) /\ pos > offset
  BY LenProperties, Zenon DEF ListInv, Types, ScanInv, RoomInv
<1>2. i < Len(got) => pos < offset
  BY <1>1 DEF ListInv, GotInv, ScanInv
<1> QED BY <1>1, <1>2 DEF ListInv, Types

LEMMA ReturnStep ==
  ASSUME ListInv, pc = "scan", NEW exhausted \in BOOLEAN, NEW error \in {"", "EFAULT"},
         Return(exhausted, error)
  PROVE  ListInv'
<1>1. Types'
  BY Zenon DEF ListInv, Types, Return, uio
<1>2. result' = "more" => num > 0
  BY Zenon DEF Return
<1>3. UserInv'
  <2> SUFFICES ASSUME result' = "more", steady PROVE offset' = End(Len(got))'
    BY Zenon DEF UserInv, Return
  <2>1. i = Len(got) /\ pos = End(i)
    BY <1>2, CopiedIsLast, Zenon DEF ListInv, ScanInv
  <2> QED BY <2>1, Zenon DEF Return, End
<1>4. ScanInv' /\ RoomInv'
  BY Zenon DEF Return, ScanInv, RoomInv
<1>5. GotInv' /\ Forgotten' /\ FileInv'
  BY GotFrame, Zenon DEF Return
<1> QED BY <1>1, <1>3, <1>4, <1>5, Zenon DEF ListInv

LEMMA SkipStep == ASSUME ListInv, Skip PROVE ListInv'
<1>1. e \in Entries /\ SizeOf(e) \in Nat /\ SizeOf(e) > 0
  BY EntryType, SizeOfPositive, Zenon DEF ListInv, Skip
<1>2. Types'
  BY <1>1 DEF ListInv, Types, Skip, Advance
<1>3. ScanInv'
  <2> SUFFICES ASSUME steady
               PROVE  /\ i' <= Len(got) /\ pos' = End(i')
                      /\ i' < Len(got) => offset = End(Len(got))
                      /\ i' = Len(got) => pos' >= offset
    BY Zenon DEF ListInv, ScanInv, Skip, End
  <2>1. Len(got) \in Nat /\ i \in Nat /\ pos \in Nat /\ offset \in Nat
    BY LenProperties, Zenon DEF ListInv, Types
  <2>2. i < Len(got) /\ pos = End(i) /\ offset = End(Len(got))
    BY <2>1 DEF ListInv, ScanInv, Skip, Before
  <2>3. i + 1 \in 1 .. Len(got)
    BY <2>1, <2>2
  <2>4. got[i + 1].entry = e
    BY <2>3, Zenon DEF ListInv, GotInv, e
  <2>5. End(i + 1) = End(i) + SizeOf(e)
    BY <2>1, <2>3, <2>4 DEF ListInv, GotInv
  <2> QED BY <2>1, <2>2, <2>3, <2>5 DEF Skip, Advance
<1>4. UserInv' /\ RoomInv'
  BY <1>1 DEF ListInv, Types, Skip, Advance, Before, UserInv, RoomInv
<1>5. GotInv' /\ Forgotten' /\ FileInv'
  BY GotFrame, Zenon DEF Skip
<1> QED BY <1>2, <1>3, <1>4, <1>5, Zenon DEF ListInv

LEMMA CopyOutStep == ASSUME ListInv, CopyOut PROVE ListInv'
<1>1. e \in Entries /\ SizeOf(e) \in Nat /\ SizeOf(e) > 0
  BY EntryType, SizeOfPositive, Zenon DEF ListInv, CopyOut
<1>2. pos \in Nat /\ offset \in Nat /\ i \in Nat /\ pos' = pos + SizeOf(e) /\ i' = i + 1
      /\ resid \in Int
  BY Zenon DEF ListInv, Types, CopyOut, Advance
<1>13. PICK m \in Nat : m = Len(got)
  BY LenProperties, Zenon DEF ListInv, Types
<1>3. [entry |-> e, seekoff |-> pos'] \in [entry : Entries, seekoff : Nat]
  BY <1>1, <1>2
<1>4. ASSUME steady
      PROVE  /\ got' = Append(got, [entry |-> e, seekoff |-> pos'])
             /\ got' \in Seq([entry : Entries, seekoff : Nat]) /\ Len(got') = m + 1
             /\ \A k \in 1 .. m : got'[k] = got[k]
             /\ got'[m + 1] = [entry |-> e, seekoff |-> pos']
  BY <1>3, <1>4, <1>13 DEF ListInv, Types, CopyOut
<1>5. Types'
  BY <1>1, <1>2, <1>4 DEF ListInv, Types, CopyOut
<1>6. steady' = steady /\ Enumeration' = Enumeration /\ kind' = kind /\ offset' = offset
  BY Zenon DEF CopyOut, Enumeration
<1>7. ASSUME steady PROVE i = m /\ pos = End(i)
  <2>1. i <= m /\ pos = End(i)
    BY <1>7, <1>13, Zenon DEF ListInv, ScanInv, CopyOut
  <2>2. i < m => pos < offset
    BY <1>2, <1>13, <1>7, <2>1 DEF ListInv, GotInv, ScanInv, CopyOut
  <2> QED BY <1>2, <1>13, <2>1, <2>2 DEF CopyOut, Before
<1>8. ASSUME steady
      PROVE  /\ \A k \in 0 .. m : End(k)' = End(k)
             /\ End(m + 1)' = pos' /\ pos' = End(m) + SizeOf(e)
  <2>1. \A k \in 0 .. m : End(k)' = End(k)
    BY <1>4, <1>8, <1>13 DEF End
  <2>2. End(m + 1)' = pos'
    BY <1>2, <1>13, <1>4, <1>8, SMTT(20) DEF End
  <2> QED BY <1>2, <1>13, <1>7, <1>8, <2>1, <2>2, SMTT(20)
<1>9. GotInv'
  <2> SUFFICES ASSUME steady
               PROVE  /\ Len(got') <= Len(Enumeration)
                      /\ \A k \in 1 .. Len(got') : got'[k].entry = Enumeration[k]
                      /\ \A k \in 1 .. Len(got') :
                           End(k)' = End(k - 1)' + SizeOf(got'[k].entry)
                      /\ \A j, k \in 0 .. Len(got') : j < k => End(j)' < End(k)'
    BY <1>6, Zenon DEF GotInv, SizeOf
  <2>1. Len(Enumeration) \in Nat
    BY EnumerationType, LenProperties, Zenon DEF ListInv
  <2>2. Len(got') <= Len(Enumeration)
    BY <1>2, <1>13, <1>4, <1>7, <2>1, SMTT(20) DEF CopyOut, AtEnd
  <2>3. ASSUME NEW k \in 1 .. Len(got') PROVE got'[k].entry = Enumeration[k]
    <3>1. CASE k = m + 1
      BY <1>4, <1>7, <3>1 DEF e
    <3>2. CASE k \in 1 .. m
      BY <1>4, <1>13, <3>2, Zenon DEF ListInv, GotInv
    <3> QED BY <1>2, <1>13, <1>4, <3>1, <3>2, SMTT(20)
  <2>4. ASSUME NEW k \in 1 .. Len(got')
        PROVE  End(k)' = End(k - 1)' + SizeOf(got'[k].entry)
    <3>1. CASE k = m + 1
      <4>1. End(k)' = End(m) + SizeOf(e) /\ got'[k].entry = e
        BY <1>4, <1>8, <3>1
      <4>2. k - 1 = m /\ m \in 0 .. m
        BY <1>2, <1>13, <3>1
      <4> QED BY <1>8, <4>1, <4>2, Zenon
    <3>2. CASE k \in 1 .. m
      <4>1. k \in 0 .. m /\ k - 1 \in 0 .. m
        BY <1>2, <1>13, <3>2
      <4>2. End(k) = End(k - 1) + SizeOf(got[k].entry)
        BY <1>13, <3>2, Zenon DEF ListInv, GotInv
      <4> QED BY <1>4, <1>8, <3>2, <4>1, <4>2, SMTT(20)
    <3> QED BY <1>2, <1>13, <1>4, <3>1, <3>2, SMTT(20)
  <2>5. ASSUME NEW j \in 0 .. Len(got'), NEW k \in 0 .. Len(got'), j < k
        PROVE  End(j)' < End(k)'
    <3>1. j \in 0 .. m /\ End(j)' = End(j)
      BY <1>2, <1>13, <1>4, <1>8, <2>5, SMTT(20)
    <3>2. CASE k = m + 1
      <4>1. End(k)' = End(m) + SizeOf(e) /\ End(m) \in Nat
        BY <1>2, <1>13, <1>7, <1>8, <3>2, SMTT(20)
      <4>2. j = m \/ End(j) < End(m)
        BY <1>2, <1>13, <3>1 DEF ListInv, GotInv
      <4>3. End(j) \in Nat
        <5>1. CASE j = 0
          BY <5>1, Zenon DEF End
        <5>2. CASE j # 0
          <6>1. j \in 1 .. Len(got)
            BY <1>13, <3>1, <5>2
          <6>2. got[j] \in [entry : Entries, seekoff : Nat]
            BY <6>1, ElementOfSeq, Zenon DEF ListInv, Types
          <6> QED BY <5>2, <6>2, Zenon DEF End
        <5> QED BY <5>1, <5>2, Zenon
      <4> QED BY <1>1, <3>1, <4>1, <4>2, <4>3, SMTT(20)
    <3>3. CASE k \in 0 .. m
      BY <1>8, <1>13, <2>5, <3>1, <3>3, SMTT(20) DEF ListInv, GotInv
    <3> QED BY <1>2, <1>13, <1>4, <3>2, <3>3, SMTT(20)
  <2> QED BY <2>2, <2>3, <2>4, <2>5, Zenon
<1>10. ScanInv'
  <2>1. ASSUME steady
        PROVE  i' = Len(got') /\ (pos = End(i))' /\ pos' >= offset /\ Len(got') \in Nat
    BY <1>1, <1>2, <1>13, <1>4, <1>7, <1>8, <2>1 DEF CopyOut, Before
  <2> QED BY <1>6, <2>1 DEF ListInv, ScanInv, CopyOut
<1>11. UserInv' /\ RoomInv'
  BY <1>1, <1>2 DEF ListInv, Types, CopyOut, Before, UserInv, RoomInv
<1>12. Forgotten' /\ FileInv'
  BY Zenon DEF ListInv, Forgotten, FileInv, ScanInv, CopyOut
<1> QED BY <1>5, <1>9, <1>10, <1>11, <1>12, SMTT(20) DEF ListInv

LEMMA ReadStep ==
  ASSUME ListInv, NEW b \in Bufs, Read(b)
  PROVE  ListInv'
<1> DEFINE rest == IF offset >= Len(list) THEN 0
                   ELSE IF b < Len(list) - offset THEN b ELSE Len(list) - offset
           R == [entry : Entries, seekoff : Nat]
<1>1. PICK n \in Nat : n = rest
  <2>1. Len(list) \in Nat /\ offset \in Nat /\ b \in Nat
    BY ReaddirAssumption, LenProperties, Zenon DEF ListInv, Types
  <2>2. rest \in Nat
    BY <2>1
  <2> QED BY <2>2, Zenon
<1>2. PICK m \in Nat : m = Len(got)
  BY LenProperties, Zenon DEF ListInv, Types
<1>3. PICK o \in Nat : o = offset
  BY Zenon DEF ListInv, Types
<1> DEFINE more == [k \in 1 .. n |-> [entry |-> list[o + k], seekoff |-> o + k]]
<1>4. /\ kind = "file" /\ pc = "user" /\ result = "more" /\ offset' = o + n
      /\ got' = (IF ~ steady THEN got ELSE got \o more)
      /\ UNCHANGED <<kind, list, pc, resid, pos, i, num, steady>> /\ buf' = b
  BY <1>1, <1>3, Zenon DEF Read
<1>5. Enumeration = list /\ Enumeration' = list /\ Len(list) \in Nat
  BY <1>4, LenProperties, Zenon DEF Enumeration, ListInv, Types
<1>6. n = 0 \/ o + n <= Len(list)
  BY <1>1, <1>3, <1>5, ReaddirAssumption, SMTT(20) DEF Read
<1>7. more \in Seq(R) /\ Len(more) = n
  <2>1. \A k \in 1 .. n : more[k] \in R
    <3>1. ASSUME NEW k \in 1 .. n PROVE list[o + k] \in Entries /\ o + k \in Nat
      <4>1. o + k \in 1 .. Len(list)
        BY <1>5, <1>6
      <4> QED BY <4>1, ElementOfSeq DEF ListInv, Types
    <3> QED BY <3>1, Zenon
  <2>2. more \in [1 .. n -> R]
    BY <2>1, Zenon
  <2> HIDE DEF more, R
  <2> QED BY <2>2
<1>8. got \in Seq(R)
  BY Zenon DEF ListInv, Types
<1>9. Types'
  <2>1. got' \in Seq(R)
    BY <1>4, <1>7, <1>8, ConcatProperties, Zenon
  <2> QED BY <1>4, <2>1, ReaddirAssumption DEF ListInv, Types
<1>10. ASSUME ~ steady PROVE GotInv' /\ UserInv' /\ Forgotten' /\ FileInv'
  BY <1>4, <1>10, Zenon DEF ListInv, GotInv, UserInv, Forgotten, FileInv
<1>11. ASSUME steady PROVE GotInv' /\ UserInv' /\ Forgotten' /\ FileInv'
  <2>1. /\ Len(got') = m + n
        /\ \A k \in 1 .. m + n : got'[k] = IF k <= m THEN got[k] ELSE more[k - m]
    BY <1>2, <1>4, <1>7, <1>8, <1>11, ConcatProperties
  <2>2. o = m /\ \A k \in 0 .. m : End(k) = k
    BY <1>2, <1>3, <1>4, <1>11, SMTT(20) DEF ListInv, UserInv, FileInv
  <2>3. ASSUME NEW k \in 1 .. m + n PROVE got'[k].entry = list[k] /\ got'[k].seekoff = k
    <3>1. CASE k <= m
      <4>1. k \in 1 .. m
        BY <3>1
      <4>2. got[k].entry = list[k]
        BY <1>2, <1>5, <1>11, <4>1, SMTT(20) DEF ListInv, GotInv
      <4>3. End(k) = k /\ k # 0
        BY <2>2, <4>1, SMTT(20)
      <4> QED BY <2>1, <3>1, <4>2, <4>3, Zenon DEF End
    <3>2. CASE ~ (k <= m)
      <4>1. k - m \in 1 .. n /\ o + (k - m) = k
        BY <2>2, <3>2
      <4>2. more[k - m] = [entry |-> list[k], seekoff |-> k]
        BY <4>1, Zenon
      <4>3. got'[k] = more[k - m]
        BY <2>1, <3>2, Zenon
      <4> QED BY <4>2, <4>3
    <3> QED BY <3>1, <3>2, Zenon
  <2>4. \A k \in 0 .. m + n : End(k)' = k
    BY <2>3 DEF End
  <2>5. m + n <= Len(list)
    <3>1. m <= Len(list)
      BY <1>2, <1>5, <1>11, Zenon DEF ListInv, GotInv
    <3> QED BY <1>5, <1>6, <2>2, <3>1, SMTT(20)
  <2>6. \A x : SizeOf(x)' = 1
    BY <1>4, Zenon DEF SizeOf
  <2>7. /\ Len(got') <= Len(Enumeration')
        /\ \A k \in 1 .. Len(got') : got'[k].entry = Enumeration'[k]
    BY <1>5, <2>1, <2>3, <2>5, SMTT(20)
  <2>8. \A k \in 1 .. Len(got') : End(k)' = End(k - 1)' + 1
    <3>1. ASSUME NEW k \in 1 .. m + n PROVE End(k)' = End(k - 1)' + 1
      <4>1. k \in 0 .. m + n /\ k - 1 \in 0 .. m + n
        OBVIOUS
      <4> QED BY <2>4, <4>1
    <3> QED BY <2>1, <3>1, Zenon
  <2>9. \A j, k \in 0 .. Len(got') : j < k => End(j)' < End(k)'
    BY <2>1, <2>4, Zenon
  <2>10. GotInv'
    BY <1>4, <2>7, <2>8, <2>9, SMTT(20) DEF GotInv, SizeOf
  <2>11. FileInv'
    BY <2>1, <2>4, Zenon DEF FileInv
  <2>12. (offset = End(Len(got)))'
    <3>1. PICK l \in Nat : l = Len(got')
      BY <2>1
    <3>2. offset' = l /\ End(l)' = l
      BY <1>4, <2>1, <2>2, <2>4, <3>1, SMTT(20)
    <3> QED BY <3>1, <3>2, Zenon DEF End
  <2> QED BY <1>4, <1>11, <2>10, <2>11, <2>12, SMTT(20) DEF UserInv, Forgotten
<1>12. ScanInv' /\ RoomInv'
  BY <1>4, Zenon DEF ScanInv, RoomInv
<1> QED BY <1>9, <1>10, <1>11, <1>12, SMTT(20) DEF ListInv

\* A snapshot that only adds leaves what the caller has a beginning.
LEMMA PublishStep ==
  ASSUME ListInv, NEW new \in Lists, Publish(new)
  PROVE  ListInv'
<1>1. /\ Volatile /\ list' = new /\ new \in Seq(Entries) /\ list \in Seq(Entries)
      /\ UNCHANGED <<kind, pc, buf, resid, pos, i, num, offset, result>>
  BY ReaddirAssumption, Zenon DEF Publish, uio, ListInv, Types
<1>2. steady' \in BOOLEAN /\ (steady' => steady)
      /\ (steady' => IsPrefix(list, new) \/ (pc = "user" /\ offset = 0 /\ got = <<>>))
  BY Zenon DEF Publish, ListInv, Types
<1>3. got' = IF steady' THEN got ELSE <<>>
  BY Zenon DEF Publish
<1>4. Types'
  <2>1. got' \in Seq([entry : Entries, seekoff : Nat])
    BY <1>3, EmptySeq, SMTT(20) DEF ListInv, Types
  <2> QED BY <1>1, <1>2, <2>1, Zenon DEF ListInv, Types
<1>5. ASSUME ~ steady' PROVE ListInv'
  <2>1. ScanInv' /\ RoomInv'
    BY <1>1, <1>5, Zenon DEF ListInv, ScanInv, RoomInv
  <2> QED BY <1>3, <1>4, <1>5, <2>1, SMTT(20)
          DEF ListInv, GotInv, UserInv, Forgotten, FileInv
<1>6. ASSUME steady' PROVE ListInv'
  <2>1. steady /\ got' = got /\ \A k : End(k)' = End(k)
    BY <1>2, <1>3, <1>6, SMTT(20) DEF End
  <2>2. UserInv' /\ ScanInv' /\ Forgotten' /\ FileInv' /\ RoomInv'
    BY <1>1, <1>6, <2>1, Zenon DEF ListInv, UserInv, ScanInv, Forgotten, FileInv, RoomInv, End
  <2>3. Len(Enumeration') \in Nat /\ Len(Enumeration) \in Nat /\ Len(got) \in Nat
    <3>1. Enumeration' \in Seq(Entries)
      BY <1>4, EnumerationNext, Zenon
    <3> QED BY <3>1, EnumerationType, LenProperties, Zenon DEF ListInv, Types
  <2>4. /\ Len(got) <= Len(Enumeration')
        /\ \A k \in 1 .. Len(got) : got[k].entry = Enumeration'[k]
    <3>1. CASE got = <<>>
      BY <2>3, <3>1, EmptySeq
    <3>2. CASE got # <<>>
      <4>1. IsPrefix(list, new) /\ FixedPart \in Seq(Entries) /\ FixedPart' = FixedPart
        BY <1>1, <1>2, <1>6, <3>2, FixedPartType, SMTT(20) DEF FixedPart
      <4>2. Enumeration = FixedPart \o list /\ Enumeration' = FixedPart \o new
        <5>1. Volatile' /\ list' \in Seq(Entries)
          BY <1>1, Zenon DEF Volatile
        <5>2. Enumeration' = FixedPart' \o list'
          BY <5>1, EnumerationNext, Zenon
        <5> QED BY <1>1, <4>1, <5>2, VolatileEnumeration, Zenon
      <4>3. /\ Len(Enumeration) <= Len(Enumeration')
            /\ \A k \in 1 .. Len(Enumeration) : Enumeration[k] = Enumeration'[k]
        <5>1. /\ Len(FixedPart \o list) <= Len(FixedPart \o new)
              /\ \A k \in 1 .. Len(FixedPart \o list) :
                   (FixedPart \o list)[k] = (FixedPart \o new)[k]
          <6>1. /\ FixedPart \in Seq(Entries) /\ list \in Seq(Entries) /\ new \in Seq(Entries)
                /\ IsPrefix(list, new)
            BY <1>1, <4>1, Zenon
          <6> QED BY ONLY <6>1, ConcatGrows
        <5> QED BY <4>2, <5>1, Zenon
      <4>4. /\ Len(got) <= Len(Enumeration)
            /\ \A k \in 1 .. Len(got) : got[k].entry = Enumeration[k]
        BY <2>1, Zenon DEF ListInv, GotInv
      <4> QED BY <2>3, <4>3, <4>4
    <3> QED BY <3>1, <3>2, Zenon
  <2>5. GotInv'
    <3>1. \A k \in 1 .. Len(got) : End(k) = End(k - 1) + SizeOf(got[k].entry)
      BY <2>1, Zenon DEF ListInv, GotInv
    <3>2. \A j, k \in 0 .. Len(got) : j < k => End(j) < End(k)
      BY <2>1, Zenon DEF ListInv, GotInv
    <3> QED BY <1>1, <2>1, <2>4, <3>1, <3>2, SMTT(20) DEF GotInv, SizeOf, End
  <2> QED BY <1>4, <2>2, <2>5, Zenon DEF ListInv
<1> QED BY <1>2, <1>5, <1>6, Zenon

LEMMA SeekStep ==
  ASSUME ListInv, NEW k \in 0 .. Len(got), Seek(k)
  PROVE  ListInv'
<1> DEFINE R == [entry : Entries, seekoff : Nat]
<1>1. got \in Seq(R) /\ Len(got) \in Nat /\ k \in Nat /\ k <= Len(got)
  BY LenProperties DEF ListInv, Types
<1>2. /\ got' = SubSeq(got, 1, k) /\ result' = "more" /\ pc = "user" /\ offset' = End(k)
      /\ UNCHANGED <<kind, list, pc, buf, resid, pos, i, num>>
      /\ steady' = (steady \/ k = 0)
  BY Zenon DEF Seek, uio, End
<1>3. got' \in Seq(R) /\ Len(got') = k /\ \A j \in 1 .. k : got'[j] = got[j]
  <2>1. \A j \in 1 .. k : got[j] \in R
    <3>1. \A j \in 1 .. k : j \in 1 .. Len(got)
      BY <1>1
    <3> QED BY <1>1, <3>1, ElementOfSeq, Zenon
  <2>2. /\ SubSeq(got, 1, k) \in Seq(R)
        /\ Len(SubSeq(got, 1, k)) = IF 1 <= k THEN k - 1 + 1 ELSE 0
        /\ \A j \in 1 .. k - 1 + 1 : SubSeq(got, 1, k)[j] = got[1 + j - 1]
    BY <1>1, <2>1, SubSeqProperties
  <2> QED BY <1>1, <1>2, <2>2
<1>4. \A j \in 0 .. k : End(j)' = End(j)
  BY <1>3 DEF End
<1>5. End(k) \in Nat
  <2>1. CASE k = 0
    BY <2>1 DEF End
  <2>2. CASE k # 0
    <3>1. got[k] \in R
      <4>1. k \in 1 .. Len(got)
        BY <1>1, <2>2
      <4> QED BY <1>1, <4>1, ElementOfSeq, Zenon
    <3> QED BY <2>2, <3>1, Zenon DEF End
  <2> QED BY <2>1, <2>2, Zenon
<1>6. Types'
  <2>1. steady' \in BOOLEAN
    BY <1>2
  <2> QED BY <1>2, <1>3, <1>5, <2>1, SMTT(20) DEF ListInv, Types
<1>7. (offset = End(Len(got)))'
  BY <1>1, <1>2, <1>3, <1>4, SMTT(20) DEF End
<1>8. ScanInv' /\ RoomInv' /\ UserInv'
  BY <1>2, <1>7, Zenon DEF ScanInv, RoomInv, UserInv
<1>9. ASSUME ~ steady PROVE got' = <<>> /\ Len(got') = 0
  BY <1>1, <1>3, <1>9, EmptySeq DEF ListInv, Forgotten
<1>10. Forgotten'
  BY <1>2, <1>9, Zenon DEF Forgotten
<1>11. Enumeration' = Enumeration /\ Len(Enumeration) \in Nat
  BY <1>2, EnumerationType, LenProperties, Zenon DEF Enumeration, ListInv
<1>12. FileInv'
  <2>1. CASE steady
    BY <1>1, <1>2, <1>3, <1>4, <2>1, SMTT(20) DEF ListInv, FileInv
  <2>2. CASE ~ steady
    BY <1>9, <2>2 DEF FileInv, End
  <2> QED BY <2>1, <2>2, Zenon
<1>13. GotInv'
  <2>1. CASE ~ steady
    BY <1>9, <1>11, <2>1, SMTT(20) DEF GotInv, End
  <2>2. CASE steady
    <3>1. k <= Len(Enumeration) /\ \A j \in 1 .. k : got'[j].entry = Enumeration[j]
      <4>1. /\ Len(got) <= Len(Enumeration)
            /\ \A j \in 1 .. Len(got) : got[j].entry = Enumeration[j]
        BY <2>2, Zenon DEF ListInv, GotInv
      <4>2. \A j \in 1 .. k : j \in 1 .. Len(got)
        BY <1>1
      <4>3. k <= Len(Enumeration)
        BY <1>1, <1>11, <4>1
      <4>4. ASSUME NEW j \in 1 .. k PROVE got'[j].entry = Enumeration[j]
        <5>1. got'[j] = got[j]
          BY <1>3
        <5>2. got[j].entry = Enumeration[j]
          BY <4>1, <4>2, Zenon
        <5> QED BY <5>1, <5>2, Zenon
      <4> QED BY <4>3, <4>4, Zenon
    <3>2. ASSUME NEW j \in 1 .. k PROVE End(j)' = End(j - 1)' + SizeOf(got'[j].entry)
      <4>1. j \in 1 .. Len(got) /\ j \in 0 .. k /\ j - 1 \in 0 .. k
        BY <1>1
      <4>2. End(j) = End(j - 1) + SizeOf(got[j].entry)
        BY <2>2, <4>1, Zenon DEF ListInv, GotInv
      <4> QED BY <1>3, <1>4, <4>1, <4>2, SMTT(20)
    <3>3. \A j, l \in 0 .. k : j < l => End(j)' < End(l)'
      <4>1. \A j, l \in 0 .. Len(got) : j < l => End(j) < End(l)
        BY <2>2, Zenon DEF ListInv, GotInv
      <4>2. \A j \in 0 .. k : j \in 0 .. Len(got)
        BY <1>1
      <4> QED BY <1>4, <4>1, <4>2, SMTT(20)
    <3> QED BY <1>2, <1>3, <1>11, <3>1, <3>2, <3>3, SMTT(20) DEF GotInv, SizeOf
  <2> QED BY <2>1, <2>2, Zenon
<1> QED BY <1>6, <1>8, <1>10, <1>12, <1>13, SMTT(20) DEF ListInv

LEMMA NextList == ListInv /\ [Next]_vars => ListInv'
<1> SUFFICES ASSUME ListInv, [Next]_vars PROVE ListInv'
  BY Zenon
<1>1. ASSUME NEW b \in Bufs, Call(b) PROVE ListInv'
  BY <1>1, CallStep, Zenon
<1>2. ASSUME NEW b \in Bufs, Read(b) PROVE ListInv'
  BY <1>2, ReadStep, Zenon
<1>3. CASE Leave \/ NoRoom \/ CopyOutFails
  <2>1. Exhausted \in BOOLEAN
    BY Zenon DEF Exhausted
  <2> QED BY <1>3, <2>1, ReturnStep, Zenon DEF Leave, NoRoom, CopyOutFails
<1>4. CASE Skip
  BY <1>4, SkipStep, Zenon
<1>5. CASE CopyOut
  BY <1>5, CopyOutStep, Zenon
<1>6. ASSUME NEW new \in Lists, Publish(new) PROVE ListInv'
  BY <1>6, PublishStep, Zenon
<1>7. ASSUME NEW k \in 0 .. Len(got), Seek(k) PROVE ListInv'
  BY <1>7, SeekStep, SMTT(20)
<1>8. CASE UNCHANGED vars
  <2>1. GotInv' /\ Forgotten' /\ FileInv'
    BY <1>8, GotFrame, Zenon DEF vars
  <2> QED BY <1>8, <2>1, Zenon DEF vars, ListInv, Types, UserInv, ScanInv, RoomInv, End
<1> QED BY <1>1, <1>2, <1>3, <1>4, <1>5, <1>6, <1>7, <1>8, Zenon DEF Next, Scan

LEMMA ListInvariant == Spec => []ListInv
  BY InitList, NextList, PTL DEF Spec

-------------------------------------------------------------------------------
(* The theorems.                                                            *)

(* However the readdir loops are cut into calls, by buffers of any sizes and  *)
(* by lseek() to any d_seekoff, what the caller has is the beginning of the   *)
(* directory: the sizes added up by the skipping loop are the d_seekoff that  *)
(* were handed out.                                                           *)
THEOREM NothingTwiceNothingLost == Spec => []ListedOnce
<1>1. ListInv => ListedOnce
  <2> SUFFICES ASSUME ListInv, steady
               PROVE  IsPrefix([k \in DOMAIN got |-> got[k].entry], Enumeration)
    BY Zenon DEF ListedOnce
  <2>1. PICK n \in Nat : n = Len(got) /\ DOMAIN got = 1 .. n
    BY LenProperties, Zenon DEF ListInv, Types
  <2> DEFINE names == [k \in 1 .. n |-> got[k].entry]
  <2>2. \A k \in 1 .. n : got[k].entry \in Entries
    <3>1. \A k \in 1 .. n : got[k] \in [entry : Entries, seekoff : Nat]
      BY <2>1, ElementOfSeq, Zenon DEF ListInv, Types
    <3> QED BY <3>1, Zenon
  <2>3. names \in Seq(Entries) /\ Len(names) = n
    BY <2>2, IsASeq
  <2>4. n <= Len(Enumeration) /\ \A k \in 1 .. n : names[k] = Enumeration[k]
    BY <2>1, Zenon DEF ListInv, GotInv
  <2>5. Enumeration \in Seq(Entries)
    BY EnumerationType, Zenon DEF ListInv
  <2> HIDE DEF names
  <2>6. IsPrefix(names, Enumeration)
    BY <2>3, <2>4, <2>5, PrefixElements, Zenon
  <2> QED BY <2>1, <2>6, Zenon DEF names
<1> QED BY <1>1, ListInvariant, PTL

(* a_eofflag, and a read of no bytes, are the end: the caller then has all    *)
(* that the current snapshot lists.                                           *)
THEOREM EndIsTheEnd == Spec => EndMeansAll
<1>1. ASSUME ListInv, Next, result # "eof", result' = "eof", steady
      PROVE  Len(got) = Len(Enumeration)
  <2>1. Len(got) \in Nat /\ Len(Enumeration) \in Nat /\ Len(got) <= Len(Enumeration)
    BY <1>1, EnumerationType, LenProperties, Zenon DEF ListInv, Types, GotInv
  <2>2. CASE Leave
    <3>1. AtEnd /\ i \in Nat /\ i <= Len(got)
      BY <1>1, <2>2, Zenon DEF Leave, Return, Exhausted, ListInv, ScanInv, Types
    <3> QED BY <2>1, <3>1 DEF AtEnd
  <2>3. ASSUME NEW b \in Bufs, Read(b) PROVE Len(got) = Len(Enumeration)
    <3>1. b \in Nat /\ b > 0 /\ offset \in Nat /\ Len(list) \in Nat /\ Enumeration = list
      BY <1>1, <2>3, ReaddirAssumption, LenProperties, SMTT(20)
      DEF Read, ListInv, Types, Enumeration
    <3>2. offset >= Len(list)
      BY <1>1, <2>3, <3>1, SMTT(20) DEF Read
    <3>3. offset = End(Len(got)) /\ End(Len(got)) = Len(got)
      BY <1>1, <2>1, <2>3 DEF Read, ListInv, UserInv, FileInv
    <3> QED BY <2>1, <3>1, <3>2, <3>3, SMTT(20)
  <2>4. ~ NoRoom /\ ~ CopyOutFails /\ ~ Skip /\ ~ CopyOut
    BY <1>1, Zenon DEF NoRoom, CopyOutFails, Return, Skip, CopyOut
  <2>5. /\ \A b \in Bufs : ~ Call(b)
        /\ \A new \in Lists : ~ Publish(new)
        /\ \A k \in 0 .. Len(got) : ~ Seek(k)
    BY <1>1, Zenon DEF Call, Publish, Seek
  <2> QED BY <1>1, <2>2, <2>3, <2>4, <2>5, SMTT(20) DEF Next, Scan
<1>2. ListInv /\ [Next]_vars
        => [(result # "eof" /\ result' = "eof" /\ steady)
              => Len(got) = Len(Enumeration)]_vars
  BY <1>1, Zenon
<1> QED BY <1>2, ListInvariant, PTL DEF Spec, EndMeansAll

(* A call that ends without an error and without the end has moved the offset *)
(* on.  ScanEnds rests on it: the caller who loops does not spin.             *)
THEOREM CallsAdvance ==
  Spec => [][(pc = "scan" /\ pc' = "user" /\ result' = "more") => offset' > offset]_vars
<1>1. ASSUME ListInv, Next, pc = "scan", pc' = "user", result' = "more"
      PROVE  offset' > offset
  <2>1. CASE Leave \/ NoRoom \/ CopyOutFails
    <3>1. offset' = pos /\ num > 0
      BY <1>1, <2>1, Zenon DEF Leave, NoRoom, CopyOutFails, Return
    <3> QED BY <1>1, <3>1, Zenon DEF ListInv, RoomInv
  <2>2. ~ Skip /\ ~ CopyOut
    BY <1>1, Zenon DEF Skip, CopyOut
  <2>3. /\ \A b \in Bufs : ~ Call(b) /\ ~ Read(b)
        /\ \A new \in Lists : ~ Publish(new)
        /\ \A k \in 0 .. Len(got) : ~ Seek(k)
    BY <1>1, Zenon DEF Call, Read, Publish, Seek
  <2> QED BY <1>1, <2>1, <2>2, <2>3, Zenon DEF Next, Scan
<1>2. ListInv /\ [Next]_vars
        => [(pc = "scan" /\ pc' = "user" /\ result' = "more") => offset' > offset]_vars
  BY <1>1, Zenon
<1> QED BY <1>2, ListInvariant, PTL DEF Spec

-------------------------------------------------------------------------------
(* EINVAL.                                                                  *)

Listed == list \in Lists \cup {<<>>} /\ kind \in Kinds

EinvalInv == Listed /\ BigBufferSuffices

\* Every loop finds its entries in what the directory, the attribute tables and
\* the snapshots hold; "." is one of them.
LEMMA EntryListed == ASSUME Types, Listed, ~ AtEnd PROVE e \in AllEntries
<1> DEFINE in(s) == \A k \in 1 .. Len(s) : s[k] \in AllEntries
<1>1. \A s \in Lists \cup {Static, DevStatic, DevAttrs, ModAttrs} : in(s)
  <2>1. ASSUME NEW s \in Lists \cup {Static, DevStatic, DevAttrs, ModAttrs} PROVE in(s)
    <3>1. s \in Seq(Entries)
      BY ReaddirAssumption, Zenon
    <3>2. \A k \in 1 .. Len(s) : s[k] \in ToSet(s)
      BY <3>1, LenProperties DEF ToSet
    <3> QED BY <3>2, Zenon DEF AllEntries
  <2> QED BY <2>1, Zenon
<1>2. in(Dots)
  <2>1. Dots \in Seq(Entries) /\ Static \in Seq(Entries) /\ IsPrefix(Dots, Static)
    BY ReaddirAssumption, Zenon
  <2>2. Len(Dots) <= Len(Static) /\ \A k \in 1 .. Len(Dots) : Dots[k] = Static[k]
    BY <2>1, PrefixElements
  <2>3. Len(Dots) \in Nat /\ Len(Static) \in Nat
    BY <2>1, LenProperties, Zenon
  <2>4. \A k \in 1 .. Len(Dots) : k \in 1 .. Len(Static)
    BY <2>2, <2>3
  <2> QED BY <1>1, <2>2, <2>4, Zenon
<1>3. in(list)
  <2>1. CASE list = <<>>
    BY <2>1, EmptySeq
  <2> QED BY <1>1, <2>1, Zenon DEF Listed
<1>4. ASSUME NEW a \in Seq(Entries), NEW b \in Seq(Entries), in(a), in(b) PROVE in(a \o b)
  <2>1. Len(a) \in Nat /\ Len(b) \in Nat
    BY LenProperties, Zenon
  <2>2. /\ Len(a \o b) = Len(a) + Len(b)
        /\ \A k \in 1 .. Len(a) + Len(b) :
             (a \o b)[k] = IF k <= Len(a) THEN a[k] ELSE b[k - Len(a)]
    BY ConcatProperties, Zenon
  <2>3. ASSUME NEW k \in 1 .. Len(a \o b) PROVE (a \o b)[k] \in AllEntries
    <3>1. CASE k <= Len(a)
      BY <1>4, <2>1, <2>2, <3>1
    <3>2. CASE ~ (k <= Len(a))
      <4>1. k - Len(a) \in 1 .. Len(b)
        BY <2>1, <2>2, <3>2
      <4> QED BY <1>4, <2>2, <3>2, <4>1, Zenon
    <3> QED BY <3>1, <3>2, Zenon
  <2> QED BY <2>3, Zenon
<1> HIDE DEF in
<1>5. /\ Dots \in Seq(Entries) /\ Static \in Seq(Entries) /\ DevStatic \in Seq(Entries)
      /\ DevAttrs \in Seq(Entries) /\ ModAttrs \in Seq(Entries) /\ list \in Seq(Entries)
  BY ReaddirAssumption, Zenon DEF Types
<1>6. /\ Dots \o DevStatic \in Seq(Entries) /\ in(Dots \o DevStatic)
      /\ Dots \o DevAttrs \in Seq(Entries) /\ in(Dots \o DevAttrs)
      /\ in(Dots \o list) /\ in(Dots \o ModAttrs) /\ in(Static)
  <2>1. in(DevStatic) /\ in(DevAttrs) /\ in(ModAttrs) /\ in(Static)
    BY <1>1, Zenon
  <2>2. Dots \o DevStatic \in Seq(Entries) /\ Dots \o DevAttrs \in Seq(Entries)
    BY <1>5, ConcatProperties, Zenon
  <2> QED BY <1>2, <1>3, <1>4, <1>5, <2>1, <2>2, SMTT(20)
<1>7. in((Dots \o DevStatic) \o list) /\ in((Dots \o DevAttrs) \o list)
  BY <1>3, <1>4, <1>5, <1>6, Zenon
<1>8. in(Enumeration)
  BY <1>3, <1>6, <1>7, Zenon DEF Enumeration, Listed, Kinds
<1>9. i + 1 \in 1 .. Len(Enumeration)
  BY EnumerationType, LenProperties DEF AtEnd, Types
<1> QED BY <1>8, <1>9, Zenon DEF in, e

LEMMA DotListed == \E x \in AllEntries : x.len \in Nat
<1>1. Dots \in Seq(Entries) /\ Static \in Seq(Entries) /\ IsPrefix(Dots, Static)
  BY ReaddirAssumption
<1>2. Len(Dots) = 2 /\ Len(Static) \in Nat
  BY <1>1, DotsType, LenProperties, Zenon
<1>3. 1 \in 1 .. Len(Static)
  BY <1>1, <1>2, PrefixElements
<1>4. Static[1] \in ToSet(Static) /\ Static[1] \in Entries
  BY <1>1, <1>3, ElementOfSeq, LenProperties, Zenon DEF ToSet
<1>5. Static[1] \in AllEntries
  BY <1>4, Zenon DEF AllEntries
<1> QED BY <1>4, <1>5, Zenon DEF Entries

(* EINVAL only ever says that an entry is longer than the caller's buffer,    *)
(* whatever snapshots are published while the call runs.                      *)
THEOREM EinvalMeansTooSmall == Spec => []BigBufferSuffices
<1>1. Init => EinvalInv
  BY Zenon DEF Init, EinvalInv, Listed, Kinds, BigBufferSuffices
<1>2. ListInv /\ EinvalInv /\ [Next]_vars => EinvalInv'
  <2> SUFFICES ASSUME ListInv, EinvalInv, [Next]_vars PROVE EinvalInv'
    OBVIOUS
  <2>1. ASSUME Leave \/ NoRoom \/ CopyOutFails PROVE EinvalInv'
    <3>1. UNCHANGED <<kind, list, buf>> /\ Listed'
      BY <2>1, Zenon DEF Leave, NoRoom, CopyOutFails, Return, uio, EinvalInv, Listed
    <3> SUFFICES ASSUME result' = "EINVAL"
                 PROVE  \E x \in AllEntries : buf < CalcDirentSize(x.len)
      BY <3>1, Zenon DEF EinvalInv, BigBufferSuffices
    <3>2. pc = "scan" /\ ~ CopyOutFails /\ ~ (num > 0)
      BY <2>1, Zenon DEF Leave, NoRoom, CopyOutFails, Return
    <3>3. resid = buf /\ resid \in Int /\ kind # "file"
      BY <3>2 DEF ListInv, Types, RoomInv, ScanInv
    <3>4. CASE Leave
      <4>1. resid <= 0
        <5>1. ~ Exhausted /\ (AtEnd \/ BufferFull)
          BY <3>4, Zenon DEF Leave, Return
        <5> QED BY <3>3, <5>1 DEF Exhausted, BufferFull
      <4>2. PICK x \in AllEntries : x.len \in Nat
        BY DotListed, Zenon
      <4> QED BY <3>3, <4>1, <4>2, SizePositive
    <3>5. CASE NoRoom
      <4>1. e \in AllEntries /\ ~ (SizeOf(e) <= resid)
        BY <3>5, EntryListed, Zenon DEF NoRoom, Fits, ListInv, EinvalInv
      <4>2. SizeOf(e) = CalcDirentSize(e.len) /\ SizeOf(e) \in Nat
        BY <3>3, <3>5, EntryType, SizeOfPositive, Zenon DEF SizeOf, NoRoom, ListInv
      <4> QED BY <3>3, <4>1, <4>2
    <3> QED BY <2>1, <3>2, <3>4, <3>5, Zenon
  <2>2. ASSUME Skip \/ CopyOut \/ UNCHANGED vars PROVE EinvalInv'
    BY <2>2, Zenon DEF Skip, CopyOut, vars, EinvalInv, Listed, BigBufferSuffices
  <2>3. ASSUME NEW b \in Bufs, Call(b) \/ Read(b) PROVE EinvalInv'
    <3>1. result' # "EINVAL"
      BY <2>3, Zenon DEF Call, Read
    <3> QED BY <2>3, <3>1, SMTT(20) DEF Call, Read, EinvalInv, Listed, BigBufferSuffices
  <2>4. ASSUME NEW new \in Lists, Publish(new) PROVE EinvalInv'
    BY <2>4, Zenon DEF Publish, uio, EinvalInv, Listed, BigBufferSuffices
  <2>5. ASSUME NEW k \in 0 .. Len(got), Seek(k) PROVE EinvalInv'
    BY <2>5, Zenon DEF Seek, EinvalInv, Listed, BigBufferSuffices
  <2> QED BY <2>1, <2>2, <2>3, <2>4, <2>5, SMTT(20) DEF Next, Scan
<1>3. EinvalInv => BigBufferSuffices
  BY Zenon DEF EinvalInv
<1> QED BY <1>1, <1>2, <1>3, ListInvariant, PTL, SMTT(20) DEF Spec
===============================================================================
