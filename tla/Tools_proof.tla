------------------------------ MODULE Tools_proof ------------------------------
(***************************************************************************)
(* The sequential programs and functions, for all values of their          *)
(* constants: the inductive invariants of the copying of a file and of     *)
(* go-envdir; and the queries of the calendar, Validate and the functions  *)
(* on texts, whose folds over a sequence are followed step by step through *)
(* the sets of the first places.                                           *)
(***************************************************************************)
EXTENDS MCTools, SequenceTheorems, FiniteSetTheorems, WellFoundedInduction, TLAPS

(**************************************************************************)
(* The copying of a file, hw07.                                           *)
(**************************************************************************)

\* The arguments have their types; those of a call that goes on are paths and natural
\* numbers.
LEMMA ArgsType ==
  ASSUME CopyTypeOK
  PROVE  /\ args.from \in Paths \cup {NoPath} /\ args.to \in Paths \cup {NoPath}
         /\ args.offset \in Int /\ args.limit \in Int
         /\ ValidParams(args) =>
              args.from \in Paths /\ args.to \in Paths /\ args.offset \in Nat /\ args.limit \in Nat
<1>1. /\ args.from \in Paths \cup {NoPath} /\ args.to \in Paths \cup {NoPath}
      /\ args.offset \in Offsets /\ args.limit \in Limits
  BY DEF CopyTypeOK, Args
<1>2. args.offset \in Int /\ args.limit \in Int
  BY <1>1, FlagsAssumption
<1>3. ASSUME ValidParams(args)
      PROVE  args.from \in Paths /\ args.to \in Paths /\ args.offset \in Nat /\ args.limit \in Nat
  <2>1. args.from # NoPath /\ args.to # NoPath /\ args.offset >= 0 /\ args.limit >= 0
    BY <1>3 DEF ValidParams
  <2> QED
    BY <1>1, <1>2, <2>1
<1> QED
  BY <1>1, <1>2, <1>3

\* The length is what the limit leaves of the bytes behind the offset.
LEMMA LengthIs ==
  ASSUME NEW size \in Nat, NEW offset \in Nat, NEW limit \in Nat, offset <= size
  PROVE  /\ RealLimit(size, offset, limit) \in Nat
         /\ offset + RealLimit(size, offset, limit) <= size
BY DEF RealLimit

\* The inductive invariant of Copy holds at the start.
LEMMA CopyInitInv == CopyInit => CopyInv
<1> SUFFICES ASSUME CopyInit PROVE CopyInv
  OBVIOUS
<1>1. CopyTypeOK
  BY ContentsAssumption DEF CopyInit, CopyTypeOK
<1>2. SourceInv /\ TargetInv /\ RefusesOnlyInvalid
  BY DEF CopyInit, SourceInv, TargetInv, RefusesOnlyInvalid, Selected
<1> QED
  BY <1>1, <1>2 DEF CopyInv

\* Only a call with a parameter missing or negative is refused here.
LEMMA ValidateStep ==
  ASSUME CopyInv, ValidateParams
  PROVE  CopyInv'
BY DEF CopyInv, ValidateParams, CopyTypeOK, SourceInv, TargetInv, RefusesOnlyInvalid, Selected,
   Length, Args

\* The range to copy lies in the file as it was measured.
LEMMA StatStep ==
  ASSUME CopyInv, Stat
  PROVE  CopyInv'
<1> DEFINE file == files[args.from]
           unusable == Unsupported(file) \/ args.offset > Size(file)
<1>1. /\ copy = "stat" /\ original' = file
      /\ UNCHANGED <<files, args, position, touched>>
      /\ unusable => copy' = "refused" /\ n' = n
      /\ ~unusable => copy' = "open" /\ n' = RealLimit(Size(file), args.offset, args.limit)
  BY DEF Stat, StatOf
<1>2. ValidParams(args) /\ args.from \in Paths /\ args.offset \in Nat /\ args.limit \in Nat
  BY <1>1, ArgsType DEF CopyInv, SourceInv
<1>3. CASE unusable
  <2>1. CopyTypeOK' /\ SourceInv' /\ TargetInv'
    BY <1>1, <1>3 DEF CopyInv, CopyTypeOK, SourceInv, TargetInv, Selected, Args
  <2>2. RefusesOnlyInvalid'
    BY <1>1, <1>3 DEF RefusesOnlyInvalid, Unsupported
  <2> QED
    BY <2>1, <2>2 DEF CopyInv, RefusesOnlyInvalid
<1>4. CASE ~unusable
  <2>1. file \in Seq(Nat) /\ args.offset <= Size(file) /\ Size(file) \in Nat
    <3>1. file \in Seq(Nat)
      BY <1>2, <1>4 DEF CopyInv, CopyTypeOK, Unsupported
    <3> QED
      BY <1>2, <1>4, <3>1, LenProperties DEF Size
  <2>2. n' \in Nat
    <3>1. n' = RealLimit(Size(file), args.offset, args.limit)
      BY <1>1, <1>4
    <3> HIDE DEF file
    <3> QED
      BY <1>2, <2>1, <3>1, LengthIs
  <2>3. CopyTypeOK'
    BY <1>1, <1>4, <2>2 DEF CopyInv, CopyTypeOK, Args
  <2>4. SourceInv'
    BY <1>1, <1>2, <1>4, <2>1 DEF SourceInv, Selected, ValidParams
  <2>5. TargetInv'
    BY <1>1, <1>4 DEF TargetInv, Length
  <2>6. RefusesOnlyInvalid'
    BY <1>1, <1>4 DEF RefusesOnlyInvalid
  <2> QED
    BY <2>3, <2>4, <2>5, <2>6 DEF CopyInv
<1> QED
  BY <1>3, <1>4

\* A step that only decides how Copy goes on.
LEMMA OpenSourceStep ==
  ASSUME CopyInv, OpenSource
  PROVE  CopyInv'
<1>1. args.from \in Paths
  BY ArgsType DEF CopyInv, SourceInv, OpenSource
<1> QED
  BY <1>1 DEF CopyInv, OpenSource, CopyTypeOK, SourceInv, TargetInv, RefusesOnlyInvalid, Selected,
     Length, Args, ValidParams

\* A failed copy says nothing of the target.
LEMMA FailStep ==
  ASSUME CopyInv, CreateFails \/ TargetFails
  PROVE  CopyInv'
BY DEF CopyInv, CreateFails, TargetFails, CopyTypeOK, SourceInv, TargetInv, RefusesOnlyInvalid, Selected,
   Length, Args, ValidParams

\* The target starts empty; with it goes the source, when they are the same file.
LEMMA CreateStep ==
  ASSUME CopyInv, CreateTarget
  PROVE  CopyInv'
<1>1. /\ copy = "create" /\ copy' = "copying" /\ position' = args.offset
      /\ files' = [files EXCEPT ![args.to] = <<>>]
      /\ UNCHANGED <<args, n, original, touched>>
  BY DEF CreateTarget
<1>2. /\ ValidParams(args) /\ args.from \in Paths /\ args.to \in Paths
      /\ args.offset \in Nat /\ args.limit \in Nat
  BY <1>1, ArgsType DEF CopyInv, SourceInv
<1>3. /\ files'[args.to] = <<>> /\ <<>> \in Seq(Nat) /\ DOMAIN files' = Paths
      /\ \A p \in Paths : p # args.to => files'[p] = files[p]
  BY <1>1, <1>2 DEF CopyInv, CopyTypeOK
<1>4. CopyTypeOK'
  BY <1>1, <1>2, <1>3 DEF CopyInv, CopyTypeOK, Args
<1>5. SourceInv'
  BY <1>1, <1>2, <1>3 DEF CopyInv, SourceInv, Selected, ValidParams
<1>6. TargetInv'
  <2>1. Size(<<>>) = 0
    BY EmptySeq DEF Size
  <2>2. SubSeq(original, args.offset + 1, args.offset) = <<>>
    BY <1>2, SubSeqEmpty
  <2>3. original \in Seq(Nat) /\ args.offset <= Size(original) /\ Size(original) \in Nat
    BY <1>1, LenProperties DEF CopyInv, SourceInv, Selected, Size
  <2>4. n = Length /\ Length \in Nat
    BY <1>1, <1>2, <2>3, LengthIs DEF CopyInv, TargetInv, Length
  <2>5. Length' = Length
    BY <1>1 DEF Length
  <2> QED
    BY <1>1, <1>2, <1>3, <2>1, <2>2, <2>4, <2>5 DEF TargetInv
<1>7. RefusesOnlyInvalid'
  BY <1>1 DEF RefusesOnlyInvalid
<1> QED
  BY <1>4, <1>5, <1>6, <1>7 DEF CopyInv

\* The next byte is the one at the source's position.
LEMMA ByteStep ==
  ASSUME CopyInv, CopyByte
  PROVE  CopyInv'
<1> DEFINE byte == files[args.from][position + 1]
           grown == Append(files[args.to], byte)
<1>1. /\ copy = "copying" /\ n > 0 /\ position < Size(files[args.from])
      /\ files' = [files EXCEPT ![args.to] = grown]
      /\ position' = position + 1 /\ n' = n - 1
      /\ UNCHANGED <<copy, args, original, touched>>
  BY DEF CopyByte
<1>2. /\ ValidParams(args) /\ args.from \in Paths /\ args.to \in Paths
      /\ args.offset \in Nat /\ args.limit \in Nat
      /\ n \in Nat /\ position \in Nat
  BY <1>1, ArgsType DEF CopyInv, SourceInv, CopyTypeOK
<1>3. files[args.from] \in Seq(Nat) /\ files[args.to] \in Seq(Nat)
  BY <1>1 DEF CopyInv, SourceInv, TargetInv
<1>4. byte \in Nat
  <2>1. position + 1 \in 1..Len(files[args.from])
    BY <1>1, <1>2, <1>3, LenProperties DEF Size
  <2> QED
    BY <1>3, <2>1, ElementOfSeq
<1> HIDE DEF byte
<1>5. /\ grown \in Seq(Nat) /\ Size(grown) = Size(files[args.to]) + 1
      /\ Size(files[args.to]) \in Nat
  BY <1>3, <1>4, AppendProperties, LenProperties DEF Size
<1> HIDE DEF grown
<1>6. /\ files'[args.to] = grown /\ DOMAIN files' = Paths
      /\ \A p \in Paths : p # args.to => files'[p] = files[p]
  BY <1>1, <1>2 DEF CopyInv, CopyTypeOK
<1>7. CopyTypeOK'
  BY <1>1, <1>2, <1>5, <1>6 DEF CopyInv, CopyTypeOK, Args
<1>8. SourceInv'
  BY <1>1, <1>2, <1>5, <1>6 DEF CopyInv, SourceInv, Selected, ValidParams
<1>9. TargetInv'
  <2>1. files'[args.to] \in Seq(Nat)
    BY <1>5, <1>6
  <2>2. ASSUME args.from # args.to
        PROVE  /\ position' = args.offset + Size(files'[args.to])
               /\ n' = Length - Size(files'[args.to])
    <3>1. /\ position = args.offset + Size(files[args.to])
          /\ n = Length - Size(files[args.to])
      BY <1>1, <2>2 DEF CopyInv, TargetInv
    <3>2. Length \in Nat
      BY <1>1, <1>2, LengthIs, LenProperties DEF CopyInv, SourceInv, Selected, Length, Size
    <3>3. Size(files'[args.to]) = Size(files[args.to]) + 1 /\ Size(files[args.to]) \in Nat
      BY <1>5, <1>6
    <3>4. position' = position + 1 /\ n' = n - 1
      BY <1>1
    <3> HIDE DEF Length
    <3> QED
      BY <1>2, <3>1, <3>2, <3>3, <3>4
  <2>3. ASSUME args.from # args.to, ~touched
        PROVE  files'[args.to] = SubSeq(original, args.offset + 1, position')
    <3>1. /\ files[args.from] = original
          /\ files[args.to] = SubSeq(original, args.offset + 1, position)
          /\ position = args.offset + Size(files[args.to])
      BY <1>1, <2>3 DEF CopyInv, SourceInv, TargetInv, Selected
    <3>2. /\ args.offset + 1 \in 1..Len(original)
          /\ position + 1 \in (args.offset + 1)..Len(original)
      <4>1. position < Len(original) /\ Len(original) \in Nat
        BY <1>1, <1>3, <3>1, LenProperties DEF Size
      <4>2. position >= args.offset
        BY <1>2, <1>5, <3>1
      <4> QED
        BY <1>2, <4>1, <4>2
    <3>3. SubSeq(original, args.offset + 1, position + 1)
            = SubSeq(original, args.offset + 1, (position + 1) - 1) \o <<original[position + 1]>>
      BY <1>3, <3>1, <3>2, SubSeqRecursiveSecond
    <3>4. grown = files[args.to] \o <<byte>>
      BY <1>3, <1>4, AppendIsConcat DEF grown
    <3>5. byte = original[position + 1] /\ (position + 1) - 1 = position
      BY <1>2, <3>1 DEF byte
    <3> QED
      BY <1>1, <1>6, <3>1, <3>3, <3>4, <3>5
  <2>4. Length' = Length
    BY <1>1 DEF Length
  <2> QED
    BY <1>1, <2>1, <2>2, <2>3, <2>4 DEF TargetInv
<1>10. RefusesOnlyInvalid'
  BY <1>1 DEF RefusesOnlyInvalid
<1> QED
  BY <1>7, <1>8, <1>9, <1>10 DEF CopyInv

\* The loop ends when everything was copied, or at an earlier end of the source.
LEMMA EndsStep ==
  ASSUME CopyInv, CopyEnds
  PROVE  CopyInv'
<1>1. CopyTypeOK'
  BY DEF CopyInv, CopyEnds, CopyTypeOK, Args
<1>2. SourceInv'
  BY DEF CopyInv, CopyEnds, SourceInv, Selected, ValidParams
<1>3. TargetInv'
  BY DEF CopyInv, CopyEnds, TargetInv, Length
<1>4. RefusesOnlyInvalid'
  BY DEF CopyInv, CopyEnds, SourceInv, Selected, RefusesOnlyInvalid, ValidParams
<1> QED
  BY <1>1, <1>2, <1>3, <1>4 DEF CopyInv

\* Whatever another process makes of the source, it leaves the target.
LEMMA WriterStep ==
  ASSUME CopyInv, SourceRemoved \/ \E content \in Contents : SourceChanges(content)
  PROVE  CopyInv'
<1>1. PICK content \in Contents \cup {NoFile} :
        /\ copy \in {"open", "create", "copying"} /\ args.from # args.to
        /\ content = NoFile => copy = "open"
        /\ files' = [files EXCEPT ![args.from] = content] /\ touched' = TRUE
        /\ UNCHANGED <<copy, args, n, position, original>>
  BY ContentsAssumption DEF SourceRemoved, SourceChanges
<1>2. /\ ValidParams(args) /\ args.from \in Paths /\ args.to \in Paths
  BY <1>1, ArgsType DEF CopyInv, SourceInv
<1>3. /\ files'[args.from] = content /\ DOMAIN files' = Paths
      /\ \A p \in Paths : p # args.from => files'[p] = files[p]
      /\ content \in Seq(Nat) \/ content = NoFile
  BY <1>1, <1>2, ContentsAssumption DEF CopyInv, CopyTypeOK
<1>4. CopyTypeOK'
  BY <1>1, <1>2, <1>3 DEF CopyInv, CopyTypeOK, Args
<1>5. SourceInv'
  BY <1>1, <1>2, <1>3 DEF CopyInv, SourceInv, Selected, ValidParams
<1>6. TargetInv'
  <2>1. files'[args.to] = files[args.to] /\ Length' = Length
    BY <1>1, <1>2, <1>3 DEF Length
  <2> QED
    BY <1>1, <2>1 DEF CopyInv, TargetInv
<1>7. RefusesOnlyInvalid'
  BY <1>1 DEF RefusesOnlyInvalid
<1> QED
  BY <1>4, <1>5, <1>6, <1>7 DEF CopyInv

\* A step that leaves the copy's variables alone leaves its invariant alone.
LEMMA CopyStutter ==
  ASSUME CopyInv, UNCHANGED copyVars
  PROVE  CopyInv'
BY DEF copyVars, CopyInv, CopyTypeOK, SourceInv, TargetInv, RefusesOnlyInvalid, Selected, Length,
   Args, ValidParams

\* Every step keeps the invariant.
LEMMA CopyStep == CopyInv /\ [CopyNext]_copyVars => CopyInv'
BY ValidateStep, StatStep, OpenSourceStep, FailStep, CreateStep, ByteStep, EndsStep, WriterStep,
   CopyStutter DEF CopyNext

\* The inductive invariant of Copy holds always.
THEOREM CopyInvariance == CopySpec => []CopyInv
<1> QED
  BY CopyInitInv, CopyStep, PTL DEF CopySpec

\* What a copy that was reported done holds, in one state.
LEMMA CopiedRight ==
  ASSUME CopyInv
  PROVE  CopyIsRight
<1>1. CopiesAsAsked /\ CopyIsBounded
  <2> SUFFICES ASSUME copy = "copied", args.from # args.to
               PROVE  /\ ~touched => files[args.to] = Asked(original)
                      /\ Size(files[args.to]) <= Size(Asked(original))
                      /\ Size(files[args.to]) < Size(Asked(original)) =>
                           (touched /\ Size(files[args.from]) < Size(original))
    BY DEF CopiesAsAsked, CopyIsBounded
  <2>1. /\ args.offset \in Nat /\ args.limit \in Nat /\ n \in Nat /\ position \in Nat
    BY ArgsType DEF CopyInv, SourceInv, CopyTypeOK
  <2> DEFINE size == Size(original)
             offset == args.offset
             copied == Size(files[args.to])
             left == Size(files[args.from])
  <2>2. /\ original \in Seq(Nat) /\ size \in Nat /\ offset <= size
        /\ files[args.to] \in Seq(Nat) /\ copied \in Nat
        /\ files[args.from] \in Seq(Nat) /\ left \in Nat
        /\ ~touched => files[args.from] = original
    BY LenProperties DEF CopyInv, SourceInv, TargetInv, Selected, Size
  <2>3. /\ position = offset + copied /\ n = Length - copied
        /\ ~touched => files[args.to] = SubSeq(original, offset + 1, position)
        /\ n = 0 \/ position >= left
    BY DEF CopyInv, TargetInv
  <2>4. /\ Length \in Nat /\ offset + Length <= size
        /\ offset + Length = LET last == IF args.limit = 0 THEN size ELSE offset + args.limit
                             IN  IF last > size THEN size ELSE last
    <3>1. Length = RealLimit(size, offset, args.limit) /\ offset \in Nat /\ args.limit \in Nat
      BY <2>1 DEF Length
    <3> DEFINE limit == args.limit
    <3> HIDE DEF size, offset, limit
    <3>2. /\ RealLimit(size, offset, limit) \in Nat
          /\ offset + RealLimit(size, offset, limit) <= size
          /\ offset + RealLimit(size, offset, limit)
               = LET last == IF limit = 0 THEN size ELSE offset + limit
                 IN  IF last > size THEN size ELSE last
      <4>1. size \in Nat /\ offset \in Nat /\ limit \in Nat /\ offset <= size
        BY <2>2, <3>1 DEF limit
      <4> QED
        BY <4>1 DEF RealLimit
    <3> QED
      BY <3>1, <3>2 DEF limit
  <2>5. Asked(original) = SubSeq(original, offset + 1, offset + Length)
    BY <2>4, Zenon DEF Asked
  <2>6. Size(Asked(original)) = Length
    <3> HIDE DEF Length
    <3>1. offset + 1 \in Int /\ offset + Length \in Int /\ offset \in Nat
      BY <2>1, <2>4
    <3>2. \A i \in (offset + 1)..(offset + Length) : original[i] \in Nat
      <4> TAKE i \in (offset + 1)..(offset + Length)
      <4>1. i \in 1..Len(original)
        BY <2>2, <2>4, <3>1 DEF Size
      <4> QED
        BY <2>2, <4>1, ElementOfSeq
    <3> DEFINE first == offset + 1
               last == offset + Length
    <3>3. Len(SubSeq(original, first, last)) = IF first <= last THEN last - first + 1 ELSE 0
      <4> HIDE DEF first, last
      <4> QED
        BY <3>1, <3>2, SubSeqProperties DEF first, last
    <3>4. (IF first <= last THEN last - first + 1 ELSE 0) = Length
      <4> HIDE DEF offset
      <4> QED
        BY <2>4, <3>1
    <3> QED
      BY <2>5, <3>3, <3>4 DEF Size
  <2> HIDE DEF Length
  <2>7. copied <= Length
    <3> HIDE DEF copied
    <3> QED
      BY <2>1, <2>2, <2>3, <2>4
  <2>8. ASSUME ~touched
        PROVE  copied = Length
    <3>1. left = size
      BY <2>2, <2>8
    <3>2. offset \in Nat
      BY <2>1
    <3> HIDE DEF copied, size, left, offset
    <3> QED
      BY <2>1, <2>2, <2>3, <2>4, <2>7, <3>1, <3>2
  <2>9. copied < Length => left < size
    <3>1. offset \in Nat
      BY <2>1
    <3> HIDE DEF copied, size, left, offset
    <3> QED
      BY <2>1, <2>2, <2>3, <2>4, <2>7, <3>1
  <2>10. ~touched => files[args.to] = Asked(original)
    <3> SUFFICES ASSUME ~touched PROVE files[args.to] = Asked(original)
      OBVIOUS
    <3>1. position = offset + Length
      BY <2>3, <2>8
    <3> QED
      BY <2>3, <2>5, <3>1
  <2>11. copied < Length => touched
    <3> HIDE DEF copied
    <3> QED
      BY <2>2, <2>4, <2>8
  <2> QED
    BY <2>6, <2>7, <2>9, <2>10, <2>11
<1> QED
  BY <1>1 DEF CopyInv, CopyIsRight

\* CopyIsRight, for files of any length, any offset and any limit: Copy refuses exactly
\* the invalid calls, copies the others byte for byte, and stays within bounds when
\* another process changes the source after it was measured.
THEOREM CopyIsRightHolds == CopySpec => []CopyIsRight
<1> QED
  BY CopyInvariance, CopiedRight, PTL

(**************************************************************************)
(* go-envdir, hw08.                                                       *)
(**************************************************************************)

\* A value that an entry stands for is one of the Environment.
LEMMA ValueOfType ==
  ASSUME NEW entry \in Entry, entry \notin {"none", "directory"}
  PROVE  /\ ValueOf(entry) \in {"remove", "blank"} \cup Values
         /\ ValueOf(entry) # "nothing"
         /\ entry = "empty" <=> ValueOf(entry) = "remove"
BY ValuesAssumption DEF ValueOf, Entry

\* The inductive invariant of go-envdir holds at the start.
LEMMA EnvInitInv == EnvInit => EnvInv
<1> SUFFICES ASSUME EnvInit PROVE EnvInv
  OBVIOUS
<1>1. EnvTypeOK
  BY DEF EnvInit, EnvTypeOK
<1>2. ReadInv /\ SetInv /\ SetenvNeverFails
  BY DEF EnvInit, ReadInv, SetInv, SetenvNeverFails
<1> QED
  BY <1>1, <1>2 DEF EnvInv

\* The entries that were listed are still to be read.
LEMMA ListStep ==
  ASSUME EnvInv, ListDir
  PROVE  EnvInv'
<1>1. EnvTypeOK'
  BY DEF EnvInv, ListDir, EnvTypeOK
<1>2. ReadInv'
  BY DEF EnvInv, ListDir, ReadInv, Processed
<1>3. SetInv' /\ SetenvNeverFails'
  BY DEF EnvInv, ListDir, SetInv, SetenvNeverFails
<1> QED
  BY <1>1, <1>2, <1>3 DEF EnvInv

\* An entry disappears only before ReadDir has come to it.
LEMMA DisappearsStep ==
  ASSUME EnvInv, NEW x \in Names, EntryDisappears(x)
  PROVE  EnvInv'
<1>1. EnvTypeOK'
  BY DEF EnvInv, EntryDisappears, EnvTypeOK
<1>2. ReadInv'
  BY DEF EnvInv, EnvTypeOK, EntryDisappears, ReadInv, Processed, Refused
<1>3. SetInv' /\ SetenvNeverFails'
  BY DEF EnvInv, EntryDisappears, SetInv, SetenvNeverFails
<1> QED
  BY <1>1, <1>2, <1>3 DEF EnvInv

\* An entry that was read stands in the Environment, or is the reason to give up.
LEMMA ProcessStep ==
  ASSUME EnvInv, NEW x \in Names, ProcessDirEntry(x)
  PROVE  EnvInv'
<1>1. ~Refused(x) /\ dir[x] # "none" =>
        ValueOf(dir[x]) \in {"remove", "blank"} \cup Values
  <2> SUFFICES ASSUME ~Refused(x), dir[x] # "none"
               PROVE  ValueOf(dir[x]) \in {"remove", "blank"} \cup Values
    OBVIOUS
  <2>1. dir[x] \in Entry /\ dir[x] \notin {"none", "directory"}
    BY DEF EnvInv, EnvTypeOK, Refused
  <2> QED
    BY <2>1, ValueOfType
<1>2. dir[x] # "none"
  BY DEF EnvInv, ReadInv, ProcessDirEntry
<1>3. EnvTypeOK'
  BY <1>1, <1>2 DEF EnvInv, EnvTypeOK, ProcessDirEntry
<1>4. ReadInv'
  BY <1>2 DEF EnvInv, EnvTypeOK, ReadInv, Processed, ProcessDirEntry, Refused
<1>5. SetInv' /\ SetenvNeverFails'
  BY DEF EnvInv, ProcessDirEntry, SetInv, SetenvNeverFails
<1> QED
  BY <1>3, <1>4, <1>5 DEF EnvInv

\* A good Environment is handed over as a whole.
LEMMA ReturnsStep ==
  ASSUME EnvInv, ReadDirReturns
  PROVE  EnvInv'
<1>1. EnvTypeOK'
  BY DEF EnvInv, EnvTypeOK, ReadDirReturns
<1>2. ReadInv' /\ SetenvNeverFails'
  BY DEF EnvInv, ReadDirReturns, ReadInv, SetenvNeverFails
<1>3. SetInv'
  <2>1. CASE bad
    BY <2>1 DEF EnvInv, ReadDirReturns, SetInv
  <2>2. CASE ~bad
    <3>1. /\ envPc = "reading" /\ todo = {} /\ envPc' = "setting"
          /\ todo' = {x \in Names : env[x] # "nothing"}
          /\ UNCHANGED <<dir, env, bad, environ, inherited>>
      BY <2>2 DEF ReadDirReturns
    <3>2. \A x \in Names : Processed(x)
      BY <3>1 DEF EnvInv, ReadInv
    <3>3. environ = inherited
      BY <3>1 DEF EnvInv, SetInv
    <3>4. \A x \in Names :
            /\ dir[x] = "none" \/ ~Refused(x)
            /\ env[x] = (IF dir[x] = "none" THEN "nothing" ELSE ValueOf(dir[x]))
      BY <2>2, <3>2 DEF Processed
    <3> QED
      BY <3>1, <3>3, <3>4 DEF SetInv, Refused
  <2> QED
    BY <2>1, <2>2
<1> QED
  BY <1>1, <1>2, <1>3 DEF EnvInv

\* os.Setenv is asked for no name that it refuses.
LEMMA SetStep ==
  ASSUME EnvInv, NEW x \in Names, SetVariable(x)
  PROVE  EnvInv'
<1>1. /\ envPc = "setting" /\ x \in todo /\ todo' = todo \ {x}
      /\ UNCHANGED <<dir, env, bad, inherited>>
  BY DEF SetVariable
<1>2. /\ dir[x] = "none" \/ ~Refused(x)
      /\ env[x] = (IF dir[x] = "none" THEN "nothing" ELSE ValueOf(dir[x]))
      /\ env[x] # "nothing"
  BY <1>1 DEF EnvInv, SetInv
<1>3. x \notin NameWithEq
  BY <1>2 DEF Refused
<1>4. /\ UNCHANGED <<envPc, exit>>
      /\ environ' = [environ EXCEPT ![x] = IF env[x] = "remove" THEN Unset ELSE env[x]]
  BY <1>3 DEF SetVariable
<1>5. EnvTypeOK'
  BY <1>1, <1>2, <1>4 DEF EnvInv, EnvTypeOK
<1>6. ReadInv' /\ SetenvNeverFails'
  BY <1>1, <1>4 DEF ReadInv, EnvInv, SetenvNeverFails
<1>7. SetInv'
  <2>1. \A y \in Names : environ'[y] = IF y = x THEN (IF env[x] = "remove" THEN Unset ELSE env[x])
                                       ELSE environ[y]
    BY <1>4 DEF EnvInv, EnvTypeOK
  <2>2. \A y \in Names :
         /\ dir[y] = "none" \/ ~Refused(y)
         /\ env[y] = (IF dir[y] = "none" THEN "nothing" ELSE ValueOf(dir[y]))
         /\ y \in todo => env[y] # "nothing"
         /\ environ[y] = (IF env[y] = "nothing" \/ y \in todo THEN inherited[y]
                          ELSE IF env[y] = "remove" THEN Unset ELSE env[y])
    BY <1>1 DEF EnvInv, SetInv
  <2> QED
    BY <1>1, <1>2, <1>4, <2>1, <2>2 DEF SetInv, Refused
<1> QED
  BY <1>5, <1>6, <1>7 DEF EnvInv

\* The command changes nothing of what it was given.
LEMMA CommandStep ==
  ASSUME EnvInv, StartCommand \/ StartFails \/ \E code \in Codes \cup {-1} : CommandEnds(code)
  PROVE  EnvInv'
<1>1. /\ envPc' \in {"running", "ran", "ended"}
      /\ envPc' = "running" => envPc = "setting" /\ todo = {}
      /\ envPc' = "ran" => envPc = "running"
      /\ UNCHANGED <<dir, todo, env, bad, environ, inherited>>
  BY DEF StartCommand, StartFails, CommandEnds
<1>2. EnvTypeOK'
  BY <1>1 DEF EnvInv, EnvTypeOK
<1>3. ReadInv' /\ SetenvNeverFails'
  BY <1>1 DEF ReadInv, SetenvNeverFails
<1>4. SetInv'
  BY <1>1 DEF EnvInv, SetInv, Refused
<1> QED
  BY <1>2, <1>3, <1>4 DEF EnvInv

\* A step that leaves go-envdir's variables alone leaves its invariant alone.
LEMMA EnvStutter ==
  ASSUME EnvInv, UNCHANGED envVars
  PROVE  EnvInv'
BY DEF envVars, EnvInv, EnvTypeOK, ReadInv, Processed, Refused, SetInv, SetenvNeverFails

\* Every step keeps the invariant.
LEMMA EnvStep == EnvInv /\ [EnvNext]_envVars => EnvInv'
BY ListStep, DisappearsStep, ProcessStep, ReturnsStep, SetStep, CommandStep, EnvStutter
   DEF EnvNext

\* The inductive invariant of go-envdir holds always.
THEOREM EnvInvariance == EnvSpec => []EnvInv
<1> QED
  BY EnvInitInv, EnvStep, PTL DEF EnvSpec

\* What the command sees, in one state.
LEMMA RunsInState ==
  ASSUME EnvInv
  PROVE  CommandRunsAsMeant
<1>1. CommandSeesDirectory
  <2> SUFFICES ASSUME envPc = "running", NEW x \in Names, dir[x] \notin {"too long", "gone"}
               PROVE  environ[x] = Meant(x)
    BY DEF CommandSeesDirectory
  <2>1. /\ dir[x] = "none" \/ ~Refused(x)
        /\ env[x] = (IF dir[x] = "none" THEN "nothing" ELSE ValueOf(dir[x]))
        /\ environ[x] = (IF env[x] = "nothing" THEN inherited[x]
                         ELSE IF env[x] = "remove" THEN Unset ELSE env[x])
    BY DEF EnvInv, SetInv
  <2>2. CASE dir[x] = "none"
    BY <2>1, <2>2 DEF Meant
  <2>3. CASE dir[x] # "none"
    <3>1. dir[x] \in Entry /\ dir[x] \notin {"none", "directory"}
      BY <2>1, <2>3 DEF EnvInv, EnvTypeOK, Refused
    <3>2. /\ ValueOf(dir[x]) # "nothing"
          /\ dir[x] = "empty" <=> ValueOf(dir[x]) = "remove"
      BY <3>1, ValueOfType
    <3>3. dir[x] # "empty" => ValueOf(dir[x]) = dir[x]
      BY DEF ValueOf
    <3> QED
      BY <2>1, <2>3, <3>2, <3>3 DEF Meant
  <2> QED
    BY <2>2, <2>3
<1>2. NoCommandAfterBadEntry
  BY DEF EnvInv, SetInv, NoCommandAfterBadEntry
<1>3. SetenvNeverFails
  BY DEF EnvInv
<1> QED
  BY <1>1, <1>2, <1>3 DEF CommandRunsAsMeant

\* CommandRunsAsMeant, for all directories, environments and orders of the map: the
\* command runs in the environment of the whole directory or not at all, also when
\* entries disappear while the directory is read.
THEOREM CommandRunsAsMeantHolds == EnvSpec => []CommandRunsAsMeant
<1> QED
  BY EnvInvariance, RunsInState, PTL

(**************************************************************************)
(* Folds.                                                                 *)
(**************************************************************************)

\* A set of natural numbers with an element has a least one.
LEMMA LeastNatural ==
  ASSUME NEW T, T \subseteq Nat, T # {}
  PROVE  \E m \in T : \A k \in T : m <= k
<1>1. \E x \in T : \A y \in T : ~(<<y, x>> \in OpToRel(<, Nat))
  <2> DEFINE R == OpToRel(<, Nat)
  <2>1. IsWellFoundedOn(R, Nat)
    BY NatLessThanWellFounded
  <2> HIDE DEF R
  <2>2. \E x \in T : \A y \in T : ~(<<y, x>> \in R)
    BY <2>1, WFMin
  <2> QED
    BY <2>2 DEF R
<1>2. PICK x \in T : \A y \in T : ~(<<y, x>> \in OpToRel(<, Nat))
  BY <1>1
<1>3. \A y \in T : ~(y < x)
  BY <1>2 DEF OpToRel
<1> QED
  BY <1>3

\* What holds of 0, and of every number up to len when it holds of the one before, holds
\* up to len.
LEMMA UpTo ==
  ASSUME NEW len \in Nat, NEW T, 0 \in T, \A k \in 1..len : k - 1 \in T => k \in T
  PROVE  \A k \in 0..len : k \in T
<1> DEFINE U == {k \in 0..len : k \notin T}
<1> SUFFICES ASSUME U # {} PROVE FALSE
  OBVIOUS
<1>1. U \subseteq Nat
  OBVIOUS
<1>2. PICK m \in U : \A k \in U : m <= k
  BY <1>1, LeastNatural
<1>3. m \in 1..len /\ m - 1 \in 0..len
  BY <1>2
<1>4. m - 1 \notin U
  BY <1>2, <1>3
<1> QED
  BY <1>2, <1>3, <1>4

\* A finite set of numbers up to len has a greatest one, and it is Max.
LEMMA GreatestIsMax ==
  ASSUME NEW len \in Nat, NEW s, s \subseteq 1..len, s # {}
  PROVE  Max(s) \in s /\ \A k \in s : k <= Max(s)
<1> DEFINE U == {b \in Nat : \A k \in s : k <= b}
<1>1. len \in U /\ U \subseteq Nat
  OBVIOUS
<1>2. PICK b \in U : \A c \in U : b <= c
  BY <1>1, LeastNatural
<1>3. b \in s
  <2> SUFFICES ASSUME b \notin s PROVE FALSE
    OBVIOUS
  <2>1. PICK k \in s : TRUE
    OBVIOUS
  <2>2. b \in Nat /\ k \in 1..len /\ k <= b /\ k # b
    BY <1>2, <2>1
  <2>3. b - 1 \in Nat
    BY <2>2
  <2>4. \A j \in s : j <= b - 1
    BY <1>2
  <2>5. b - 1 \in U
    BY <2>3, <2>4
  <2> QED
    BY <1>2, <2>5
<1>4. \A k \in s : b >= k
  BY <1>2
<1>5. Max(s) \in s /\ \A k \in s : Max(s) >= k
  BY <1>3, <1>4, Zenon DEF Max
<1> QED
  BY <1>5

\* The least element of a set of numbers is Min.
LEMMA LeastIsMin ==
  ASSUME NEW s, s \subseteq Nat, s # {}
  PROVE  Min(s) \in s /\ \A k \in s : Min(s) <= k
<1>1. PICK m \in s : \A k \in s : m <= k
  BY LeastNatural
<1>2. Min(s) \in s /\ \A k \in s : Min(s) =< k
  BY <1>1, Zenon DEF Min
<1> QED
  BY <1>2

\* The last of the first k numbers, and what is before it.
LEMMA LastOfPrefix ==
  ASSUME NEW len \in Nat, NEW k \in 1..len
  PROVE  Max(1..k) = k /\ (1..k) \ {k} = 1..(k - 1) /\ 1..k # {} /\ 1..k \in SUBSET (1..len)
<1>1. 1..k \subseteq 1..len /\ k \in 1..k
  OBVIOUS
<1>2. Max(1..k) \in 1..k /\ \A j \in 1..k : j <= Max(1..k)
  BY <1>1, GreatestIsMax
<1>3. Max(1..k) = k
  BY <1>1, <1>2
<1>4. (1..k) \ {k} = 1..(k - 1)
  OBVIOUS
<1> QED
  BY <1>1, <1>3, <1>4

\* A fold over len elements with the steps F is defined by a function g that gives for
\* each set of places what the step of the last of them makes of the rest.
Runs(len, base, F, g) ==
  \A s \in SUBSET (1..len) :
    g[s] = IF s = {} THEN base ELSE F[Max(s)][g[s \ {Max(s)}]]

\* Such a function exists.
LEMMA FoldRuns ==
  ASSUME NEW len \in Nat, NEW R, NEW base \in R, NEW F \in [1..len -> [R -> R]]
  PROVE  \E g \in [SUBSET (1..len) -> R] : Runs(len, base, F, g)
<1> DEFINE Good(k) == \E g \in [SUBSET (1..k) -> R] : Runs(k, base, F, g)
           T == {k \in 0..len : Good(k)}
<1>1. 0 \in T
  <2> DEFINE g == [s \in SUBSET (1..0) |-> base]
  <2>1. g \in [SUBSET (1..0) -> R]
    OBVIOUS
  <2>2. \A s \in SUBSET (1..0) : s = {}
    OBVIOUS
  <2>3. Runs(0, base, F, g)
    BY <2>2 DEF Runs
  <2> HIDE DEF g
  <2>4. Good(0)
    BY <2>1, <2>3
  <2> HIDE DEF Good
  <2> QED
    BY <2>4
<1>2. ASSUME NEW k \in 1..len, k - 1 \in T PROVE k \in T
  <2>1. PICK g \in [SUBSET (1..(k - 1)) -> R] : Runs(k - 1, base, F, g)
    BY <1>2
  <2> DEFINE h == [s \in SUBSET (1..k) |->
                     IF k \in s THEN F[k][g[s \ {k}]] ELSE g[s]]
  <2>2. \A s \in SUBSET (1..k) : s \ {k} \in SUBSET (1..(k - 1))
    OBVIOUS
  <2>3. \A s \in SUBSET (1..k) : k \notin s => s \in SUBSET (1..(k - 1))
    OBVIOUS
  <2>4. k \in 1..len
    OBVIOUS
  <2>5. \A s \in SUBSET (1..k) : k \in s => F[k][g[s \ {k}]] \in R
    BY <2>2, <2>4
  <2>6. h \in [SUBSET (1..k) -> R]
    BY <2>3, <2>5
  <2>7. ASSUME NEW s \in SUBSET (1..k)
        PROVE  h[s] = IF s = {} THEN base ELSE F[Max(s)][h[s \ {Max(s)}]]
    <3>1. CASE s = {}
      <4>1. k \notin s /\ s \in SUBSET (1..(k - 1))
        BY <3>1
      <4>2. h[s] = g[s]
        BY <4>1
      <4> QED
        BY <2>1, <3>1, <4>1, <4>2 DEF Runs
    <3>2. CASE s # {}
      <4>1. Max(s) \in s /\ \A j \in s : j <= Max(s)
        <5>1. k \in Nat /\ s \subseteq 1..k
          OBVIOUS
        <5> QED
          BY <5>1, <3>2, GreatestIsMax
      <4>2. s \ {Max(s)} \in SUBSET (1..k)
        OBVIOUS
      <4>3. CASE k \in s
        <5> DEFINE m == Max(s)
        <5> HIDE DEF m, h
        <5>1. m \in 1..k /\ k <= m
          BY <4>1, <4>3 DEF m
        <5>2. m = k
          BY <5>1
        <5>3. Max(s) = k
          BY <5>2 DEF m
        <5>4. h[s] = F[k][g[s \ {k}]]
          BY <4>3 DEF h
        <5>5. h[s \ {k}] = g[s \ {k}]
          BY <4>2, <5>3 DEF h
        <5> QED
          BY <3>2, <5>3, <5>4, <5>5
      <4>4. CASE k \notin s
        <5>1. s \in SUBSET (1..(k - 1))
          BY <2>3, <4>4
        <5>2. g[s] = F[Max(s)][g[s \ {Max(s)}]]
          BY <2>1, <3>2, <5>1 DEF Runs
        <5>3. h[s] = g[s] /\ h[s \ {Max(s)}] = g[s \ {Max(s)}]
          BY <4>2, <4>4
        <5> QED
          BY <3>2, <5>2, <5>3
      <4> QED
        BY <4>3, <4>4
    <3> QED
      BY <3>1, <3>2
  <2> HIDE DEF h
  <2>8. Runs(k, base, F, h)
    BY <2>7 DEF Runs
  <2>9. Good(k)
    BY <2>6, <2>8
  <2> HIDE DEF Good
  <2> QED
    BY <2>9
<1> HIDE DEF T
<1>3. len \in T
  <2>1. \A k \in 0..len : k \in T
    BY <1>1, <1>2, UpTo
  <2> QED
    BY <2>1
<1> QED
  BY <1>3 DEF T

\* A function that takes these steps along the first places, and what it has after each.
Steps(len, R, base, F, f) ==
  /\ f[{}] = base
  /\ \A k \in 1..len : f[1..(k - 1)] \in R => f[1..k] = F[k][f[1..(k - 1)]]

Follows(len, base, F, f, h) ==
  /\ h[0] = base /\ h[len] = f[1..len]
  /\ \A k \in 1..len : h[k] = F[k][h[k - 1]]

\* The values of such a function along the places.
LEMMA FoldHistory ==
  ASSUME NEW len \in Nat, NEW R, NEW base \in R, NEW F \in [1..len -> [R -> R]], NEW f,
         Steps(len, R, base, F, f)
  PROVE  \E h \in [0..len -> R] : Follows(len, base, F, f, h)
<1> USE DEF Steps
<1> DEFINE T == {k \in 0..len : f[1..k] \in R}
           h == [k \in 0..len |-> f[1..k]]
<1>1. 1..0 = {}
  OBVIOUS
<1>2. 0 \in T
  BY <1>1
<1>3. \A k \in 1..len : k - 1 \in T => k \in T
  OBVIOUS
<1> HIDE DEF T
<1>4. \A k \in 0..len : k \in T
  BY <1>2, <1>3, UpTo
<1>5. \A k \in 0..len : f[1..k] \in R
  BY <1>4 DEF T
<1>6. h \in [0..len -> R]
  BY <1>5
<1>7. h[0] = base /\ h[len] = f[1..len]
  BY <1>1
<1>8. ASSUME NEW k \in 1..len PROVE h[k] = F[k][h[k - 1]]
  <2>1. k - 1 \in 0..len /\ k \in 0..len
    OBVIOUS
  <2>2. f[1..(k - 1)] \in R
    BY <1>5, <2>1
  <2>3. h[k] = f[1..k] /\ h[k - 1] = f[1..(k - 1)]
    BY <2>1
  <2> QED
    BY <2>2, <2>3
<1> HIDE DEF h
<1>9. Follows(len, base, F, f, h)
  BY <1>7, <1>8 DEF Follows
<1> QED
  BY <1>6, <1>7, <1>9

Answers == {"true", "false", "error"}

\* What searchEvent has found after each condition.
FoundSoFar(e, search, h) ==
  /\ h[0] = "true" /\ h[Len(search)] = SearchEvent(e, search)
  /\ \A k \in 1..Len(search) :
       h[k] = IF h[k - 1] = "true" THEN ApplyCondition(e, search[k]) ELSE h[k - 1]

\* searchEvent has this history for every list of conditions.
LEMMA SearchHistory ==
  ASSUME NEW e, NEW V, NEW search \in Seq(V),
         \A k \in 1..Len(search) : ApplyCondition(e, search[k]) \in Answers
  PROVE  \E h \in [0..Len(search) -> Answers] : FoundSoFar(e, search, h)
<1> DEFINE len == Len(search)
           F == [k \in 1..len |-> [r \in Answers |->
                   IF r = "true" THEN ApplyCondition(e, search[k]) ELSE r]]
           G(f) == [s \in SUBSET DOMAIN search |->
                      IF s = {} THEN "true"
                      ELSE IF f[s \ {Max(s)}] = "true" THEN ApplyCondition(e, search[Max(s)])
                           ELSE f[s \ {Max(s)}]]
           f == CHOOSE x : x = G(x)
           base == "true"
<1>1. len \in Nat /\ DOMAIN search = 1..len /\ "true" \in Answers
  BY DEF Answers
<1>2. F \in [1..len -> [Answers -> Answers]]
  OBVIOUS
<1>3. PICK g \in [SUBSET (1..len) -> Answers] : Runs(len, base, F, g)
  <2>1. len \in Nat /\ base \in Answers
    BY <1>1
  <2> HIDE DEF F, len, base
  <2> QED
    BY <2>1, <1>2, FoldRuns, Zenon
<1>4. g = G(g)
  <2>1. ASSUME NEW s \in SUBSET (1..len) PROVE g[s] = G(g)[s]
    <3>1. CASE s = {}
      BY <1>1, <1>3, <3>1 DEF Runs
    <3>2. CASE s # {}
      <4>1. Max(s) \in 1..len
        BY <1>1, <3>2, GreatestIsMax
      <4>2. g[s \ {Max(s)}] \in Answers
        BY <1>3
      <4>3. g[s] = F[Max(s)][g[s \ {Max(s)}]]
        BY <1>3, <3>2 DEF Runs
      <4>4. F[Max(s)][g[s \ {Max(s)}]] =
              IF g[s \ {Max(s)}] = "true" THEN ApplyCondition(e, search[Max(s)])
              ELSE g[s \ {Max(s)}]
        BY <4>1, <4>2
      <4> QED
        BY <1>1, <3>2, <4>3, <4>4
    <3> QED
      BY <3>1, <3>2
  <2>2. G(g) = [s \in SUBSET (1..len) |-> G(g)[s]] /\ g = [s \in SUBSET (1..len) |-> g[s]]
    BY <1>1
  <2> HIDE DEF G
  <2> QED
    BY <2>1, <2>2
<1>5. f = G(f)
  <2> HIDE DEF G
  <2> QED
    BY <1>4
<1>6. SearchEvent(e, search) = f[1..len]
  BY <1>1, Zenon DEF SearchEvent, FoldLeft, MapThenFoldSet
<1> HIDE DEF f
<1>7. f[{}] = base
  <2>1. G(f)[{}] = "true"
    BY <1>1
  <2> QED
    BY <1>5, <2>1
<1>8. ASSUME NEW k \in 1..len, f[1..(k - 1)] \in Answers
      PROVE  f[1..k] = F[k][f[1..(k - 1)]]
  <2>1. Max(1..k) = k /\ (1..k) \ {k} = 1..(k - 1) /\ 1..k # {} /\ 1..k \in SUBSET (1..len)
    BY <1>1, LastOfPrefix
  <2>2. G(f)[1..k] = F[k][f[1..(k - 1)]]
    BY <1>1, <1>8, <2>1
  <2> QED
    BY <1>5, <2>2
<1> HIDE DEF F
<1>9. PICK h \in [0..len -> Answers] : Follows(len, base, F, f, h)
  <2>1. len \in Nat /\ base \in Answers
    BY <1>1
  <2>2. Steps(len, Answers, base, F, f)
    BY <1>7, <1>8 DEF Steps
  <2> HIDE DEF len, base
  <2> QED
    BY <2>1, <2>2, <1>2, FoldHistory, Zenon
<1>10. \A k \in 1..len :
         h[k] = IF h[k - 1] = "true" THEN ApplyCondition(e, search[k]) ELSE h[k - 1]
  <2>1. \A k \in 1..len : h[k - 1] \in Answers
    BY <1>1, <1>9
  <2> QED
    BY <1>9, <2>1 DEF F, Follows
<1> QED
  BY <1>6, <1>9, <1>10 DEF Follows, FoundSoFar

\* The queries the storages are made for: a list of conditions on fields with samples
\* out of V, or lists of them.
Single == {"=", "!=", "<", "<=", ">", ">="}
EventFields == TimeFields \cup StringFields \cup {"ID", "UserID", "NotifyBefore"}
Conditions(V) ==
  [field: EventFields, type: Single, sample: V]
    \cup [field: EventFields, type: {"IN", "NOT IN"}, sample: Seq(V)]

\* Times that are compared are numbers, and whole seconds.
WholeCondition(table, cond) ==
  (cond.type \in {"<", "<=", ">", ">="} /\ cond.field \in TimeFields) =>
    /\ cond.sample \in Int /\ cond.sample % PerSecond = 0
    /\ \A e \in table : e[cond.field] \in Int /\ e[cond.field] % PerSecond = 0

\* What a condition says of an event.
Satisfies(e, cond) ==
  LET val == e[cond.field]
      place == Key(cond.field, val)
      limit == Key(cond.field, cond.sample)
  IN
  CASE cond.type = "=" -> val = cond.sample
    [] cond.type = "!=" -> val # cond.sample
    [] cond.type = "<" -> place < limit
    [] cond.type = "<=" -> place <= limit
    [] cond.type = ">" -> place > limit
    [] cond.type = ">=" -> place >= limit
    [] cond.type = "IN" -> \E k \in DOMAIN cond.sample : val = cond.sample[k]
    [] cond.type = "NOT IN" -> \A k \in DOMAIN cond.sample : val # cond.sample[k]

\* The second an instant is in, for any number of units in a second.
LEMMA UnixBounds ==
  ASSUME NEW t \in Int
  PROVE  Unix(t) \in Int /\ PerSecond * Unix(t) <= t /\ t < PerSecond * Unix(t) + PerSecond
BY UnitsAssumption DEF Unix

\* Whole seconds are compared by their number.
LEMMA WholeSecondsCompare ==
  ASSUME NEW t \in Int, NEW w \in Int, t % PerSecond = 0, w % PerSecond = 0
  PROVE  /\ Unix(t) \in Int /\ Unix(w) \in Int
         /\ (Unix(t) < Unix(w) <=> t < w) /\ (Unix(t) = Unix(w) <=> t = w)
<1>1. PerSecond \in Int /\ PerSecond > 0
  BY UnitsAssumption
<1>2. Unix(t) \in Int /\ Unix(w) \in Int
  BY UnixBounds
<1>3. t = PerSecond * Unix(t) /\ w = PerSecond * Unix(w)
  BY <1>1 DEF Unix
<1> DEFINE x == Unix(t)
           y == Unix(w)
<1> HIDE DEF x, y
<1>4. x \in Int /\ y \in Int /\ t = PerSecond * x /\ w = PerSecond * y
  BY <1>2, <1>3 DEF x, y
<1>5. x < y => t < w
  BY <1>1, <1>4
<1>6. y < x => w < t
  BY <1>1, <1>4
<1>7. (x < y <=> t < w) /\ (x = y <=> t = w)
  BY <1>4, <1>5, <1>6
<1> QED
  BY <1>2, <1>7 DEF x, y

\* The memory storage has one of three answers to a condition.
LEMMA ThreeAnswers ==
  ASSUME NEW V, NEW e, NEW cond \in Conditions(V)
  PROVE  ApplyCondition(e, cond) \in Answers
<1>1. \A b : Truth(b) \in {"true", "false"}
  BY DEF Truth
<1>2. \A f, t, v, w : Compare(f, t, v, w) \in Answers
  BY <1>1 DEF Compare, Answers
<1>3. \A f, v, w : InCmp(f, v, w) \in Answers
  BY <1>1 DEF InCmp, Answers
<1>4. \A a \in Answers : Negate(a) \in Answers
  BY DEF Negate, Answers
<1>5. cond.type \in Single \cup {"IN", "NOT IN"}
  BY DEF Conditions
<1>6. CASE cond.type \in {"=", "!="}
  BY <1>1, <1>6 DEF ApplyCondition, Answers
<1>7. CASE cond.type \in {"<", "<=", ">", ">="}
  BY <1>2, <1>7 DEF ApplyCondition
<1>8. CASE cond.type = "IN"
  BY <1>3, <1>8 DEF ApplyCondition
<1>9. CASE cond.type = "NOT IN"
  BY <1>3, <1>4, <1>9 DEF ApplyCondition
<1> QED
  BY <1>5, <1>6, <1>7, <1>8, <1>9 DEF Single

\* When it answers at all, it answers what the condition says.
LEMMA MemoryAnswers ==
  ASSUME NEW V, NEW table, NEW e \in table, NEW cond \in Conditions(V),
         WholeCondition(table, cond), ApplyCondition(e, cond) # "error"
  PROVE  ApplyCondition(e, cond) = IF Satisfies(e, cond) THEN "true" ELSE "false"
<1> DEFINE val == e[cond.field]
<1>1. \A b : Truth(b) = IF b THEN "true" ELSE "false"
  BY DEF Truth
<1>2. cond.type \in Single \cup {"IN", "NOT IN"}
  BY DEF Conditions
<1>3. CASE cond.type \in {"=", "!="}
  BY <1>1, <1>3 DEF ApplyCondition, Satisfies
<1>4. CASE cond.type \in {"<", "<=", ">", ">="}
  <2>1. ApplyCondition(e, cond) = Compare(cond.field, cond.type, val, cond.sample)
    BY <1>4 DEF ApplyCondition
  <2>2. cond.field \in TimeFields
    BY <2>1 DEF Compare
  <2>3. /\ cond.sample \in Int /\ cond.sample % PerSecond = 0
        /\ val \in Int /\ val % PerSecond = 0
    BY <1>4, <2>2 DEF WholeCondition
  <2> HIDE DEF val
  <2>4. /\ Unix(val) \in Int /\ Unix(cond.sample) \in Int
        /\ Unix(val) < Unix(cond.sample) <=> val < cond.sample
        /\ Unix(val) = Unix(cond.sample) <=> val = cond.sample
    BY <2>3, WholeSecondsCompare
  <2>5. Compare(cond.field, cond.type, val, cond.sample) =
          Truth(\/ cond.type \in {"<", "<="} /\ val < cond.sample
                \/ cond.type \in {">", ">="} /\ val > cond.sample
                \/ cond.type \in {"<=", ">="} /\ val = cond.sample)
    <3>1. Unix(val) > Unix(cond.sample) <=> val > cond.sample
      BY <2>3, <2>4
    <3> QED
      BY <2>2, <2>4, <3>1 DEF Compare
  <2>6. Satisfies(e, cond) <=>
          \/ cond.type \in {"<", "<="} /\ val < cond.sample
          \/ cond.type \in {">", ">="} /\ val > cond.sample
          \/ cond.type \in {"<=", ">="} /\ val = cond.sample
    <3>5. \A v : Key(cond.field, v) = v
      BY <2>2 DEF Key, TimeFields, StringFields
    <3>1. CASE cond.type = "<"
      <4>1. Satisfies(e, cond) <=> Key(cond.field, val) < Key(cond.field, cond.sample)
        BY <3>1, Zenon DEF Satisfies, val
      <4> QED
        BY <3>1, <3>5, <4>1
    <3>2. CASE cond.type = ">"
      <4>1. Satisfies(e, cond) <=> Key(cond.field, val) > Key(cond.field, cond.sample)
        BY <3>2, Zenon DEF Satisfies, val
      <4> QED
        BY <3>2, <3>5, <4>1
    <3>3. CASE cond.type = "<="
      <4>1. Satisfies(e, cond) <=> Key(cond.field, val) <= Key(cond.field, cond.sample)
        BY <3>3, Zenon DEF Satisfies, val
      <4> QED
        BY <2>3, <3>3, <3>5, <4>1
    <3>4. CASE cond.type = ">="
      <4>1. Satisfies(e, cond) <=> Key(cond.field, val) >= Key(cond.field, cond.sample)
        BY <3>4, Zenon DEF Satisfies, val
      <4> QED
        BY <2>3, <3>4, <3>5, <4>1
    <3> QED
      BY <1>4, <3>1, <3>2, <3>3, <3>4
  <2> QED
    BY <1>1, <2>1, <2>5, <2>6
<1>5. CASE cond.type = "IN"
  <2>1. ApplyCondition(e, cond) = Truth(val \in Range(cond.sample))
    BY <1>5 DEF ApplyCondition, InCmp
  <2>2. val \in Range(cond.sample) <=> \E k \in DOMAIN cond.sample : val = cond.sample[k]
    BY DEF Range
  <2>3. Satisfies(e, cond) <=> \E k \in DOMAIN cond.sample : val = cond.sample[k]
    BY <1>5 DEF Satisfies
  <2> QED
    BY <1>1, <2>1, <2>2, <2>3
<1>6. CASE cond.type = "NOT IN"
  <2>1. ApplyCondition(e, cond) = Negate(Truth(val \in Range(cond.sample)))
    BY <1>6 DEF ApplyCondition, InCmp, Negate
  <2>2. val \in Range(cond.sample) <=> \E k \in DOMAIN cond.sample : val = cond.sample[k]
    BY DEF Range
  <2>3. Satisfies(e, cond) <=> \A k \in DOMAIN cond.sample : val # cond.sample[k]
    BY <1>6 DEF Satisfies
  <2> QED
    BY <1>1, <2>1, <2>2, <2>3 DEF Negate
<1> QED
  BY <1>2, <1>3, <1>4, <1>5, <1>6 DEF Single

\* The first condition that is not true decides: what it answers is the answer.
LEMMA SearchAnswers ==
  ASSUME NEW e, NEW V, NEW search \in Seq(V),
         \A k \in 1..Len(search) : ApplyCondition(e, search[k]) \in Answers
  PROVE  /\ SearchEvent(e, search) \in Answers
         /\ SearchEvent(e, search) = "true" =>
              \A k \in 1..Len(search) : ApplyCondition(e, search[k]) = "true"
         /\ SearchEvent(e, search) # "true" =>
              \E k \in 1..Len(search) : ApplyCondition(e, search[k]) = SearchEvent(e, search)
<1> DEFINE len == Len(search)
           A(k) == ApplyCondition(e, search[k])
<1>1. len \in Nat
  OBVIOUS
<1>2. PICK h \in [0..len -> Answers] : FoundSoFar(e, search, h)
  BY SearchHistory, Zenon
<1>3. /\ h[0] = "true" /\ h[len] = SearchEvent(e, search)
      /\ \A k \in 1..len : h[k] = IF h[k - 1] = "true" THEN A(k) ELSE h[k - 1]
  BY <1>2 DEF FoundSoFar
<1> DEFINE T == {k \in 0..len :
                   /\ h[k] = "true" => \A j \in 1..k : A(j) = "true"
                   /\ h[k] # "true" => \E j \in 1..k : A(j) = h[k]}
<1> HIDE DEF A, len
<1>4. 0 \in T
  BY <1>1, <1>3
<1>5. ASSUME NEW k \in 1..len, k - 1 \in T PROVE k \in T
  <2>1. h[k] = IF h[k - 1] = "true" THEN A(k) ELSE h[k - 1]
    BY <1>3
  <2>2. \A j \in 1..k : j = k \/ j \in 1..(k - 1)
    BY <1>1
  <2>3. \A j \in 1..(k - 1) : j \in 1..k
    BY <1>1
  <2>4. k \in 1..k /\ k \in 0..len
    BY <1>1
  <2> QED
    BY <1>5, <2>1, <2>2, <2>3, <2>4
<1> HIDE DEF T
<1>6. len \in T
  <2>1. \A k \in 0..len : k \in T
    BY <1>1, <1>4, <1>5, UpTo
  <2> QED
    BY <1>1, <2>1
<1>7. h[len] \in Answers
  BY <1>1, <1>2
<1> QED
  BY <1>3, <1>6, <1>7 DEF T, len, A

\* An event is found when every condition says so.
LEMMA SearchDecides ==
  ASSUME NEW V, NEW table, NEW e \in table, NEW search \in Seq(Conditions(V)),
         \A k \in 1..Len(search) : WholeCondition(table, search[k]),
         SearchEvent(e, search) # "error"
  PROVE  SearchEvent(e, search) = "true" <=> \A k \in 1..Len(search) : Satisfies(e, search[k])
<1> DEFINE len == Len(search)
           A(k) == ApplyCondition(e, search[k])
<1>1. \A k \in 1..len : search[k] \in Conditions(V)
  OBVIOUS
<1>2. \A k \in 1..len : A(k) \in Answers
  BY <1>1, ThreeAnswers
<1>3. /\ SearchEvent(e, search) \in Answers
      /\ SearchEvent(e, search) = "true" => \A k \in 1..len : A(k) = "true"
      /\ SearchEvent(e, search) # "true" => \E k \in 1..len : A(k) = SearchEvent(e, search)
  BY <1>2, SearchAnswers
<1>4. \A k \in 1..len : A(k) # "error" => A(k) = IF Satisfies(e, search[k]) THEN "true" ELSE "false"
  BY <1>1, MemoryAnswers
<1> HIDE DEF A, len
<1> QED
  BY <1>3, <1>4 DEF Answers, len

\* What getWhere builds: the text of the conditions, with the numbers of their samples,
\* and the list of arguments.
Written == [field: EventFields, type: Single \cup {"IN", "NOT IN"}, at: Seq(Nat)]
Wheres(V) == [conds: Seq(Written), args: Seq(V), i: Nat]

\* The placeholders of the first k conditions lead to their samples.
Placed(search, k, where) ==
  /\ Len(where.conds) = k /\ where.i = Len(where.args) + 1
  /\ \A i \in 1..k :
       /\ where.conds[i].field = search[i].field /\ where.conds[i].type = search[i].type
       /\ DOMAIN where.conds[i].at = DOMAIN Samples(search[i])
       /\ \A j \in DOMAIN Samples(search[i]) :
            /\ where.conds[i].at[j] \in 1..Len(where.args)
            /\ where.args[where.conds[i].at[j]] = Samples(search[i])[j]

\* The samples of a condition are a list.
LEMMA SamplesTyped ==
  ASSUME NEW V, NEW cond \in Conditions(V)
  PROVE  Samples(cond) \in Seq(V)
<1>1. CASE cond \in [field: EventFields, type: Single, sample: V]
  <2>1. cond.sample \in V /\ cond.type \in Single
    BY <1>1
  <2>2. Samples(cond) = <<cond.sample>>
    BY <2>1 DEF Samples, IsIn, Single
  <2> DEFINE v == cond.sample
  <2> HIDE DEF v
  <2>3. v \in V => <<v>> \in Seq(V)
    OBVIOUS
  <2> QED
    BY <2>1, <2>2, <2>3 DEF v
<1>2. CASE cond \in [field: EventFields, type: {"IN", "NOT IN"}, sample: Seq(V)]
  <2>1. cond.sample \in Seq(V) /\ cond.type \in {"IN", "NOT IN"}
    BY <1>2
  <2> QED
    BY <2>1 DEF Samples, IsIn
<1> QED
  BY <1>1, <1>2 DEF Conditions

\* A condition more keeps what getWhere has so far of its kind.
LEMMA AddWhereTyped ==
  ASSUME NEW V, NEW where \in Wheres(V), NEW cond \in Conditions(V)
  PROVE  AddWhere(where, cond) \in Wheres(V)
<1> DEFINE s == Samples(cond)
           conds == where.conds
           values == where.args
           i == where.i
           numbers == [k \in DOMAIN s |-> i + k - 1]
           added == [field |-> cond.field, type |-> cond.type, at |-> numbers]
<1>1. s \in Seq(V)
  BY SamplesTyped
<1>2. i \in Nat /\ values \in Seq(V) /\ conds \in Seq(Written)
  BY DEF Wheres
<1>3. AddWhere(where, cond) = [conds |-> Append(conds, added), args |-> values \o s,
                               i |-> i + Len(s)]
  BY DEF AddWhere, WithCondition
<1>4. cond.field \in EventFields /\ cond.type \in Single \cup {"IN", "NOT IN"}
  BY DEF Conditions
<1> HIDE DEF s, conds, values, i
<1>5. numbers \in Seq(Nat)
  <2>1. Len(s) \in Nat /\ DOMAIN s = 1..Len(s)
    BY <1>1
  <2>2. \A k \in 1..Len(s) : i + k - 1 \in Nat
    BY <1>2, <2>1
  <2>3. [k \in 1..Len(s) |-> i + k - 1] \in [1..Len(s) -> Nat]
    BY <2>2
  <2> QED
    BY <2>1, <2>3
<1> HIDE DEF numbers
<1>6. added \in Written
  BY <1>4, <1>5 DEF Written
<1> HIDE DEF added
<1>7. Append(conds, added) \in Seq(Written) /\ values \o s \in Seq(V) /\ i + Len(s) \in Nat
  BY <1>1, <1>2, <1>6
<1>8. \A x \in Seq(Written), y \in Seq(V), z \in Nat :
        [conds |-> x, args |-> y, i |-> z] \in Wheres(V)
  BY DEF Wheres
<1> QED
  BY <1>3, <1>7, <1>8

\* The next condition gets numbers behind those given out, and the others keep theirs.
LEMMA AddWherePlaces ==
  ASSUME NEW V, NEW search \in Seq(Conditions(V)), NEW k \in 1..Len(search),
         NEW where \in Wheres(V), Placed(search, k - 1, where)
  PROVE  Placed(search, k, AddWhere(where, search[k]))
<1> DEFINE s == Samples(search[k])
           conds == where.conds
           values == where.args
           m == Len(values)
           added == [field |-> search[k].field, type |-> search[k].type,
                     at |-> [j \in DOMAIN s |-> where.i + j - 1]]
           after == AddWhere(where, search[k])
           conds1 == after.conds
           args1 == after.args
<1>1. search[k] \in Conditions(V)
  OBVIOUS
<1>2. s \in Seq(V)
  BY <1>1, SamplesTyped
<1>3. where.i \in Nat /\ values \in Seq(V) /\ conds \in Seq(Written)
  BY DEF Wheres
<1>4. conds1 = Append(conds, added) /\ args1 = values \o s /\ after.i = where.i + Len(s)
  BY DEF AddWhere, WithCondition
<1>5. /\ added.field = search[k].field /\ added.type = search[k].type
      /\ DOMAIN added.at = DOMAIN s /\ \A j \in DOMAIN s : added.at[j] = where.i + j - 1
  OBVIOUS
<1>6. Len(conds) = k - 1 /\ where.i = Len(values) + 1 /\ k \in Nat
  BY DEF Placed
<1>7. \A i \in 1..(k - 1) :
        /\ conds[i].field = search[i].field /\ conds[i].type = search[i].type
        /\ DOMAIN conds[i].at = DOMAIN Samples(search[i])
        /\ \A j \in DOMAIN Samples(search[i]) :
             /\ conds[i].at[j] \in 1..m /\ values[conds[i].at[j]] = Samples(search[i])[j]
  BY DEF Placed
<1> DEFINE i0 == where.i
           i1 == after.i
<1> HIDE DEF s, added, after, conds, values, conds1, args1, i0, i1
<1>8. /\ Len(s) \in Nat /\ DOMAIN s = 1..Len(s) /\ m \in Nat /\ i0 = m + 1
      /\ Len(args1) = m + Len(s) /\ i1 = Len(args1) + 1
  <2>1. i0 \in Nat /\ i0 = m + 1 /\ i1 = i0 + Len(s)
    BY <1>3, <1>4, <1>6 DEF i0, i1
  <2> QED
    BY <1>2, <1>3, <1>4, <2>1
<1>9. /\ \A j \in 1..m : args1[j] = values[j]
      /\ \A j \in 1..Len(s) : args1[m + j] = s[j]
  BY <1>2, <1>3, <1>4
<1>10. /\ Len(conds1) = k /\ conds1[k] = added
       /\ \A i \in 1..(k - 1) : conds1[i] = conds[i]
  BY <1>3, <1>4, <1>6
<1> HIDE DEF m
<1>11. ASSUME NEW i \in 1..(k - 1)
       PROVE  /\ conds1[i].field = search[i].field /\ conds1[i].type = search[i].type
              /\ DOMAIN conds1[i].at = DOMAIN Samples(search[i])
              /\ \A j \in DOMAIN Samples(search[i]) :
                   /\ conds1[i].at[j] \in 1..Len(args1)
                   /\ args1[conds1[i].at[j]] = Samples(search[i])[j]
  <2>1. \A j \in 1..m : j \in 1..Len(args1) /\ args1[j] = values[j]
    BY <1>8, <1>9
  <2>2. conds1[i] = conds[i]
    BY <1>10
  <2> QED
    BY <1>7, <2>1, <2>2
<1>12. /\ conds1[k].field = search[k].field /\ conds1[k].type = search[k].type
       /\ DOMAIN conds1[k].at = DOMAIN Samples(search[k])
       /\ \A j \in DOMAIN Samples(search[k]) :
            /\ conds1[k].at[j] \in 1..Len(args1)
            /\ args1[conds1[k].at[j]] = Samples(search[k])[j]
  <2>1. s = Samples(search[k])
    BY DEF s
  <2>2. ASSUME NEW j \in DOMAIN s
        PROVE  added.at[j] \in 1..Len(args1) /\ args1[added.at[j]] = s[j]
    <3>1. j \in 1..Len(s) /\ added.at[j] = i0 + j - 1
      BY <1>5, <1>8 DEF i0
    <3>2. i0 + j - 1 = m + j /\ m + j \in 1..Len(args1)
      BY <1>8, <3>1
    <3> QED
      BY <1>9, <3>1, <3>2
  <2> QED
    BY <1>5, <1>10, <2>1, <2>2
<1>13. \A i \in 1..k : i = k \/ i \in 1..(k - 1)
  BY <1>6
<1>14. Placed(search, k, after)
  <2>1. Len(after.conds) = k /\ after.i = Len(after.args) + 1
    BY <1>8, <1>10 DEF conds1, args1, i1
  <2> QED
    BY <2>1, <1>11, <1>12, <1>13 DEF Placed, conds1, args1
<1> QED
  BY <1>14 DEF after

\* What getWhere has after each condition.
LEMMA WhereHistory ==
  ASSUME NEW V, NEW search \in Seq(Conditions(V))
  PROVE  \E h \in [0..Len(search) -> Wheres(V)] :
           /\ h[0] = [conds |-> <<>>, args |-> <<>>, i |-> 1] /\ h[Len(search)] = GetWhere(search)
           /\ \A k \in 1..Len(search) : h[k] = AddWhere(h[k - 1], search[k])
<1> DEFINE len == Len(search)
           R == Wheres(V)
           base == [conds |-> <<>>, args |-> <<>>, i |-> 1]
           F == [k \in 1..len |-> [r \in R |-> AddWhere(r, search[k])]]
           G(f) == [s \in SUBSET DOMAIN search |->
                      IF s = {} THEN base ELSE AddWhere(f[s \ {Max(s)}], search[Max(s)])]
           f == CHOOSE x : x = G(x)
<1>1. len \in Nat /\ DOMAIN search = 1..len
  OBVIOUS
<1>2. base \in R
  BY DEF Wheres
<1>3. F \in [1..len -> [R -> R]]
  <2>1. \A k \in 1..len : search[k] \in Conditions(V)
    OBVIOUS
  <2>2. \A k \in 1..len, r \in R : AddWhere(r, search[k]) \in R
    BY <2>1, AddWhereTyped
  <2> HIDE DEF R, len
  <2> QED
    BY <2>2
<1>4. PICK g \in [SUBSET (1..len) -> R] : Runs(len, base, F, g)
  <2> HIDE DEF F, len, base, R
  <2> QED
    BY <1>1, <1>2, <1>3, FoldRuns, Zenon
<1> HIDE DEF base, R, len
<1>5. g = G(g)
  <2>1. ASSUME NEW s \in SUBSET (1..len) PROVE g[s] = G(g)[s]
    <3>1. CASE s = {}
      BY <1>1, <1>4, <3>1 DEF Runs
    <3>2. CASE s # {}
      <4>1. Max(s) \in 1..len
        BY <1>1, <3>2, GreatestIsMax
      <4>2. g[s \ {Max(s)}] \in R
        BY <1>4
      <4>3. g[s] = F[Max(s)][g[s \ {Max(s)}]]
        BY <1>4, <3>2 DEF Runs
      <4>4. F[Max(s)][g[s \ {Max(s)}]] = AddWhere(g[s \ {Max(s)}], search[Max(s)])
        BY <4>1, <4>2
      <4> QED
        BY <1>1, <3>2, <4>3, <4>4
    <3> QED
      BY <3>1, <3>2
  <2>2. G(g) = [s \in SUBSET (1..len) |-> G(g)[s]] /\ g = [s \in SUBSET (1..len) |-> g[s]]
    BY <1>1, <1>4
  <2> HIDE DEF G
  <2> QED
    BY <2>1, <2>2
<1>6. f = G(f)
  <2> HIDE DEF G
  <2> QED
    BY <1>5
<1>7. GetWhere(search) = f[1..len]
  BY <1>1, Zenon DEF GetWhere, FoldLeft, MapThenFoldSet, base
<1> HIDE DEF f
<1>8. f[{}] = base
  <2>1. G(f)[{}] = base
    BY <1>1
  <2> QED
    BY <1>6, <2>1
<1>9. ASSUME NEW k \in 1..len, f[1..(k - 1)] \in R
      PROVE  f[1..k] = F[k][f[1..(k - 1)]]
  <2>1. Max(1..k) = k /\ (1..k) \ {k} = 1..(k - 1) /\ 1..k # {} /\ 1..k \in SUBSET (1..len)
    BY <1>1, LastOfPrefix
  <2>2. G(f)[1..k] = F[k][f[1..(k - 1)]]
    BY <1>1, <1>9, <2>1
  <2> QED
    BY <1>6, <2>2
<1> HIDE DEF F
<1>10. PICK h \in [0..len -> R] : Follows(len, base, F, f, h)
  <2>1. Steps(len, R, base, F, f)
    BY <1>8, <1>9 DEF Steps
  <2> QED
    BY <1>1, <1>2, <1>3, <2>1, FoldHistory, Zenon
<1>11. \A k \in 1..len : h[k] = AddWhere(h[k - 1], search[k])
  <2>1. \A k \in 1..len : h[k - 1] \in R
    BY <1>1, <1>10
  <2> QED
    BY <1>10, <2>1 DEF F, Follows
<1> QED
  BY <1>7, <1>10, <1>11 DEF Follows, base, R, len

\* getWhere places every sample.
LEMMA WherePlaced ==
  ASSUME NEW V, NEW search \in Seq(Conditions(V))
  PROVE  GetWhere(search) \in Wheres(V) /\ Placed(search, Len(search), GetWhere(search))
<1> DEFINE len == Len(search)
<1>1. PICK h \in [0..len -> Wheres(V)] :
        /\ h[0] = [conds |-> <<>>, args |-> <<>>, i |-> 1] /\ h[len] = GetWhere(search)
        /\ \A k \in 1..len : h[k] = AddWhere(h[k - 1], search[k])
  BY WhereHistory
<1> DEFINE T == {k \in 0..len : Placed(search, k, h[k])}
<1>2. len \in Nat
  OBVIOUS
<1>3. 0 \in T
  <2>1. h[0].conds = <<>> /\ h[0].args = <<>> /\ h[0].i = 1
    BY <1>1
  <2>2. Placed(search, 0, h[0])
    BY <2>1 DEF Placed
  <2> QED
    BY <2>2, <1>2
<1>4. ASSUME NEW k \in 1..len, k - 1 \in T PROVE k \in T
  <2>1. h[k - 1] \in Wheres(V) /\ Placed(search, k - 1, h[k - 1])
    BY <1>1, <1>4
  <2>2. Placed(search, k, AddWhere(h[k - 1], search[k]))
    BY <2>1, AddWherePlaces
  <2>3. h[k] = AddWhere(h[k - 1], search[k])
    BY <1>1
  <2> QED
    BY <1>2, <2>2, <2>3
<1> HIDE DEF T
<1>5. len \in T
  <2>1. \A k \in 0..len : k \in T
    BY <1>2, <1>3, <1>4, UpTo
  <2> QED
    BY <1>2, <2>1
<1> QED
  BY <1>1, <1>2, <1>5 DEF T

\* With the arguments of getWhere, PostgreSQL makes of each condition what it says.
LEMMA SqlAnswers ==
  ASSUME NEW V, NEW search \in Seq(Conditions(V)), NEW i \in 1..Len(search), NEW e
  PROVE  Holds(e, GetWhere(search).conds[i], GetWhere(search).args) <=> Satisfies(e, search[i])
<1> DEFINE w == GetWhere(search)
           c == w.conds[i]
           s == Samples(search[i])
<1>1. /\ c.field = search[i].field /\ c.type = search[i].type
      /\ DOMAIN c.at = DOMAIN s
      /\ \A j \in DOMAIN s : w.args[c.at[j]] = s[j]
  BY WherePlaced DEF Placed
<1>2. search[i] \in Conditions(V)
  OBVIOUS
<1> DEFINE cond == search[i]
           values == w.args
<1> HIDE DEF c, s, cond, values
<1>3. cond.type \in Single => s = <<cond.sample>>
  BY DEF Samples, IsIn, Single, s, cond
<1>4. cond.type \in Single => values[c.at[1]] = cond.sample
  <2> SUFFICES ASSUME cond.type \in Single PROVE values[c.at[1]] = cond.sample
    OBVIOUS
  <2>1. 1 \in DOMAIN s /\ s[1] = cond.sample
    BY <1>3
  <2> QED
    BY <1>1, <2>1 DEF values
<1>5. cond.type \in {"IN", "NOT IN"} => s = cond.sample
  BY DEF Samples, IsIn, s, cond
<1>6. /\ c.field = cond.field /\ c.type = cond.type
      /\ DOMAIN c.at = DOMAIN s /\ \A j \in DOMAIN s : values[c.at[j]] = s[j]
  BY <1>1 DEF cond, values
<1>7. cond.type \in Single \cup {"IN", "NOT IN"}
  BY <1>2 DEF Conditions, cond
<1>8. Holds(e, c, values) <=> Satisfies(e, cond)
  <2>1. CASE cond.type = "="
    BY <1>4, <1>6, <2>1, Zenon DEF Holds, Satisfies, Single
  <2>2. CASE cond.type = "!="
    BY <1>4, <1>6, <2>2, Zenon DEF Holds, Satisfies, Single
  <2>3. CASE cond.type = "<"
    BY <1>4, <1>6, <2>3, Zenon DEF Holds, Satisfies, Single
  <2>4. CASE cond.type = "<="
    BY <1>4, <1>6, <2>4, Zenon DEF Holds, Satisfies, Single
  <2>5. CASE cond.type = ">"
    BY <1>4, <1>6, <2>5, Zenon DEF Holds, Satisfies, Single
  <2>6. CASE cond.type = ">="
    BY <1>4, <1>6, <2>6, Zenon DEF Holds, Satisfies, Single
  <2>7. CASE cond.type = "IN"
    <3>1. DOMAIN c.at = DOMAIN cond.sample
          /\ \A j \in DOMAIN cond.sample : values[c.at[j]] = cond.sample[j]
      BY <1>5, <1>6, <2>7
    <3>2. Holds(e, c, values) <=> \E j \in DOMAIN c.at : e[cond.field] = values[c.at[j]]
      BY <1>6, <2>7 DEF Holds
    <3>3. Satisfies(e, cond) <=> \E j \in DOMAIN cond.sample : e[cond.field] = cond.sample[j]
      BY <2>7 DEF Satisfies
    <3> QED
      BY <3>1, <3>2, <3>3
  <2>8. CASE cond.type = "NOT IN"
    <3>1. DOMAIN c.at = DOMAIN cond.sample
          /\ \A j \in DOMAIN cond.sample : values[c.at[j]] = cond.sample[j]
      BY <1>5, <1>6, <2>8
    <3>2. Holds(e, c, values) <=> \A j \in DOMAIN c.at : e[cond.field] # values[c.at[j]]
      BY <1>6, <2>8 DEF Holds
    <3>3. Satisfies(e, cond) <=> \A j \in DOMAIN cond.sample : e[cond.field] # cond.sample[j]
      BY <2>8 DEF Satisfies
    <3> QED
      BY <3>1, <3>2, <3>3
  <2> QED
    BY <1>7, <2>1, <2>2, <2>3, <2>4, <2>5, <2>6, <2>7, <2>8 DEF Single
<1> QED
  BY <1>8 DEF c, cond, values

\* The events of a query, whatever storage looks for them.
Matching(table, search) == {e \in table : \A k \in 1..Len(search) : Satisfies(e, search[k])}

\* Those that PostgreSQL selects.
LEMMA SqlSelects ==
  ASSUME NEW V, NEW search \in Seq(Conditions(V)), NEW table
  PROVE  {e \in table : \A i \in DOMAIN GetWhere(search).conds :
                          Holds(e, GetWhere(search).conds[i], GetWhere(search).args)}
           = Matching(table, search)
<1> DEFINE w == GetWhere(search)
<1>1. DOMAIN w.conds = 1..Len(search)
  <2>1. w.conds \in Seq(Written) /\ Len(w.conds) = Len(search)
    BY WherePlaced DEF Placed, Wheres
  <2> QED
    BY <2>1
<1>2. \A e : \A i \in 1..Len(search) : Holds(e, w.conds[i], w.args) <=> Satisfies(e, search[i])
  BY SqlAnswers
<1> HIDE DEF w
<1>3. {e \in table : \A i \in DOMAIN w.conds : Holds(e, w.conds[i], w.args)}
        = Matching(table, search)
  BY <1>1, <1>2 DEF Matching
<1> QED
  BY <1>3 DEF w

\* Those that the memory storage selects, when it answers.
LEMMA MemorySelects ==
  ASSUME NEW V, NEW table, NEW search \in Seq(Conditions(V)),
         \A k \in 1..Len(search) : WholeCondition(table, search[k]),
         \A e \in table : SearchEvent(e, search) # "error"
  PROVE  {e \in table : SearchEvent(e, search) = "true"} = Matching(table, search)
<1>1. \A e \in table :
        SearchEvent(e, search) = "true" <=> \A k \in 1..Len(search) : Satisfies(e, search[k])
  BY SearchDecides
<1> QED
  BY <1>1 DEF Matching

-----------------------------------------------------------------------------
\* The fields to order by that both storages compare, and events that have them.
SortFields == [field: StringFields \cup TimeFields, direction: {"ASC", "DESC"}]
Orders == Seq(SortFields)

Ordered(events, order) ==
  \A e \in events : \A i \in 1..Len(order) :
    /\ e[order[i].field] \in Int
    /\ order[i].field \in TimeFields => e[order[i].field] % PerSecond = 0

\* The order of a list of fields, strings by their bytes.
ByBytes(order, a, b) ==
  \E i \in DOMAIN order :
    /\ \A j \in 1..(i - 1) : a[order[j].field] = b[order[j].field]
    /\ IF order[i].direction = "ASC" THEN a[order[i].field] < b[order[i].field]
       ELSE a[order[i].field] > b[order[i].field]

\* One field: its two values are equal or compared as numbers.
LEMMA FieldCompared ==
  ASSUME NEW order \in Orders, NEW events, Ordered(events, order),
         NEW a \in events, NEW b \in events, NEW i \in 1..Len(order)
  PROVE  LET x == a[order[i].field]
             y == b[order[i].field]
         IN  /\ x \in Int /\ y \in Int
             /\ LessComp(order[i].field, x, y) <=> x < y
             /\ order[i].direction \in {"ASC", "DESC"}
<1> DEFINE f == order[i].field
           x == a[f]
           y == b[f]
<1>1. order[i] \in SortFields
  BY DEF Orders
<1>2. f \in StringFields \cup TimeFields /\ order[i].direction \in {"ASC", "DESC"}
  BY <1>1 DEF SortFields
<1>3. /\ x \in Int /\ y \in Int
      /\ f \in TimeFields => x % PerSecond = 0 /\ y % PerSecond = 0
  BY DEF Ordered
<1> HIDE DEF f, x, y
<1>4. f \in TimeFields => (Unix(x) < Unix(y) <=> x < y)
  BY <1>3, WholeSecondsCompare
<1>5. LessComp(f, x, y) <=> x < y
  <2>1. CASE f \in TimeFields
    <3>1. f \notin StringFields
      BY <2>1 DEF TimeFields, StringFields
    <3> QED
      BY <1>4, <2>1, <3>1, Zenon DEF LessComp
  <2>2. CASE f \notin TimeFields
    BY <1>2, <2>2, Zenon DEF LessComp
  <2> QED
    BY <2>1, <2>2
<1> QED
  BY <1>2, <1>3, <1>5 DEF f, x, y

\* In the memory storage the first field that differs decides, strings being compared by
\* their bytes.
LEMMA FirstDecides ==
  ASSUME NEW order \in Orders, NEW events, Ordered(events, order),
         NEW a \in events, NEW b \in events
  PROVE  Before(order, a, b) <=> ByBytes(order, a, b)
<1> DEFINE len == Len(order)
           x(i) == a[order[i].field]
           y(i) == b[order[i].field]
           Asc(i) == order[i].direction = "ASC"
           Less(i) == LessComp(order[i].field, x(i), y(i))
           differ == {i \in 1..len : x(i) # y(i)}
<1>1. len \in Nat /\ DOMAIN order = 1..len
  BY DEF Orders
<1>2. \A i \in 1..len : /\ x(i) \in Int /\ y(i) \in Int /\ (Less(i) <=> x(i) < y(i))
  BY FieldCompared
<1>3. Before(order, a, b) <=> differ # {} /\ (Less(Min(differ)) <=> Asc(Min(differ)))
  BY <1>1 DEF Before
<1>4. ByBytes(order, a, b) <=>
        \E i \in 1..len : /\ \A j \in 1..(i - 1) : x(j) = y(j)
                        /\ IF Asc(i) THEN x(i) < y(i) ELSE x(i) > y(i)
  BY <1>1 DEF ByBytes
<1>5. differ # {} => Min(differ) \in differ /\ \A k \in differ : Min(differ) <= k
  <2>1. differ \subseteq Nat
    BY <1>1
  <2> HIDE DEF differ
  <2> QED
    BY <2>1, LeastIsMin
<1> HIDE DEF x, y, Asc, Less, len
<1>6. ASSUME Before(order, a, b) PROVE ByBytes(order, a, b)
  <2> DEFINE i == Min(differ)
  <2>1. i \in 1..len /\ x(i) # y(i) /\ (Less(i) <=> Asc(i))
    BY <1>3, <1>5, <1>6
  <2>2. \A k \in differ : i <= k
    BY <1>3, <1>5, <1>6
  <2>3. ASSUME NEW j \in 1..(i - 1) PROVE x(j) = y(j)
    <3>1. j \in 1..len /\ ~(i <= j)
      BY <1>1, <2>1
    <3> QED
      BY <2>2, <3>1
  <2> HIDE DEF i
  <2>4. IF Asc(i) THEN x(i) < y(i) ELSE x(i) > y(i)
    BY <1>2, <2>1
  <2> QED
    BY <1>4, <2>1, <2>3, <2>4
<1>7. ASSUME ByBytes(order, a, b) PROVE Before(order, a, b)
  <2>1. PICK i \in 1..len : /\ \A j \in 1..(i - 1) : x(j) = y(j)
                          /\ IF Asc(i) THEN x(i) < y(i) ELSE x(i) > y(i)
    BY <1>4, <1>7
  <2>2. x(i) # y(i) /\ (Less(i) <=> Asc(i))
    BY <1>2, <2>1
  <2>3. i \in differ
    BY <2>2
  <2> DEFINE m == Min(differ)
  <2>4. m \in 1..len /\ x(m) # y(m) /\ m <= i
    BY <1>5, <2>3
  <2> HIDE DEF m, differ
  <2>5. m = i
    <3> SUFFICES ASSUME m # i PROVE FALSE
      OBVIOUS
    <3>1. m \in 1..(i - 1)
      BY <1>1, <2>4
    <3> QED
      BY <2>1, <2>4, <3>1
  <2> QED
    BY <1>3, <2>2, <2>3, <2>5 DEF m
<1> QED
  BY <1>6, <1>7

\* The database has the same order when its collation keeps the strings in theirs.
LEMMA OrdersAgree ==
  ASSUME NEW order \in Orders, NEW events, Ordered(events, order),
         CollationKeeps(events, order), NEW a \in events, NEW b \in events
  PROVE  Before(order, a, b) <=> SqlBefore(order, a, b)
<1> DEFINE x(e, i) == e[order[i].field]
           p(e, i) == Key(order[i].field, e[order[i].field])
<1>1. ASSUME NEW c \in events, NEW d \in events, NEW i \in DOMAIN order
      PROVE  x(c, i) < x(d, i) <=> p(c, i) < p(d, i)
  <2>1. CASE order[i].field \in StringFields
    BY <2>1 DEF CollationKeeps, Key
  <2>2. CASE order[i].field \notin StringFields
    BY <2>2 DEF Key
  <2> QED
    BY <2>1, <2>2
<1>2. ByBytes(order, a, b) <=>
        \E i \in DOMAIN order :
          /\ \A j \in 1..(i - 1) : x(a, j) = x(b, j)
          /\ IF order[i].direction = "ASC" THEN x(a, i) < x(b, i) ELSE x(b, i) < x(a, i)
  BY Zenon DEF ByBytes
<1>3. SqlBefore(order, a, b) <=>
        \E i \in DOMAIN order :
          /\ \A j \in 1..(i - 1) : x(a, j) = x(b, j)
          /\ IF order[i].direction = "ASC" THEN p(a, i) < p(b, i) ELSE p(b, i) < p(a, i)
  BY Zenon DEF SqlBefore
<1>4. Before(order, a, b) <=> ByBytes(order, a, b)
  BY FirstDecides
<1> HIDE DEF x, p
<1> QED
  BY <1>1, <1>2, <1>3, <1>4

\* A comparison by fields, the first that differs deciding, is one that sorts.
LEMMA FieldsSort ==
  ASSUME NEW order \in Orders, NEW events, Ordered(events, order)
  PROVE  SortsBy(order, events)
<1> DEFINE len == Len(order)
           v(a, i) == a[order[i].field]
           Asc(i) == order[i].direction = "ASC"
           D(a, b, i) == IF Asc(i) THEN v(a, i) < v(b, i) ELSE v(a, i) > v(b, i)
           L(a, b) == \E i \in 1..len : (\A j \in 1..(i - 1) : v(a, j) = v(b, j)) /\ D(a, b, i)
<1>1. len \in Nat /\ DOMAIN order = 1..len
  BY DEF Orders
<1>2. \A a \in events : \A i \in 1..len : v(a, i) \in Int
  BY DEF Ordered
<1>3. \A a, b \in events : Before(order, a, b) <=> L(a, b)
  <2>1. \A a, b \in events : Before(order, a, b) <=> ByBytes(order, a, b)
    BY FirstDecides
  <2>2. \A a, b \in events : ByBytes(order, a, b) <=> L(a, b)
    BY <1>1 DEF ByBytes
  <2> QED
    BY <2>1, <2>2
<1> HIDE DEF v, Asc, len
<1>4. ASSUME NEW a \in events, NEW b \in events, NEW i \in 1..len
      PROVE  /\ ~(D(a, b, i) /\ v(a, i) = v(b, i)) /\ ~(D(a, b, i) /\ D(b, a, i))
             /\ D(a, b, i) \/ D(b, a, i) \/ v(a, i) = v(b, i)
  BY <1>2
<1>5. ASSUME NEW a \in events, NEW b \in events, NEW c \in events, NEW i \in 1..len
      PROVE  /\ D(a, b, i) /\ D(b, c, i) => D(a, c, i)
             /\ D(a, b, i) /\ v(b, i) = v(c, i) => D(a, c, i)
             /\ v(a, i) = v(b, i) /\ D(b, c, i) => D(a, c, i)
  BY <1>2
<1> HIDE DEF D
<1>6. ASSUME NEW a \in events, NEW b \in events PROVE ~(L(a, b) /\ L(b, a))
  <2> SUFFICES ASSUME L(a, b), L(b, a) PROVE FALSE
    OBVIOUS
  <2>1. PICK i \in 1..len : (\A j \in 1..(i - 1) : v(a, j) = v(b, j)) /\ D(a, b, i)
    OBVIOUS
  <2>2. PICK k \in 1..len : (\A j \in 1..(k - 1) : v(b, j) = v(a, j)) /\ D(b, a, k)
    OBVIOUS
  <2>3. CASE i = k
    BY <1>4, <2>1, <2>2, <2>3
  <2>4. CASE i < k
    <3>1. i \in 1..(k - 1)
      BY <1>1, <2>4
    <3> QED
      BY <1>4, <2>1, <2>2, <3>1
  <2>5. CASE k < i
    <3>1. k \in 1..(i - 1)
      BY <1>1, <2>5
    <3> QED
      BY <1>4, <2>1, <2>2, <3>1
  <2> QED
    BY <1>1, <2>3, <2>4, <2>5
<1>7. ASSUME NEW a \in events, NEW b \in events, NEW c \in events, L(a, b), L(b, c)
      PROVE  L(a, c)
  <2>1. PICK i \in 1..len : (\A j \in 1..(i - 1) : v(a, j) = v(b, j)) /\ D(a, b, i)
    BY <1>7
  <2>2. PICK k \in 1..len : (\A j \in 1..(k - 1) : v(b, j) = v(c, j)) /\ D(b, c, k)
    BY <1>7
  <2>3. CASE i = k
    <3>1. \A j \in 1..(i - 1) : v(a, j) = v(c, j)
      BY <2>1, <2>2, <2>3
    <3> QED
      BY <1>5, <2>1, <2>2, <2>3, <3>1
  <2>4. CASE i < k
    <3>1. i \in 1..(k - 1) /\ \A j \in 1..(i - 1) : j \in 1..(k - 1)
      BY <1>1, <2>4
    <3>2. \A j \in 1..(i - 1) : v(a, j) = v(c, j)
      BY <2>1, <2>2, <3>1
    <3>3. D(a, c, i)
      BY <1>5, <2>1, <2>2, <3>1
    <3> QED
      BY <3>2, <3>3
  <2>5. CASE k < i
    <3>1. k \in 1..(i - 1) /\ \A j \in 1..(k - 1) : j \in 1..(i - 1)
      BY <1>1, <2>5
    <3>2. \A j \in 1..(k - 1) : v(a, j) = v(c, j)
      BY <2>1, <2>2, <3>1
    <3>3. D(a, c, k)
      BY <1>5, <2>1, <2>2, <3>1
    <3> QED
      BY <3>2, <3>3
  <2> QED
    BY <1>1, <2>3, <2>4, <2>5
\* Events tie when they have the same values.
<1>8. ASSUME NEW a \in events, NEW b \in events
      PROVE  (~L(a, b) /\ ~L(b, a)) <=> \A i \in 1..len : v(a, i) = v(b, i)
  <2>1. ASSUME \A i \in 1..len : v(a, i) = v(b, i) PROVE ~L(a, b) /\ ~L(b, a)
    BY <1>4, <2>1
  <2>2. ASSUME ~(\A i \in 1..len : v(a, i) = v(b, i)) PROVE L(a, b) \/ L(b, a)
    <3> DEFINE S == {i \in 1..len : v(a, i) # v(b, i)}
    <3>1. S \subseteq Nat /\ S # {}
      BY <1>1, <2>2
    <3>2. PICK m \in S : \A k \in S : m <= k
      BY <3>1, LeastNatural
    <3>3. m \in 1..len /\ v(a, m) # v(b, m)
      OBVIOUS
    <3>4. ASSUME NEW j \in 1..(m - 1) PROVE v(a, j) = v(b, j)
      <4>1. j \in 1..len /\ ~(m <= j)
        BY <1>1, <3>3
      <4> QED
        BY <3>2, <4>1
    <3> HIDE DEF S
    <3>5. D(a, b, m) \/ D(b, a, m)
      BY <1>4, <3>3
    <3> QED
      BY <3>3, <3>4, <3>5
  <2> QED
    BY <2>1, <2>2
<1> HIDE DEF L
<1>9. ASSUME NEW a \in events, NEW b \in events, NEW c \in events
      PROVE  /\ ~(Before(order, a, b) /\ Before(order, b, a))
             /\ Before(order, a, b) /\ Before(order, b, c) => Before(order, a, c)
             /\ ((~Before(order, a, b) /\ ~Before(order, b, a))
                  /\ (~Before(order, b, c) /\ ~Before(order, c, b)))
                => (~Before(order, a, c) /\ ~Before(order, c, a))
  <2>1. ~(Before(order, a, b) /\ Before(order, b, a))
    BY <1>3, <1>6
  <2>2. Before(order, a, b) /\ Before(order, b, c) => Before(order, a, c)
    BY <1>3, <1>7
  <2>3. ((~L(a, b) /\ ~L(b, a)) /\ (~L(b, c) /\ ~L(c, b))) => (~L(a, c) /\ ~L(c, a))
    BY <1>8
  <2> QED
    BY <1>3, <2>1, <2>2, <2>3
<1> QED
  BY <1>9 DEF SortsBy

\* A sequence of a finite set that repeats nothing and is as long has all of it.
LEMMA SequencesOfSet ==
  ASSUME NEW S, IsFiniteSet(S), NEW s \in SetToSeqs(S)
  PROVE  s \in Seq(S) /\ Range(s) = S /\ Len(s) = Cardinality(S)
<1> DEFINE len == Cardinality(S)
<1>1. len \in Nat
  BY FS_CardinalityType
<1>2. s \in [1..len -> S] /\ \A i, j \in 1..len : i # j => s[i] # s[j]
  BY DEF SetToSeqs
<1>3. s \in Injection(1..len, S)
  BY <1>2 DEF Injection, IsInjective
<1>4. Cardinality(1..len) = len
  <2>1. Cardinality(1..len) = IF 1 > len THEN 0 ELSE len - 1 + 1
    BY <1>1, FS_Interval
  <2> HIDE DEF len
  <2> QED
    BY <1>1, <2>1
<1>5. s \in Surjection(1..len, S)
  <2> HIDE DEF len
  <2>1. Cardinality(1..len) = Cardinality(S) <=> s \in Surjection(1..len, S)
    BY <1>3, FS_Injection
  <2> QED
    BY <1>4, <2>1 DEF len
<1>6. Range(s) = S
  BY <1>2, <1>5 DEF Surjection, Range
<1>7. s \in Seq(S) /\ Len(s) = len
  <2> HIDE DEF len
  <2> QED
    BY <1>1, <1>2
<1> QED
  BY <1>6, <1>7

\* A query whose samples and values can be compared, and events that have the fields it
\* names.
CanAsk(table, search, order) ==
  /\ \A k \in 1..Len(search) :
       (search[k].type \in {"<", "<=", ">", ">="} /\ search[k].field \in TimeFields) =>
         /\ search[k].sample \in Int /\ search[k].sample % PerSecond = 0
         /\ \A e \in table : search[k].field \in DOMAIN e /\ e[search[k].field] \in Int
  /\ \A i \in 1..Len(order) :
       \A e \in table : order[i].field \in DOMAIN e /\ e[order[i].field] \in Int

\* The storages agree on every query, whatever its conditions and its order, when the
\* times it compares are whole seconds and both answer it: on the events, whatever the
\* collation of the database, and on their order when the collation keeps the strings
\* that the query orders by in the order of their bytes.
THEOREM StoragesAlwaysAgree ==
  ASSUME NEW V, NEW table, IsFiniteSet(table), NEW search \in Seq(Conditions(V)),
         NEW order \in Orders, CanAsk(table, search, order)
  PROVE  StoragesAgree(table, search, order)
<1> DEFINE memory == MemoryGetEvents(table, search, order)
           sql == SqlGetEvents(table, search, order)
           events == Matching(table, search)
<1> SUFFICES ASSUME WholeSeconds(table), memory # {Failed}, sql # {Failed}
             PROVE  /\ \A s \in memory, t \in sql : Range(s) = Range(t) /\ Len(s) = Len(t)
                    /\ CollationKeeps(table, order) => memory = sql
  BY DEF StoragesAgree
<1>1. \A e \in table : SearchEvent(e, search) # "error"
  BY DEF MemoryGetEvents
<1>2. \A k \in 1..Len(search) : WholeCondition(table, search[k])
  BY DEF CanAsk, WholeCondition, WholeSeconds
<1>3. memory = Arrangements(order, events)
  <2>1. {e \in table : SearchEvent(e, search) = "true"} = events
    BY <1>1, <1>2, MemorySelects
  <2> QED
    BY <1>1, <2>1, Zenon DEF MemoryGetEvents
<1>4. sql = {s \in SetToSeqs(events) :
               \A i, j \in DOMAIN s : i < j => ~SqlBefore(order, s[j], s[i])}
  <2> DEFINE w == GetWhere(search)
  <2>1. {e \in table : \A i \in DOMAIN w.conds : Holds(e, w.conds[i], w.args)} = events
    BY SqlSelects
  <2>2. ~(\E i \in DOMAIN search : IsIn(search[i]) /\ search[i].sample = <<>>)
    BY DEF SqlGetEvents
  <2> QED
    BY <2>1, <2>2, Zenon DEF SqlGetEvents
<1>5. Ordered(events, order)
  <2>1. events \subseteq table
    BY DEF Matching
  <2> QED
    BY <2>1 DEF CanAsk, Ordered, WholeSeconds
<1>9. events \subseteq table
  BY DEF Matching
<1> HIDE DEF events
<1>6. \A s \in memory, t \in sql : Range(s) = Range(t) /\ Len(s) = Len(t)
  <2>1. IsFiniteSet(events)
    BY <1>9, FS_Subset
  <2>2. memory \subseteq SetToSeqs(events) /\ sql \subseteq SetToSeqs(events)
    BY <1>3, <1>4 DEF Arrangements
  <2>3. \A s \in SetToSeqs(events) : Range(s) = events /\ Len(s) = Cardinality(events)
    BY <2>1, SequencesOfSet
  <2> HIDE DEF memory, sql
  <2> QED
    BY <2>2, <2>3
<1>7. ASSUME CollationKeeps(table, order) PROVE memory = sql
  <2>1. CollationKeeps(events, order)
    BY <1>7, <1>9 DEF CollationKeeps
  <2>2. SortsBy(order, events)
    BY <1>5, FieldsSort
  <2>3. ASSUME NEW s \in SetToSeqs(events), NEW i \in DOMAIN s, NEW j \in DOMAIN s
        PROVE  Before(order, s[j], s[i]) <=> SqlBefore(order, s[j], s[i])
    <3>1. s[i] \in events /\ s[j] \in events
      BY DEF SetToSeqs
    <3> QED
      BY <1>5, <2>1, <3>1, OrdersAgree
  <2>4. Arrangements(order, events) =
          {s \in SetToSeqs(events) :
             \A i, j \in DOMAIN s : i < j => ~Before(order, s[j], s[i])}
    BY <2>2, Zenon DEF Arrangements
  <2> QED
    BY <1>3, <1>4, <2>3, <2>4
<1> QED
  BY <1>6, <1>7

-----------------------------------------------------------------------------
\* Multiples are compared by their factors.
LEMMA TimesMonotone ==
  ASSUME NEW p \in Int, p > 0, NEW a \in Int, NEW b \in Int
  PROVE  /\ p * a \in Int /\ p * b \in Int
         /\ a < b <=> p * a < p * b
         /\ a <= b <=> p * a <= p * b
<1>1. p * a \in Int /\ p * b \in Int
  OBVIOUS
<1>2. a < b => p * a < p * b
  OBVIOUS
<1>3. b < a => p * b < p * a
  OBVIOUS
<1>4. a = b => p * a = p * b
  OBVIOUS
<1> DEFINE x == p * a
           y == p * b
<1> HIDE DEF x, y
<1>5. /\ x \in Int /\ y \in Int
      /\ a < b => x < y
      /\ b < a => y < x
      /\ a = b => x = y
  BY <1>1, <1>2, <1>3, <1>4 DEF x, y
<1>6. (a < b <=> x < y) /\ (a <= b <=> x <= y)
  BY <1>5
<1> QED
  BY <1>1, <1>6 DEF x, y

\* The multiples around a number.
LEMMA Quotient ==
  ASSUME NEW p \in Int, p > 0, NEW t \in Int, NEW k \in Int
  PROVE  /\ t \div p \in Int
         /\ k <= t \div p <=> p * k <= t
         /\ t \div p < k <=> t < p * k
<1> DEFINE q == t \div p
<1>1. q \in Int /\ p * q <= t /\ t < p * q + p
  OBVIOUS
<1> HIDE DEF q
<1>2. /\ p * k \in Int /\ p * q \in Int /\ p * (q + 1) \in Int
      /\ k <= q <=> p * k <= p * q
      /\ q + 1 <= k <=> p * (q + 1) <= p * k
      /\ p * (q + 1) = p * q + p
  <2>1. q + 1 \in Int
    BY <1>1
  <2>2. p * (q + 1) = p * q + p
    BY <1>1
  <2> QED
    BY <1>1, <2>1, <2>2, TimesMonotone
<1> DEFINE x == p * k
           y == p * q
           z == p * (q + 1)
<1> HIDE DEF x, y, z
<1>3. /\ x \in Int /\ y \in Int /\ z \in Int /\ z = y + p /\ y <= t /\ t < z
      /\ k <= q <=> x <= y
      /\ q + 1 <= k <=> z <= x
  BY <1>1, <1>2 DEF x, y, z
<1>4. (k <= q <=> x <= t) /\ (q < k <=> t < x)
  BY <1>1, <1>3
<1> QED
  BY <1>1, <1>4 DEF q, x

\* The memory storage compares seconds: a time with the first moment of a second, or
\* with the last, as the times themselves.
LEMMA SecondsBound ==
  ASSUME NEW t \in Int, NEW k \in Int
  PROVE  /\ Unix(t) \in Int /\ Unix(PerSecond * k) \in Int /\ Unix(PerSecond * k - 1) \in Int
         /\ Unix(PerSecond * k) <= Unix(t) <=> PerSecond * k <= t
         /\ Unix(t) <= Unix(PerSecond * k - 1) <=> t <= PerSecond * k - 1
<1> DEFINE P == PerSecond
           first == P * k
           last == P * k - 1
<1>1. P \in Int /\ P > 0
  BY UnitsAssumption
<1>2. first \in Int /\ last \in Int /\ last = first - 1
  BY <1>1
<1> HIDE DEF P, first, last
<1>3. t \div P \in Int /\ first \div P \in Int /\ last \div P \in Int
  BY <1>1, <1>2, Quotient
<1>4. first = P * k
  BY DEF first
<1>5. first \div P = k
  <2>1. /\ k <= first \div P <=> P * k <= first
        /\ first \div P < k + 1 <=> first < P * (k + 1)
    <3>1. k + 1 \in Int
      OBVIOUS
    <3> QED
      BY <1>1, <1>2, <3>1, Quotient
  <2>2. P * (k + 1) = first + P
    BY <1>1, <1>4
  <2>3. P * k <= first /\ first < P * (k + 1)
    BY <1>1, <1>2, <1>4, <2>2
  <2> QED
    BY <1>3, <2>1, <2>3
<1>6. last \div P = k - 1
  <2>1. /\ k - 1 <= last \div P <=> P * (k - 1) <= last
        /\ last \div P < k <=> last < P * k
    <3>1. k - 1 \in Int
      OBVIOUS
    <3> QED
      BY <1>1, <1>2, <3>1, Quotient
  <2>2. P * (k - 1) = first - P
    BY <1>1, <1>4
  <2>3. P * (k - 1) <= last /\ last < P * k
    BY <1>1, <1>2, <1>4, <2>2
  <2> QED
    BY <1>3, <2>1, <2>3
<1>7. /\ k <= t \div P <=> first <= t
      /\ t \div P < k <=> t < first
  BY <1>1, <1>4, Quotient
<1>8. /\ first \div P <= t \div P <=> first <= t
      /\ t \div P <= last \div P <=> t <= last
  BY <1>2, <1>3, <1>5, <1>6, <1>7
<1> QED
  BY <1>3, <1>8 DEF Unix, P, first, last

\* A period of days, in instants.
LEMMA PeriodBounds ==
  ASSUME NEW day \in Int, NEW days \in Nat, NEW t \in Int
  PROVE  /\ day * Day = PerSecond * (day * DaySeconds)
         /\ LastOf(day * Day, days) = PerSecond * ((day + days) * DaySeconds) - 1
         /\ day * DaySeconds \in Int /\ (day + days) * DaySeconds \in Int
         /\ day * Day \in Int /\ LastOf(day * Day, days) \in Int
         /\ t \div Day \in day..(day + days - 1) <=>
              day * Day <= t /\ t <= LastOf(day * Day, days)
<1>1. PerSecond \in Int /\ PerSecond > 0 /\ DaySeconds \in Int /\ DaySeconds > 0
  BY UnitsAssumption
<1>2. Day \in Int /\ Day > 0
  BY <1>1 DEF Day
<1>3. day * DaySeconds \in Int /\ (day + days) * DaySeconds \in Int
  BY <1>1
<1>4. day * Day = PerSecond * (day * DaySeconds)
  BY <1>1 DEF Day
<1>5. (day + days) * Day = PerSecond * ((day + days) * DaySeconds)
  BY <1>1 DEF Day
<1>6. day * Day + days * Day = (day + days) * Day
  BY <1>2
<1>7. LastOf(day * Day, days) = (day + days) * Day - 1
  BY <1>2, <1>6 DEF LastOf
<1>8. /\ Day * day = day * Day /\ Day * (day + days) = (day + days) * Day
      /\ day * Day \in Int /\ (day + days) * Day \in Int
  BY <1>2
<1>9. /\ t \div Day \in Int
      /\ day <= t \div Day <=> Day * day <= t
      /\ t \div Day < day + days <=> t < Day * (day + days)
  <2>1. day + days \in Int
    OBVIOUS
  <2> QED
    BY <1>2, <2>1, Quotient
<1>10. t \div Day \in day..(day + days - 1) <=> day * Day <= t /\ t <= (day + days) * Day - 1
  <2> DEFINE q == t \div Day
             x == day * Day
             y == (day + days) * Day
  <2>1. q \in Int /\ x \in Int /\ y \in Int /\ (day <= q <=> x <= t) /\ (q < day + days <=> t < y)
    BY <1>8, <1>9
  <2> HIDE DEF q, x, y
  <2>2. q \in day..(day + days - 1) <=> x <= t /\ t <= y - 1
    BY <2>1
  <2> QED
    BY <2>2 DEF q, x, y
<1>11. (day + days) * Day - 1 \in Int
  BY <1>8
<1> QED
  BY <1>3, <1>4, <1>5, <1>7, <1>8, <1>10, <1>11

\* Events as the periods need them.
DatedEvents(table) == IsFiniteSet(table) /\ \A e \in table : e.StartDate \in Int

\* What a period asks for.
InPeriod(e, user, start, end) == e.UserID = user /\ start <= e.StartDate /\ e.StartDate <= end

\* The memory storage finds the events of a period and does not fail.
LEMMA MemoryFindsPeriod ==
  ASSUME NEW e, e.StartDate \in Int, NEW user, NEW day \in Int, NEW days \in Nat
  PROVE  LET start == day * Day
             end == LastOf(start, days)
             search == PeriodSearch(user, start, end)
         IN  /\ SearchEvent(e, search) # "error"
             /\ SearchEvent(e, search) = "true" <=> InPeriod(e, user, start, end)
<1> DEFINE start == day * Day
           end == LastOf(start, days)
           search == PeriodSearch(user, start, end)
           t == e.StartDate
           A(k) == ApplyCondition(e, search[k])
<1>1. /\ start = PerSecond * (day * DaySeconds)
      /\ end = PerSecond * ((day + days) * DaySeconds) - 1
      /\ day * DaySeconds \in Int /\ (day + days) * DaySeconds \in Int
      /\ start \in Int /\ end \in Int
  BY PeriodBounds
<1> HIDE DEF start, end
<1>2. /\ Unix(t) \in Int /\ Unix(start) \in Int /\ Unix(end) \in Int
      /\ Unix(start) <= Unix(t) <=> start <= t
      /\ Unix(t) <= Unix(end) <=> t <= end
  BY <1>1, SecondsBound
<1>3. /\ Len(search) = 3 /\ search \in Seq({search[1], search[2], search[3]})
      /\ search[1] = Condition("UserID", "=", user)
      /\ search[2] = Condition("StartDate", ">=", start)
      /\ search[3] = Condition("StartDate", "<=", end)
  BY DEF PeriodSearch
<1>4. A(1) = Truth(e.UserID = user)
  BY <1>3 DEF ApplyCondition, Condition
<1>5. A(2) = Truth(Unix(start) <= Unix(t))
  <2>1. A(2) = Compare("StartDate", ">=", t, start)
    BY <1>3 DEF ApplyCondition, Condition
  <2>2. Compare("StartDate", ">=", t, start) = Truth(Unix(t) > Unix(start) \/ Unix(t) = Unix(start))
    BY DEF Compare, TimeFields
  <2>3. (Unix(t) > Unix(start) \/ Unix(t) = Unix(start)) <=> Unix(start) <= Unix(t)
    BY <1>2
  <2> QED
    BY <2>1, <2>2, <2>3 DEF Truth
<1>6. A(3) = Truth(Unix(t) <= Unix(end))
  <2>1. A(3) = Compare("StartDate", "<=", t, end)
    BY <1>3 DEF ApplyCondition, Condition
  <2>2. Compare("StartDate", "<=", t, end) = Truth(Unix(t) < Unix(end) \/ Unix(t) = Unix(end))
    BY DEF Compare, TimeFields
  <2>3. (Unix(t) < Unix(end) \/ Unix(t) = Unix(end)) <=> Unix(t) <= Unix(end)
    BY <1>2
  <2> QED
    BY <2>1, <2>2, <2>3 DEF Truth
<1>7. \A b : /\ Truth(b) \in Answers /\ Truth(b) # "error"
             /\ Truth(b) = "true" <=> b
  BY DEF Truth, Answers
<1>8. \A k \in 1..Len(search) : A(k) \in Answers /\ A(k) # "error"
  <2>1. \A k \in 1..Len(search) : k \in {1, 2, 3}
    BY <1>3
  <2> QED
    BY <2>1, <1>4, <1>5, <1>6, <1>7
<1>9. /\ SearchEvent(e, search) \in Answers
      /\ SearchEvent(e, search) = "true" => \A k \in 1..Len(search) : A(k) = "true"
      /\ SearchEvent(e, search) # "true" => \E k \in 1..Len(search) : A(k) = SearchEvent(e, search)
  BY <1>3, <1>8, SearchAnswers
<1> HIDE DEF A, search, t
<1>10. SearchEvent(e, search) # "error"
  BY <1>8, <1>9
<1>11. SearchEvent(e, search) = "true" <=> A(1) = "true" /\ A(2) = "true" /\ A(3) = "true"
  <2>1. \A k \in 1..Len(search) : k \in {1, 2, 3}
    BY <1>3
  <2>2. 1 \in 1..Len(search) /\ 2 \in 1..Len(search) /\ 3 \in 1..Len(search)
    BY <1>3
  <2> QED
    BY <1>9, <2>1, <2>2
<1>12. SearchEvent(e, search) = "true" <=> e.UserID = user /\ start <= t /\ t <= end
  BY <1>2, <1>4, <1>5, <1>6, <1>7, <1>11
<1> QED
  BY <1>10, <1>12 DEF InPeriod, start, end, search, t

\* PostgreSQL finds the same ones.
LEMMA SqlFindsPeriod ==
  ASSUME NEW e, NEW user, NEW start \in Int, NEW end \in Int, e.StartDate \in Int
  PROVE  (\A k \in 1..Len(PeriodSearch(user, start, end)) :
            Satisfies(e, PeriodSearch(user, start, end)[k])) <=> InPeriod(e, user, start, end)
<1> DEFINE search == PeriodSearch(user, start, end)
<1>1. /\ Len(search) = 3
      /\ search[1] = Condition("UserID", "=", user)
      /\ search[2] = Condition("StartDate", ">=", start)
      /\ search[3] = Condition("StartDate", "<=", end)
  BY DEF PeriodSearch
<1> HIDE DEF search
<1>2. Satisfies(e, search[1]) <=> e.UserID = user
  BY <1>1 DEF Satisfies, Condition
<1>6. \A v : Key("StartDate", v) = v
  BY DEF Key, StringFields
<1>3. Satisfies(e, search[2]) <=> start <= e.StartDate
  <2>1. Satisfies(e, search[2]) <=> e.StartDate >= start
    BY <1>1, <1>6 DEF Satisfies, Condition
  <2> QED
    BY <2>1
<1>4. Satisfies(e, search[3]) <=> e.StartDate <= end
  BY <1>1, <1>6 DEF Satisfies, Condition
<1>5. (\A k \in 1..Len(search) : Satisfies(e, search[k])) <=>
         Satisfies(e, search[1]) /\ Satisfies(e, search[2]) /\ Satisfies(e, search[3])
  <2>1. \A k \in 1..Len(search) : k \in {1, 2, 3}
    BY <1>1
  <2>2. 1 \in 1..Len(search) /\ 2 \in 1..Len(search) /\ 3 \in 1..Len(search)
    BY <1>1
  <2> QED
    BY <2>1, <2>2
<1> QED
  BY <1>2, <1>3, <1>4, <1>5 DEF InPeriod, search

\* A condition with one sample.
LEMMA OneSample ==
  ASSUME NEW V, NEW field \in EventFields, NEW type \in Single, NEW sample \in V
  PROVE  Condition(field, type, sample) \in Conditions(V)
<1>1. Condition(field, type, sample) \in [field: EventFields, type: Single, sample: V]
  BY DEF Condition
<1> QED
  BY <1>1 DEF Conditions

\* A user who asks for some days gets the events that start on them, from the first
\* moment to the last, all of them and each once, from either storage: for any events,
\* any length of the seconds and of the days.
THEOREM PeriodAlwaysExact ==
  ASSUME NEW table, DatedEvents(table), Failed \notin Seq(table),
         NEW user, NEW day \in Int, NEW days \in Nat
  PROVE  PeriodIsExact(table, user, day, days)
<1> DEFINE start == day * Day
           end == LastOf(start, days)
           search == PeriodSearch(user, start, end)
           wanted == {e \in table :
                        e.UserID = user /\ e.StartDate \div Day \in day..(day + days - 1)}
<1>1. start \in Int /\ end \in Int
  BY PeriodBounds
<1>2. wanted = {e \in table : InPeriod(e, user, start, end)}
  <2>1. \A e \in table : e.StartDate \div Day \in day..(day + days - 1) <=>
                           start <= e.StartDate /\ e.StartDate <= end
    BY PeriodBounds DEF DatedEvents
  <2> HIDE DEF start, end
  <2> QED
    BY <2>1 DEF InPeriod
<1>3. MemoryGetEvents(table, search, PeriodSort) = Arrangements(PeriodSort, wanted)
  <2>1. \A e \in table : /\ SearchEvent(e, search) # "error"
                         /\ SearchEvent(e, search) = "true" <=> InPeriod(e, user, start, end)
    BY MemoryFindsPeriod DEF DatedEvents
  <2> HIDE DEF start, end, search, wanted
  <2>2. {e \in table : SearchEvent(e, search) = "true"} = wanted
    BY <1>2, <2>1
  <2> QED
    BY <2>1, <2>2, Zenon DEF MemoryGetEvents
<1>4. SqlGetEvents(table, search, PeriodSort) \subseteq SetToSeqs(wanted)
  <2> DEFINE V == {user} \cup Int
             w == GetWhere(search)
  <2>1. search \in Seq(Conditions(V))
    <3>1. /\ Condition("UserID", "=", user) \in Conditions(V)
          /\ Condition("StartDate", ">=", start) \in Conditions(V)
          /\ Condition("StartDate", "<=", end) \in Conditions(V)
      <4>1. user \in V /\ start \in V /\ end \in V
        BY <1>1
      <4>2. "=" \in Single /\ ">=" \in Single /\ "<=" \in Single
        BY DEF Single
      <4>3. "UserID" \in EventFields /\ "StartDate" \in EventFields
        BY DEF EventFields, TimeFields
      <4> HIDE DEF start, end, V, search, wanted, w
      <4> QED
        BY <4>1, <4>2, <4>3, OneSample
    <3> HIDE DEF start, end, V
    <3> QED
      BY <3>1 DEF PeriodSearch
  <2>2. {e \in table : \A i \in DOMAIN w.conds : Holds(e, w.conds[i], w.args)}
          = Matching(table, search)
    <3> HIDE DEF search, V
    <3> QED
      BY <2>1, SqlSelects
  <2>3. Matching(table, search) = wanted
    <3> HIDE DEF start, end
    <3>1. \A e \in table : (\A k \in 1..Len(search) : Satisfies(e, search[k]))
                             <=> InPeriod(e, user, start, end)
      BY <1>1, SqlFindsPeriod DEF DatedEvents
    <3> HIDE DEF search, wanted
    <3> QED
      BY <1>2, <3>1 DEF Matching
  <2>4. ~(\E i \in DOMAIN search : IsIn(search[i]) /\ search[i].sample = <<>>)
    <3>1. \A i \in DOMAIN search : ~IsIn(search[i])
      <4> HIDE DEF start, end
      <4>1. /\ DOMAIN search = {1, 2, 3}
            /\ search[1].type = "=" /\ search[2].type = ">=" /\ search[3].type = "<="
        BY DEF PeriodSearch, Condition
      <4> HIDE DEF search
      <4> QED
        BY <4>1 DEF IsIn
    <3> QED
      BY <3>1
  <2> HIDE DEF search, wanted, V
  <2>5. SqlGetEvents(table, search, PeriodSort) =
          {s \in SetToSeqs(wanted) :
             \A i, j \in DOMAIN s : i < j => ~SqlBefore(PeriodSort, s[j], s[i])}
    BY <2>2, <2>3, <2>4, Zenon DEF SqlGetEvents
  <2> QED
    BY <2>5
<1>5. Arrangements(PeriodSort, wanted) \subseteq SetToSeqs(wanted)
  BY DEF Arrangements
<1>6. EventsForPeriod(table, user, day, days) \subseteq SetToSeqs(wanted)
  <2> HIDE DEF wanted
  <2> QED
    BY <1>3, <1>4, <1>5 DEF EventsForPeriod
<1>7. IsFiniteSet(wanted) /\ wanted \subseteq table
  <2>1. wanted \in SUBSET table /\ IsFiniteSet(table)
    BY DEF DatedEvents
  <2> HIDE DEF wanted
  <2> QED
    BY <2>1, FS_Subset
<1> HIDE DEF wanted
<1>8. \A s \in SetToSeqs(wanted) :
        s # Failed /\ Range(s) = wanted /\ Len(s) = Cardinality(wanted)
  <2> SUFFICES ASSUME NEW s \in SetToSeqs(wanted)
               PROVE  s # Failed /\ Range(s) = wanted /\ Len(s) = Cardinality(wanted)
    OBVIOUS
  <2>1. s \in Seq(wanted) /\ Range(s) = wanted /\ Len(s) = Cardinality(wanted)
    BY <1>7, SequencesOfSet
  <2>2. s \in Seq(table)
    BY <1>7, <2>1
  <2> QED
    BY <2>1, <2>2
<1> QED
  BY <1>6, <1>8 DEF PeriodIsExact, wanted

(**************************************************************************)
(* Validate of hw09.                                                      *)
(**************************************************************************)

\* The structs of the language: strings of characters, ints, slices of either, and tags
\* whose constraints are ints or nothing when they are read as ints, and expressions or
\* nothing when they are read as expressions.
Tails == {"other", "dollar", "escaped dollar"}

SoundArg(rule) ==
  /\ rule.arg.int \in Int \cup {BadArg}
  /\ \E Langs : rule.arg.regexp \in {BadArg} \cup [lang: Langs, tail: Tails]

SoundField(field, Char) ==
  /\ field.kind \in Kinds
  /\ field.kind = "int" => field.value \in Int
  /\ field.kind = "ints" => field.value \in Seq(Int)
  /\ field.kind = "string" => field.value \in Seq(Char)
  /\ field.kind = "strings" => field.value \in Seq(Seq(Char))
  /\ field.rules # NoTag =>
       /\ \E S : field.rules \in Seq(S)
       /\ \A j \in DOMAIN field.rules : SoundArg(field.rules[j])

SoundStruct(struct, Char) ==
  /\ \E S : struct \in Seq(S)
  /\ \A i \in DOMAIN struct : SoundField(struct[i], Char)

\* What a rule allows an element to be, as the code understands it.
Allows(rule, kind, x) ==
  CASE rule.name = "len" -> Cardinality(Bytes(x)) = RuleArg(rule, kind)
    [] rule.name = "regexp" -> Matches([RuleArg(rule, kind) EXCEPT !.tail = AddEnd(@)], x)
    [] rule.name = "in" -> x \in RuleArg(rule, kind)
    [] rule.name = "min" -> ~(x < RuleArg(rule, kind))
    [] rule.name = "max" -> ~(x > RuleArg(rule, kind))

\* The names of the strategies.
CreatorNames == {"len", "regexp", "inStr", "inInt", "min", "max"}

\* The creators of the factory, by their place.
LEMMA CreatorAt ==
  /\ DOMAIN Creators = 1..6
  /\ Creators[1] = "len" /\ Creators[2] = "regexp" /\ Creators[3] = "inStr"
  /\ Creators[4] = "inInt" /\ Creators[5] = "min" /\ Creators[6] = "max"
BY DEF Creators

\* A single number is its own greatest.
LEMMA MaxOfOne ==
  ASSUME NEW k \in Nat \ {0}
  PROVE  Max({k}) = k
<1>1. k \in Nat /\ {k} \subseteq 1..k /\ {k} # {}
  OBVIOUS
<1>2. Max({k}) \in {k}
  BY <1>1, GreatestIsMax
<1> QED
  BY <1>2

\* At most one strategy suits a name and a kind.
Suitable(name, kind) == {i \in DOMAIN Creators : IsSuitable(Creators[i], name, kind)}

\* What suits a name and a kind is the one strategy with that name for it.
LEMMA SuitableIs ==
  ASSUME NEW name, NEW kind \in Kinds
  PROVE  /\ OfStrings(kind) => ~OfInts(kind)
         /\ (name = "len" /\ OfStrings(kind)) => Suitable(name, kind) = {1}
         /\ (name = "regexp" /\ OfStrings(kind)) => Suitable(name, kind) = {2}
         /\ (name = "in" /\ OfStrings(kind)) => Suitable(name, kind) = {3}
         /\ (name = "in" /\ OfInts(kind)) => Suitable(name, kind) = {4}
         /\ (name = "min" /\ OfInts(kind)) => Suitable(name, kind) = {5}
         /\ (name = "max" /\ OfInts(kind)) => Suitable(name, kind) = {6}
         /\ (name \in {"len", "regexp"} /\ ~OfStrings(kind)) => Suitable(name, kind) = {}
         /\ (name \in {"min", "max"} /\ ~OfInts(kind)) => Suitable(name, kind) = {}
         /\ (name = "in" /\ ~OfStrings(kind) /\ ~OfInts(kind)) => Suitable(name, kind) = {}
<1>1. OfStrings(kind) => ~OfInts(kind)
  BY DEF OfStrings, OfInts
<1>4. /\ IsSuitable("len", name, kind) <=> name = "len" /\ OfStrings(kind)
      /\ IsSuitable("regexp", name, kind) <=> name = "regexp" /\ OfStrings(kind)
      /\ IsSuitable("min", name, kind) <=> name = "min" /\ OfInts(kind)
      /\ IsSuitable("max", name, kind) <=> name = "max" /\ OfInts(kind)
  BY DEF IsSuitable
<1>5. /\ IsSuitable("inStr", name, kind) <=> name = "in" /\ OfStrings(kind)
      /\ IsSuitable("inInt", name, kind) <=> name = "in" /\ OfInts(kind)
  BY DEF IsSuitable
<1>2. /\ 1 \in Suitable(name, kind) <=> name = "len" /\ OfStrings(kind)
      /\ 2 \in Suitable(name, kind) <=> name = "regexp" /\ OfStrings(kind)
      /\ 3 \in Suitable(name, kind) <=> name = "in" /\ OfStrings(kind)
      /\ 4 \in Suitable(name, kind) <=> name = "in" /\ OfInts(kind)
      /\ 5 \in Suitable(name, kind) <=> name = "min" /\ OfInts(kind)
      /\ 6 \in Suitable(name, kind) <=> name = "max" /\ OfInts(kind)
  BY <1>4, <1>5, CreatorAt DEF Suitable
<1>3. Suitable(name, kind) \subseteq {1, 2, 3, 4, 5, 6}
  BY CreatorAt DEF Suitable
<1> QED
  BY <1>1, <1>2, <1>3

\* A strategy makes its own validator, or none.
LEMMA Making ==
  ASSUME NEW creator, NEW arg
  PROVE  LET v == MakeValidator(creator, arg) IN
         /\ v.made <=> Parsed(creator, arg) # BadArg
         /\ v.made => v.by = creator /\ v.arg = Compiled(creator, arg)
BY DEF MakeValidator, TagError

\* With a strategy the factory makes its validator, or fails with its error.
LEMMA OnlyStrategy ==
  ASSUME NEW name \in ValidatorNames, NEW arg, NEW kind, NEW k \in 1..6,
         Suitable(name, kind) = {k}
  PROVE  LET v == CreateValidatorForKind(name, arg, kind) IN
         /\ v.made <=> Parsed(Creators[k], arg) # BadArg
         /\ v.made => v.by = Creators[k] /\ v.arg = Compiled(Creators[k], arg)
<1> DEFINE w == MakeValidator(Creators[k], arg)
<1>1. Max({k}) = k
  BY MaxOfOne
<1>2. CreateValidatorForKind(name, arg, kind) = IF ~w.made THEN TagError ELSE w
  BY <1>1 DEF CreateValidatorForKind, Suitable
<1>3. ~TagError.made
  BY DEF TagError
<1> HIDE DEF w
<1>4. /\ w.made <=> Parsed(Creators[k], arg) # BadArg
      /\ w.made => w.by = Creators[k] /\ w.arg = Compiled(Creators[k], arg)
  BY Making DEF w
<1> QED
  BY <1>2, <1>3, <1>4

\* Without one the factory fails.
LEMMA NoStrategy ==
  ASSUME NEW name, NEW arg, NEW kind, name \notin ValidatorNames \/ Suitable(name, kind) = {}
  PROVE  ~CreateValidatorForKind(name, arg, kind).made
BY DEF CreateValidatorForKind, Suitable, TagError

\* The factory makes a validator for the good rules only, of the type of the field, and
\* that validator accepts what the rule allows.
LEMMA ValidatorMade ==
  ASSUME NEW rule, SoundArg(rule), NEW kind \in Kinds \ {"unsupported"}
  PROVE  LET v == CreateValidatorForKind(rule.name, rule.arg, kind) IN
         /\ (rule.colon /\ v.made) <=> GoodRule(rule, kind)
         /\ v.made => /\ v.by \in CreatorNames
                      /\ TakesStrings(v) <=> OfStrings(kind)
                      /\ \A x : (OfInts(kind) => x \in Int) =>
                                  (Accepts(v, x) <=> Allows(rule, kind, x))
<1> DEFINE v == CreateValidatorForKind(rule.name, rule.arg, kind)
<1>1. OfStrings(kind) <=> ~OfInts(kind)
  BY DEF OfStrings, OfInts, Kinds
<1> SUFFICES /\ (rule.colon /\ v.made) <=> GoodRule(rule, kind)
             /\ v.made => /\ v.by \in CreatorNames
                          /\ TakesStrings(v) <=> OfStrings(kind)
                          /\ \A x : (OfInts(kind) => x \in Int) =>
                                      (Accepts(v, x) <=> Allows(rule, kind, x))
  OBVIOUS
<1>2. CASE rule.name = "len" /\ OfStrings(kind)
  <2>1. /\ v.made <=> rule.arg.int # BadArg
        /\ v.made => v.by = "len" /\ v.arg = rule.arg.int
    <3>1. Suitable(rule.name, kind) = {1} /\ rule.name \in ValidatorNames /\ Creators[1] = "len"
      BY <1>2, SuitableIs, CreatorAt DEF ValidatorNames
    <3>2. /\ Parsed("len", rule.arg) = rule.arg.int
          /\ Compiled("len", rule.arg) = rule.arg.int
      BY DEF Parsed, Compiled
    <3> QED
      BY <3>1, <3>2, OnlyStrategy
  <2> HIDE DEF v
  <2> QED
    BY <1>1, <1>2, <2>1 DEF GoodRule, RuleArg, CreatorNames, TakesStrings, Accepts, Allows
<1>3. CASE rule.name = "regexp" /\ OfStrings(kind)
  <2>1. /\ v.made <=> rule.arg.regexp # BadArg
        /\ v.made => v.by = "regexp" /\ v.arg = [rule.arg.regexp EXCEPT !.tail = AddEnd(@)]
    <3>1. /\ Suitable(rule.name, kind) = {2} /\ rule.name \in ValidatorNames
          /\ Creators[2] = "regexp"
      BY <1>3, SuitableIs, CreatorAt DEF ValidatorNames
    <3>2. /\ Parsed("regexp", rule.arg) = rule.arg.regexp
          /\ Compiled("regexp", rule.arg) = [rule.arg.regexp EXCEPT !.tail = AddEnd(@)]
      BY DEF Parsed, Compiled
    <3> QED
      BY <3>1, <3>2, OnlyStrategy
  <2> HIDE DEF v
  <2> QED
    BY <1>1, <1>3, <2>1 DEF GoodRule, RuleArg, CreatorNames, TakesStrings, Accepts, Allows
<1>4. CASE rule.name = "in" /\ OfStrings(kind)
  <2>1. /\ v.made <=> rule.arg.strings # BadArg
        /\ v.made => v.by = "inStr" /\ v.arg = rule.arg.strings
    <3>1. Suitable(rule.name, kind) = {3} /\ rule.name \in ValidatorNames /\ Creators[3] = "inStr"
      BY <1>4, SuitableIs, CreatorAt DEF ValidatorNames
    <3>2. /\ Parsed("inStr", rule.arg) = rule.arg.strings
          /\ Compiled("inStr", rule.arg) = rule.arg.strings
      BY DEF Parsed, Compiled
    <3> QED
      BY <3>1, <3>2, OnlyStrategy
  <2> HIDE DEF v
  <2> QED
    BY <1>1, <1>4, <2>1 DEF GoodRule, RuleArg, CreatorNames, TakesStrings, Accepts, Allows
<1>5. CASE rule.name = "in" /\ OfInts(kind)
  <2>1. /\ v.made <=> rule.arg.ints # BadArg
        /\ v.made => v.by = "inInt" /\ v.arg = rule.arg.ints
    <3>1. Suitable(rule.name, kind) = {4} /\ rule.name \in ValidatorNames /\ Creators[4] = "inInt"
      BY <1>5, SuitableIs, CreatorAt DEF ValidatorNames
    <3>2. /\ Parsed("inInt", rule.arg) = rule.arg.ints
          /\ Compiled("inInt", rule.arg) = rule.arg.ints
      BY DEF Parsed, Compiled
    <3> QED
      BY <3>1, <3>2, OnlyStrategy
  <2> HIDE DEF v
  <2> QED
    BY <1>1, <1>5, <2>1 DEF GoodRule, RuleArg, CreatorNames, TakesStrings, Accepts, Allows
<1>6. CASE rule.name = "min" /\ OfInts(kind)
  <2>1. /\ v.made <=> rule.arg.int # BadArg
        /\ v.made => v.by = "min" /\ v.arg = rule.arg.int
    <3>1. Suitable(rule.name, kind) = {5} /\ rule.name \in ValidatorNames /\ Creators[5] = "min"
      BY <1>6, SuitableIs, CreatorAt DEF ValidatorNames
    <3>2. /\ Parsed("min", rule.arg) = rule.arg.int
          /\ Compiled("min", rule.arg) = rule.arg.int
      BY DEF Parsed, Compiled
    <3> QED
      BY <3>1, <3>2, OnlyStrategy
  <2>2. v.made => v.arg \in Int
    BY <2>1 DEF SoundArg
  <2>3. RuleArg(rule, kind) = rule.arg.int
    BY <1>6 DEF RuleArg
  <2> HIDE DEF v
  <2>4. v.made => \A x \in Int : Accepts(v, x) <=> Allows(rule, kind, x)
    <3>1. v.made => \A x \in Int : Accepts(v, x) <=> x >= v.arg
      BY <2>1 DEF Accepts
    <3>2. \A x \in Int : Allows(rule, kind, x) <=> ~(x < rule.arg.int)
      BY <1>6, <2>3 DEF Allows
    <3> QED
      BY <2>1, <2>2, <3>1, <3>2
  <2> QED
    BY <1>1, <1>6, <2>1, <2>3, <2>4 DEF GoodRule, CreatorNames, TakesStrings
<1>7. CASE rule.name = "max" /\ OfInts(kind)
  <2>1. /\ v.made <=> rule.arg.int # BadArg
        /\ v.made => v.by = "max" /\ v.arg = rule.arg.int
    <3>1. Suitable(rule.name, kind) = {6} /\ rule.name \in ValidatorNames /\ Creators[6] = "max"
      BY <1>7, SuitableIs, CreatorAt DEF ValidatorNames
    <3>2. /\ Parsed("max", rule.arg) = rule.arg.int
          /\ Compiled("max", rule.arg) = rule.arg.int
      BY DEF Parsed, Compiled
    <3> QED
      BY <3>1, <3>2, OnlyStrategy
  <2>2. v.made => v.arg \in Int
    BY <2>1 DEF SoundArg
  <2>3. RuleArg(rule, kind) = rule.arg.int
    BY <1>7 DEF RuleArg
  <2> HIDE DEF v
  <2>4. v.made => \A x \in Int : Accepts(v, x) <=> Allows(rule, kind, x)
    <3>1. v.made => \A x \in Int : Accepts(v, x) <=> x <= v.arg
      BY <2>1 DEF Accepts
    <3>2. \A x \in Int : Allows(rule, kind, x) <=> ~(x > rule.arg.int)
      BY <1>7, <2>3 DEF Allows
    <3> QED
      BY <2>1, <2>2, <3>1, <3>2
  <2> QED
    BY <1>1, <1>7, <2>1, <2>3, <2>4 DEF GoodRule, CreatorNames, TakesStrings
<1>8. CASE \/ rule.name \notin ValidatorNames
           \/ rule.name \in {"len", "regexp"} /\ OfInts(kind)
           \/ rule.name \in {"min", "max"} /\ OfStrings(kind)
  <2>1. ~v.made
    BY <1>1, <1>8, SuitableIs, NoStrategy
  <2>2. ~GoodRule(rule, kind)
    BY <1>1, <1>8 DEF GoodRule, ValidatorNames
  <2> QED
    BY <2>1, <2>2
<1> QED
  BY <1>1, <1>2, <1>3, <1>4, <1>5, <1>6, <1>7, <1>8 DEF ValidatorNames

\* What Validate has so far: an error or none, and the errors of values.
Reports == [field: Nat, by: CreatorNames]
ErrorKinds == {"none", "invalid tag", "unsupported argument"}
Results == [error: ErrorKinds, errors: Seq(Reports)]

\* What the loop over the elements of a field has after each of them.
ElementsSoFar(result, v, field, i, xs, h) ==
  /\ h[0] = result /\ h[Len(xs)] = FoldLeft(LAMBDA r, x : CheckElement(r, v, field, i, x), result, xs)
  /\ \A k \in 1..Len(xs) : h[k] = CheckElement(h[k - 1], v, field, i, xs[k])

\* The loop over the elements has this history.
LEMMA ElementsHistory ==
  ASSUME NEW v, NEW field, NEW i, NEW S, NEW xs \in Seq(S), NEW result \in Results,
         \A r \in Results : \A k \in 1..Len(xs) : CheckElement(r, v, field, i, xs[k]) \in Results
  PROVE  \E h \in [0..Len(xs) -> Results] : ElementsSoFar(result, v, field, i, xs, h)
<1> DEFINE len == Len(xs)
           F == [k \in 1..len |-> [r \in Results |-> CheckElement(r, v, field, i, xs[k])]]
           G(f) == [s \in SUBSET DOMAIN xs |->
                      IF s = {} THEN result
                      ELSE CheckElement(f[s \ {Max(s)}], v, field, i, xs[Max(s)])]
           f == CHOOSE x : x = G(x)
           base == result
<1>1. len \in Nat /\ DOMAIN xs = 1..len /\ base \in Results
  OBVIOUS
<1>2. F \in [1..len -> [Results -> Results]]
  OBVIOUS
<1>3. PICK g \in [SUBSET (1..len) -> Results] : Runs(len, base, F, g)
  <2> HIDE DEF F, len, base
  <2> QED
    BY <1>1, <1>2, FoldRuns, Zenon
<1>4. g = G(g)
  <2>1. ASSUME NEW s \in SUBSET (1..len) PROVE g[s] = G(g)[s]
    <3>1. CASE s = {}
      BY <1>1, <1>3, <3>1 DEF Runs
    <3>2. CASE s # {}
      <4>1. Max(s) \in 1..len /\ g[s \ {Max(s)}] \in Results
        BY <1>1, <1>3, <3>2, GreatestIsMax
      <4>2. g[s] = F[Max(s)][g[s \ {Max(s)}]]
        BY <1>3, <3>2 DEF Runs
      <4> QED
        BY <1>1, <3>2, <4>1, <4>2
    <3> QED
      BY <3>1, <3>2
  <2>2. G(g) = [s \in SUBSET (1..len) |-> G(g)[s]] /\ g = [s \in SUBSET (1..len) |-> g[s]]
    BY <1>1
  <2> HIDE DEF G
  <2> QED
    BY <2>1, <2>2
<1>5. f = G(f)
  <2> HIDE DEF G
  <2> QED
    BY <1>4
<1>6. FoldLeft(LAMBDA r, x : CheckElement(r, v, field, i, x), result, xs) = f[1..len]
  BY <1>1, Zenon DEF FoldLeft, MapThenFoldSet
<1> HIDE DEF f
<1>7. f[{}] = base
  <2>1. G(f)[{}] = base
    BY <1>1
  <2> QED
    BY <1>5, <2>1
<1>8. ASSUME NEW k \in 1..len, f[1..(k - 1)] \in Results
      PROVE  f[1..k] = F[k][f[1..(k - 1)]]
  <2>1. Max(1..k) = k /\ (1..k) \ {k} = 1..(k - 1) /\ 1..k # {} /\ 1..k \in SUBSET (1..len)
    BY <1>1, LastOfPrefix
  <2>2. G(f)[1..k] = F[k][f[1..(k - 1)]]
    BY <1>1, <1>8, <2>1
  <2> QED
    BY <1>5, <2>2
<1>9. PICK h \in [0..len -> Results] : Follows(len, base, F, f, h)
  <2>1. Steps(len, Results, base, F, f)
    BY <1>7, <1>8 DEF Steps
  <2> HIDE DEF F, len, base
  <2> QED
    BY <1>1, <1>2, <2>1, FoldHistory, Zenon
<1>10. \A k \in 1..len : h[k] = CheckElement(h[k - 1], v, field, i, xs[k])
  <2>1. \A k \in 1..len : h[k - 1] \in Results
    BY <1>1, <1>9
  <2> QED
    BY <1>9, <2>1 DEF F, Follows
<1> QED
  BY <1>6, <1>9, <1>10 DEF Follows, ElementsSoFar

\* What the loop over the rules of a field has after each of them.
RulesSoFar(result, field, i, rules, h) ==
  /\ h[0] = result /\ h[Len(rules)] = FoldLeft(LAMBDA r, rule : CheckRule(r, field, i, rule), result, rules)
  /\ \A k \in 1..Len(rules) : h[k] = CheckRule(h[k - 1], field, i, rules[k])

\* The loop over the rules of a tag has this history.
LEMMA RulesHistory ==
  ASSUME NEW field, NEW i, NEW S, NEW rules \in Seq(S), NEW result \in Results,
         \A r \in Results : \A k \in 1..Len(rules) : CheckRule(r, field, i, rules[k]) \in Results
  PROVE  \E h \in [0..Len(rules) -> Results] : RulesSoFar(result, field, i, rules, h)
<1> DEFINE len == Len(rules)
           F == [k \in 1..len |-> [r \in Results |-> CheckRule(r, field, i, rules[k])]]
           G(f) == [s \in SUBSET DOMAIN rules |->
                      IF s = {} THEN result
                      ELSE CheckRule(f[s \ {Max(s)}], field, i, rules[Max(s)])]
           f == CHOOSE x : x = G(x)
           base == result
<1>1. len \in Nat /\ DOMAIN rules = 1..len /\ base \in Results
  OBVIOUS
<1>2. F \in [1..len -> [Results -> Results]]
  OBVIOUS
<1>3. PICK g \in [SUBSET (1..len) -> Results] : Runs(len, base, F, g)
  <2> HIDE DEF F, len, base
  <2> QED
    BY <1>1, <1>2, FoldRuns, Zenon
<1>4. g = G(g)
  <2>1. ASSUME NEW s \in SUBSET (1..len) PROVE g[s] = G(g)[s]
    <3>1. CASE s = {}
      BY <1>1, <1>3, <3>1 DEF Runs
    <3>2. CASE s # {}
      <4>1. Max(s) \in 1..len /\ g[s \ {Max(s)}] \in Results
        BY <1>1, <1>3, <3>2, GreatestIsMax
      <4>2. g[s] = F[Max(s)][g[s \ {Max(s)}]]
        BY <1>3, <3>2 DEF Runs
      <4> QED
        BY <1>1, <3>2, <4>1, <4>2
    <3> QED
      BY <3>1, <3>2
  <2>2. G(g) = [s \in SUBSET (1..len) |-> G(g)[s]] /\ g = [s \in SUBSET (1..len) |-> g[s]]
    BY <1>1
  <2> HIDE DEF G
  <2> QED
    BY <2>1, <2>2
<1>5. f = G(f)
  <2> HIDE DEF G
  <2> QED
    BY <1>4
<1>6. FoldLeft(LAMBDA r, rule : CheckRule(r, field, i, rule), result, rules) = f[1..len]
  BY <1>1, Zenon DEF FoldLeft, MapThenFoldSet
<1> HIDE DEF f
<1>7. f[{}] = base
  <2>1. G(f)[{}] = base
    BY <1>1
  <2> QED
    BY <1>5, <2>1
<1>8. ASSUME NEW k \in 1..len, f[1..(k - 1)] \in Results
      PROVE  f[1..k] = F[k][f[1..(k - 1)]]
  <2>1. Max(1..k) = k /\ (1..k) \ {k} = 1..(k - 1) /\ 1..k # {} /\ 1..k \in SUBSET (1..len)
    BY <1>1, LastOfPrefix
  <2>2. G(f)[1..k] = F[k][f[1..(k - 1)]]
    BY <1>1, <1>8, <2>1
  <2> QED
    BY <1>5, <2>2
<1>9. PICK h \in [0..len -> Results] : Follows(len, base, F, f, h)
  <2>1. Steps(len, Results, base, F, f)
    BY <1>7, <1>8 DEF Steps
  <2> HIDE DEF F, len, base
  <2> QED
    BY <1>1, <1>2, <2>1, FoldHistory, Zenon
<1>10. \A k \in 1..len : h[k] = CheckRule(h[k - 1], field, i, rules[k])
  <2>1. \A k \in 1..len : h[k - 1] \in Results
    BY <1>1, <1>9
  <2> QED
    BY <1>9, <2>1 DEF F, Follows
<1> QED
  BY <1>6, <1>9, <1>10 DEF Follows, RulesSoFar

\* A result with some more errors, all of one field.
Grown(r, t, i, count) ==
  /\ t \in Results /\ t.error = "none"
  /\ Len(t.errors) = Len(r.errors) + count
  /\ \A k \in 1..Len(r.errors) : t.errors[k] = r.errors[k]
  /\ \A k \in (Len(r.errors) + 1)..Len(t.errors) : t.errors[k].field = i

\* A list is itself with nothing more.
LEMMA GrownNot ==
  ASSUME NEW r \in Results, r.error = "none", NEW i
  PROVE  Grown(r, r, i, 0)
<1> DEFINE e == r.errors
<1>1. e \in Seq(Reports)
  BY DEF Results
<1> HIDE DEF e
<1>2. Len(e) = Len(e) + 0 /\ (Len(e) + 1)..Len(e) = {}
  BY <1>1
<1> QED
  BY <1>2 DEF Grown, e

\* Errors put behind those that were put before.
LEMMA GrownOn ==
  ASSUME NEW r \in Results, NEW s, NEW t, NEW i, NEW count \in Nat, NEW more \in Nat,
         Grown(r, s, i, count), Grown(s, t, i, more)
  PROVE  Grown(r, t, i, count + more)
<1> DEFINE a == r.errors
           b == s.errors
           c == t.errors
<1>1. a \in Seq(Reports) /\ b \in Seq(Reports) /\ c \in Seq(Reports)
  BY DEF Results, Grown
<1>2. /\ Len(b) = Len(a) + count /\ Len(c) = Len(b) + more
      /\ \A k \in 1..Len(a) : b[k] = a[k]
      /\ \A k \in 1..Len(b) : c[k] = b[k]
      /\ \A k \in (Len(a) + 1)..Len(b) : b[k].field = i
      /\ \A k \in (Len(b) + 1)..Len(c) : c[k].field = i
  BY DEF Grown
<1> HIDE DEF a, b, c
<1>3. Len(a) \in Nat /\ Len(b) \in Nat /\ Len(c) \in Nat
  BY <1>1
<1>4. Len(c) = Len(a) + (count + more)
  BY <1>2, <1>3
<1>5. \A k \in 1..Len(a) : c[k] = a[k]
  BY <1>2, <1>3
<1>6. ASSUME NEW k \in (Len(a) + 1)..Len(c) PROVE c[k].field = i
  <2>1. k \in (Len(a) + 1)..Len(b) \/ k \in (Len(b) + 1)..Len(c)
    BY <1>3
  <2>2. k \in (Len(a) + 1)..Len(b) => k \in 1..Len(b)
    BY <1>3
  <2> QED
    BY <1>2, <2>1, <2>2
<1> QED
  BY <1>4, <1>5, <1>6 DEF Grown, a, b, c

\* A validator of the type of the field reports the elements it does not accept.
LEMMA ElementChecked ==
  ASSUME NEW v, NEW field, NEW i \in Nat, NEW x, NEW r \in Results,
         v.by \in CreatorNames, TakesStrings(v) <=> OfStrings(field.kind)
  PROVE  /\ CheckElement(r, v, field, i, x) \in Results
         /\ r.error # "none" => CheckElement(r, v, field, i, x) = r
         /\ r.error = "none" =>
              /\ Accepts(v, x) => CheckElement(r, v, field, i, x) = r
              /\ ~Accepts(v, x) => Grown(r, CheckElement(r, v, field, i, x), i, 1)
<1>1. ValidateValue(v, field.kind, x) = IF Accepts(v, x) THEN "ok" ELSE "invalid"
  <2>1. TakesStrings(v) = OfStrings(field.kind)
    <3>1. TakesStrings(v) \in BOOLEAN /\ OfStrings(field.kind) \in BOOLEAN
      BY DEF TakesStrings, OfStrings
    <3> QED
      BY <3>1
  <2>2. ~(TakesStrings(v) # OfStrings(field.kind))
    BY <2>1
  <2>3. CASE Accepts(v, x)
    BY <2>1, <2>2, <2>3, Zenon DEF ValidateValue
  <2>4. CASE ~Accepts(v, x)
    BY <2>1, <2>2, <2>4, Zenon DEF ValidateValue
  <2> QED
    BY <2>3, <2>4
<1>2. r.error # "none" \/ Accepts(v, x) => CheckElement(r, v, field, i, x) = r
  BY <1>1 DEF CheckElement, Stopped
<1> DEFINE report == [field |-> i, by |-> v.by]
           e == r.errors
           t == [error |-> r.error, errors |-> Append(e, report)]
<1>3. report \in Reports
  BY DEF Reports
<1>4. report.field = i
  OBVIOUS
<1>5. e \in Seq(Reports) /\ r.error \in ErrorKinds /\ r = [error |-> r.error, errors |-> e]
  BY DEF Results
<1>6. (r.error = "none" /\ ~Accepts(v, x)) => CheckElement(r, v, field, i, x) = t
  <2>1. (r.error = "none" /\ ~Accepts(v, x)) =>
           CheckElement(r, v, field, i, x) = [r EXCEPT !.errors = Append(@, report)]
    BY <1>1 DEF CheckElement, Stopped
  <2> HIDE DEF report
  <2>2. [r EXCEPT !.errors = Append(@, report)] = t
    BY <1>5
  <2> QED
    BY <2>1, <2>2
<1> HIDE DEF report, e
<1>7. /\ Append(e, report) \in Seq(Reports) /\ Len(Append(e, report)) = Len(e) + 1
      /\ \A k \in 1..Len(e) : Append(e, report)[k] = e[k]
      /\ \A k \in (Len(e) + 1)..Len(Append(e, report)) : Append(e, report)[k].field = i
  BY <1>3, <1>4, <1>5
<1>8. t \in Results
  BY <1>5, <1>7 DEF Results
<1>9. t.error = r.error /\ t.errors = Append(e, report)
  OBVIOUS
<1> HIDE DEF t
<1>10. r.error = "none" => Grown(r, t, i, 1)
  BY <1>7, <1>8, <1>9 DEF Grown, e
<1> QED
  BY <1>2, <1>6, <1>8, <1>10

\* The first elements that are not accepted.
Unaccepted(v, xs, k) == {j \in 1..k : ~Accepts(v, xs[j])}

AfterElements(result, v, field, i, xs) ==
  FoldLeft(LAMBDA r, x : CheckElement(r, v, field, i, x), result, xs)

\* Every element that breaks the rule is one error more.
LEMMA ElementsChecked ==
  ASSUME NEW v, NEW field, NEW i \in Nat, NEW S, NEW xs \in Seq(S), NEW result \in Results,
         v.by \in CreatorNames, TakesStrings(v) <=> OfStrings(field.kind)
  PROVE  LET t == AfterElements(result, v, field, i, xs) IN
         /\ t \in Results
         /\ result.error = "none" =>
              Grown(result, t, i, Cardinality(Unaccepted(v, xs, Len(xs))))
<1> DEFINE t == AfterElements(result, v, field, i, xs)
           len == Len(xs)
<1>1. PICK h \in [0..len -> Results] : ElementsSoFar(result, v, field, i, xs, h)
  <2>1. \A r \in Results : \A k \in 1..Len(xs) : CheckElement(r, v, field, i, xs[k]) \in Results
    BY ElementChecked
  <2> QED
    BY <2>1, ElementsHistory
<1>2. h[0] = result /\ h[len] = t
  BY <1>1 DEF ElementsSoFar, AfterElements
<1>3. \A k \in 1..len : h[k] = CheckElement(h[k - 1], v, field, i, xs[k])
  BY <1>1 DEF ElementsSoFar
<1>4. len \in Nat
  OBVIOUS
<1> HIDE DEF t, len
<1>5. t \in Results
  BY <1>1, <1>2, <1>4
<1>6. ASSUME result.error = "none"
      PROVE  Grown(result, t, i, Cardinality(Unaccepted(v, xs, len)))
  <2> DEFINE T == {k \in 0..len : /\ Grown(result, h[k], i, Cardinality(Unaccepted(v, xs, k)))
                                  /\ IsFiniteSet(Unaccepted(v, xs, k))}
  <2>1. 0 \in T
    <3>1. Unaccepted(v, xs, 0) = {}
      BY DEF Unaccepted
    <3>2. Grown(result, h[0], i, 0)
      BY <1>2, <1>6, GrownNot
    <3> QED
      BY <3>1, <3>2, <1>4, FS_EmptySet
  <2>2. ASSUME NEW k \in 1..len, k - 1 \in T PROVE k \in T
    <3> DEFINE refused == Unaccepted(v, xs, k - 1)
               s == h[k - 1]
    <3>1. IsFiniteSet(refused) /\ Cardinality(refused) \in Nat /\ Grown(result, s, i, Cardinality(refused))
      BY <2>2, FS_CardinalityType
    <3>2. s \in Results /\ s.error = "none"
      BY <3>1 DEF Grown
    <3>3. h[k] = CheckElement(s, v, field, i, xs[k])
      BY <1>3
    <3>4. CASE Accepts(v, xs[k])
      <4>1. Unaccepted(v, xs, k) = refused
        BY <3>4 DEF Unaccepted
      <4>2. h[k] = s
        BY <3>2, <3>3, <3>4, ElementChecked
      <4> QED
        BY <3>1, <4>1, <4>2
    <3>5. CASE ~Accepts(v, xs[k])
      <4>1. Unaccepted(v, xs, k) = refused \cup {k}
        BY <3>5 DEF Unaccepted
      <4>2. k \notin refused
        BY DEF Unaccepted
      <4> HIDE DEF refused, s
      <4>3. IsFiniteSet(refused \cup {k}) /\ Cardinality(refused \cup {k}) = Cardinality(refused) + 1
        BY <3>1, <4>2, FS_AddElement
      <4>4. Grown(s, h[k], i, 1)
        BY <3>2, <3>3, <3>5, ElementChecked
      <4>5. Grown(result, h[k], i, Cardinality(refused) + 1)
        BY <3>1, <4>4, GrownOn
      <4>6. /\ IsFiniteSet(Unaccepted(v, xs, k))
            /\ Cardinality(Unaccepted(v, xs, k)) = Cardinality(refused) + 1
        BY <4>1, <4>3
      <4>7. Grown(result, h[k], i, Cardinality(Unaccepted(v, xs, k)))
        BY <4>5, <4>6, Zenon
      <4>8. k \in 0..len
        BY <1>4
      <4> QED
        BY <4>6, <4>7, <4>8
    <3> QED
      BY <3>4, <3>5
  <2> HIDE DEF T
  <2>3. \A k \in 0..len : k \in T
    BY <1>4, <2>1, <2>2, UpTo
  <2>4. len \in T
    BY <1>4, <2>3
  <2> QED
    BY <1>2, <2>4 DEF T
<1> QED
  BY <1>5, <1>6 DEF t, len

\* A field whose kind is supported has elements, and those of ints are ints, those of
\* strings strings.
LEMMA FieldElements ==
  ASSUME NEW Char, NEW field, SoundField(field, Char), field.kind # "unsupported"
  PROVE  /\ \E S : ElementsOf(field) \in Seq(S)
         /\ OfInts(field.kind) => \A m \in DOMAIN ElementsOf(field) : ElementsOf(field)[m] \in Int
         /\ OfStrings(field.kind) =>
              \A m \in DOMAIN ElementsOf(field) : ElementsOf(field)[m] \in Seq(Char)
<1>1. field.kind \in {"string", "int", "strings", "ints"}
  BY DEF SoundField, Kinds
<1>2. CASE field.kind \in {"string", "int"}
  <2>1. ElementsOf(field) = <<field.value>>
    BY <1>2 DEF ElementsOf, IsArrayKind
  <2>2. <<field.value>> \in Seq({field.value})
    OBVIOUS
  <2>3. OfInts(field.kind) => field.value \in Int
    BY <1>2 DEF OfInts, SoundField
  <2>4. DOMAIN <<field.value>> = {1} /\ <<field.value>>[1] = field.value
    OBVIOUS
  <2>5. OfInts(field.kind) => \A m \in DOMAIN ElementsOf(field) : ElementsOf(field)[m] \in Int
    BY <2>1, <2>3, <2>4
  <2>6. OfStrings(field.kind) => field.value \in Seq(Char)
    BY <1>2 DEF OfStrings, SoundField
  <2>7. OfStrings(field.kind) =>
          \A m \in DOMAIN ElementsOf(field) : ElementsOf(field)[m] \in Seq(Char)
    BY <2>1, <2>4, <2>6
  <2> QED
    BY <2>1, <2>2, <2>5, <2>7
<1>3. CASE field.kind \in {"strings", "ints"}
  <2>1. ElementsOf(field) = field.value
    BY <1>3 DEF ElementsOf, IsArrayKind
  <2>2. CASE field.kind = "strings"
    <3>1. field.value \in Seq(Seq(Char)) /\ ~OfInts(field.kind)
      BY <2>2 DEF SoundField, OfInts
    <3>2. \A m \in DOMAIN field.value : field.value[m] \in Seq(Char)
      BY <3>1
    <3> QED
      BY <2>1, <3>1, <3>2
  <2>3. CASE field.kind = "ints"
    <3>1. field.value \in Seq(Int) /\ ~OfStrings(field.kind)
      BY <2>3 DEF SoundField, OfStrings
    <3>2. \A m \in DOMAIN field.value : field.value[m] \in Int
      BY <3>1
    <3> QED
      BY <2>1, <3>1, <3>2
  <2> QED
    BY <1>3, <2>2, <2>3
<1> QED
  BY <1>1, <1>2, <1>3

\* The elements of a field that a rule does not allow.
Unmet(rule, field) ==
  {m \in DOMAIN ElementsOf(field) : ~Allows(rule, field.kind, ElementsOf(field)[m])}

RuleAnswered(r, field, i, rule, t) ==
  /\ t \in Results
  /\ r.error # "none" => t = r
  /\ (r.error = "none" /\ ~GoodRule(rule, field.kind)) => t.error = "invalid tag"
  /\ (r.error = "none" /\ GoodRule(rule, field.kind)) =>
       IsFiniteSet(Unmet(rule, field)) /\ Grown(r, t, i, Cardinality(Unmet(rule, field)))

\* A rule that is not one of the field is an error of the tag, whatever its elements are;
\* another one adds an error for each element that does not meet it.
LEMMA RuleChecked ==
  ASSUME NEW Char, NEW field, SoundField(field, Char), field.kind # "unsupported",
         NEW rule, SoundArg(rule), NEW i \in Nat, NEW r \in Results
  PROVE  RuleAnswered(r, field, i, rule, CheckRule(r, field, i, rule))
<1> DEFINE v == CreateValidatorForKind(rule.name, rule.arg, field.kind)
           xs == ElementsOf(field)
           t == CheckRule(r, field, i, rule)
<1>1. field.kind \in Kinds \ {"unsupported"}
  BY DEF SoundField
<1>2. /\ (rule.colon /\ v.made) <=> GoodRule(rule, field.kind)
      /\ v.made => /\ v.by \in CreatorNames
                   /\ TakesStrings(v) <=> OfStrings(field.kind)
                   /\ \A x : (OfInts(field.kind) => x \in Int) =>
                               (Accepts(v, x) <=> Allows(rule, field.kind, x))
  BY <1>1, ValidatorMade
<1>3. r.error # "none" => t = r
  BY DEF CheckRule, Stopped
<1>4. ASSUME r.error = "none", ~GoodRule(rule, field.kind)
      PROVE  t \in Results /\ t.error = "invalid tag"
  <2>1. ~rule.colon \/ ~v.made
    BY <1>2, <1>4
  <2>2. t = [r EXCEPT !.error = "invalid tag"]
    BY <1>4, <2>1 DEF CheckRule, Stopped
  <2>3. "invalid tag" \in ErrorKinds
    BY DEF ErrorKinds
  <2> HIDE DEF t
  <2> QED
    BY <2>2, <2>3 DEF Results
<1>5. ASSUME r.error = "none", GoodRule(rule, field.kind)
      PROVE  /\ t \in Results /\ IsFiniteSet(Unmet(rule, field))
             /\ Grown(r, t, i, Cardinality(Unmet(rule, field)))
  <2>1. rule.colon /\ v.made
    BY <1>2, <1>5
  <2>2. t = AfterElements(r, v, field, i, xs)
    BY <1>5, <2>1, Zenon DEF CheckRule, AfterElements, Stopped
  <2>3. PICK S : xs \in Seq(S)
    BY FieldElements
  <2> HIDE DEF v, xs, t
  <2>4. t \in Results /\ Grown(r, t, i, Cardinality(Unaccepted(v, xs, Len(xs))))
    BY <1>2, <1>5, <2>1, <2>2, <2>3, ElementsChecked
  <2>5. Unaccepted(v, xs, Len(xs)) = Unmet(rule, field)
    <3>1. DOMAIN xs = 1..Len(xs)
      BY <2>3
    <3>2. \A m \in DOMAIN xs : OfInts(field.kind) => xs[m] \in Int
      BY FieldElements DEF xs
    <3>3. \A m \in 1..Len(xs) : Accepts(v, xs[m]) <=> Allows(rule, field.kind, xs[m])
      BY <1>2, <2>1, <3>1, <3>2
    <3>4. Unmet(rule, field) = {m \in DOMAIN xs : ~Allows(rule, field.kind, xs[m])}
      BY DEF Unmet, xs
    <3> QED
      BY <3>1, <3>3, <3>4 DEF Unaccepted
  <2>6. IsFiniteSet(Unmet(rule, field))
    <3>1. Unaccepted(v, xs, Len(xs)) \subseteq 1..Len(xs) /\ Len(xs) \in Int
      BY <2>3 DEF Unaccepted
    <3>2. IsFiniteSet(1..Len(xs))
      BY <3>1, FS_Interval
    <3> QED
      BY <2>5, <3>1, <3>2, FS_Subset
  <2> QED
    BY <2>4, <2>5, <2>6
<1>6. r.error # "none" => t \in Results
  BY <1>3
<1> HIDE DEF t
<1> QED
  BY <1>3, <1>4, <1>5, <1>6 DEF RuleAnswered, t

\* The elements of a field that one of its first rules does not allow: see Refusals.
OfRules(field, i, k) ==
  {t \in {i} \X (1..k) \X (DOMAIN ElementsOf(field)) :
     ~Allows(field.rules[t[2]], field.kind, ElementsOf(field)[t[3]])}

\* The errors of the first k rules are those of the rules before, and of the k-th.
LEMMA OneRuleMore ==
  ASSUME NEW field, NEW i, NEW k \in Nat \ {0}, IsFiniteSet(OfRules(field, i, k - 1)),
         IsFiniteSet(Unmet(field.rules[k], field))
  PROVE  /\ IsFiniteSet(OfRules(field, i, k))
         /\ Cardinality(OfRules(field, i, k)) =
              Cardinality(OfRules(field, i, k - 1)) + Cardinality(Unmet(field.rules[k], field))
<1> DEFINE B == Unmet(field.rules[k], field)
           old == OfRules(field, i, k - 1)
           new == {<<i, k, m>> : m \in B}
           g == [m \in B |-> <<i, k, m>>]
<1>1. g \in Bijection(B, new)
  BY DEF Bijection, Injection, Surjection, IsInjective
<1>2. IsFiniteSet(new) /\ Cardinality(new) = Cardinality(B)
  <2>1. ExistsBijection(B, new)
    BY <1>1 DEF ExistsBijection
  <2> HIDE DEF B, new
  <2> QED
    BY <2>1, FS_Bijection DEF B
<1>3. OfRules(field, i, k) = old \cup new
  <2>1. ASSUME NEW t \in OfRules(field, i, k) PROVE t \in old \cup new
    <3>1. PICK j \in 1..k, m \in DOMAIN ElementsOf(field) : t = <<i, j, m>>
      BY DEF OfRules
    <3>2. ~Allows(field.rules[j], field.kind, ElementsOf(field)[m])
      BY <3>1 DEF OfRules
    <3>3. CASE j = k
      <4>1. m \in B
        BY <3>2, <3>3 DEF Unmet
      <4> QED
        BY <3>1, <3>3, <4>1
    <3>4. CASE j # k
      <4>1. j \in 1..(k - 1)
        BY <3>4
      <4> QED
        BY <3>1, <3>2, <4>1 DEF OfRules
    <3> QED
      BY <3>3, <3>4
  <2>2. ASSUME NEW t \in old PROVE t \in OfRules(field, i, k)
    <3>1. 1..(k - 1) \subseteq 1..k
      OBVIOUS
    <3> QED
      BY <3>1 DEF OfRules
  <2>3. ASSUME NEW m \in B PROVE <<i, k, m>> \in OfRules(field, i, k)
    BY DEF OfRules, Unmet
  <2> QED
    BY <2>1, <2>2, <2>3
<1>4. old \cap new = {}
  <2> SUFFICES ASSUME NEW t \in old, t \in new PROVE FALSE
    OBVIOUS
  <2>1. t[2] \in 1..(k - 1)
    BY DEF OfRules
  <2>2. t[2] = k
    OBVIOUS
  <2> QED
    BY <2>1, <2>2
<1> HIDE DEF B, old, new
<1>5. IsFiniteSet(old) /\ IsFiniteSet(B)
  BY DEF old, B
<1>6. /\ IsFiniteSet(old \cup new)
      /\ Cardinality(old \cup new) = Cardinality(old) + Cardinality(new) - Cardinality({})
  BY <1>2, <1>4, <1>5, FS_Union
<1>7. Cardinality({}) = 0 /\ Cardinality(old) \in Nat /\ Cardinality(new) \in Nat
  BY <1>2, <1>5, FS_EmptySet, FS_CardinalityType
<1>8. Cardinality(OfRules(field, i, k)) = Cardinality(old) + Cardinality(B)
  BY <1>2, <1>3, <1>6, <1>7
<1> QED
  BY <1>3, <1>6, <1>8 DEF old, B

\* The result of a field: all its tag is good and there is an error for each element that
\* does not meet a rule of it, or some rule of it is not one.
AfterRules(result, field, i) ==
  FoldLeft(LAMBDA r, rule : CheckRule(r, field, i, rule), result, field.rules)

GoodUpTo(field, k) == \A j \in 1..k : GoodRule(field.rules[j], field.kind)

RulesRight(r, field, i, k, t) ==
  /\ GoodUpTo(field, k) =>
       IsFiniteSet(OfRules(field, i, k)) /\ Grown(r, t, i, Cardinality(OfRules(field, i, k)))
  /\ ~GoodUpTo(field, k) => t.error = "invalid tag"

\* The loop over good rules adds the errors of each of them.
LEMMA RuleByRule ==
  ASSUME NEW Char, NEW field, SoundField(field, Char), field.kind # "unsupported",
         NEW i \in Nat, NEW r \in Results, NEW s \in Results, NEW k \in Nat \ {0},
         SoundArg(field.rules[k]), RulesRight(r, field, i, k - 1, s)
  PROVE  RulesRight(r, field, i, k, CheckRule(s, field, i, field.rules[k]))
<1> DEFINE rule == field.rules[k]
           t == CheckRule(s, field, i, rule)
           old == OfRules(field, i, k - 1)
           B == Unmet(rule, field)
<1>5. SoundArg(rule)
  OBVIOUS
<1> HIDE DEF rule
<1>1. /\ s.error # "none" => t = s
      /\ (s.error = "none" /\ ~GoodRule(rule, field.kind)) => t.error = "invalid tag"
      /\ (s.error = "none" /\ GoodRule(rule, field.kind)) =>
           IsFiniteSet(B) /\ Grown(s, t, i, Cardinality(B))
  <2>1. RuleAnswered(s, field, i, rule, CheckRule(s, field, i, rule))
    BY <1>5, RuleChecked, Zenon
  <2> QED
    BY <2>1 DEF RuleAnswered
<1>2. GoodUpTo(field, k) <=> GoodUpTo(field, k - 1) /\ GoodRule(rule, field.kind)
  <2>1. 1..k = (1..(k - 1)) \cup {k}
    OBVIOUS
  <2> QED
    BY <2>1 DEF GoodUpTo, rule
<1> HIDE DEF t, old, B
<1>3. CASE ~GoodUpTo(field, k - 1)
  <2>1. s.error = "invalid tag"
    BY <1>3 DEF RulesRight
  <2>2. t.error = "invalid tag"
    BY <1>1, <2>1
  <2> QED
    BY <1>2, <1>3, <2>2 DEF RulesRight, t, rule
<1>4. CASE GoodUpTo(field, k - 1)
  <2>1. IsFiniteSet(old) /\ Grown(r, s, i, Cardinality(old))
    BY <1>4 DEF RulesRight, old
  <2>2. s.error = "none"
    BY <2>1 DEF Grown
  <2>3. CASE ~GoodRule(rule, field.kind)
    <3>1. t.error = "invalid tag"
      BY <1>1, <2>2, <2>3
    <3> QED
      BY <1>2, <2>3, <3>1 DEF RulesRight, t, rule
  <2>4. CASE GoodRule(rule, field.kind)
    <3>1. IsFiniteSet(B) /\ Grown(s, t, i, Cardinality(B))
      BY <1>1, <2>2, <2>4
    <3>2. Cardinality(old) \in Nat /\ Cardinality(B) \in Nat
      BY <2>1, <3>1, FS_CardinalityType
    <3>3. Grown(r, t, i, Cardinality(old) + Cardinality(B))
      BY <2>1, <3>1, <3>2, GrownOn
    <3>4. /\ IsFiniteSet(OfRules(field, i, k))
          /\ Cardinality(OfRules(field, i, k)) = Cardinality(old) + Cardinality(B)
      BY <2>1, <3>1, OneRuleMore DEF old, B, rule
    <3>5. Grown(r, t, i, Cardinality(OfRules(field, i, k)))
      BY <3>3, <3>4, Zenon
    <3> QED
      BY <1>2, <1>4, <2>4, <3>4, <3>5 DEF RulesRight, t, rule
  <2> QED
    BY <2>3, <2>4
<1> QED
  BY <1>3, <1>4

FieldAnswered(r, field, i, t) ==
  /\ t \in Results
  /\ r.error # "none" => t = r
  /\ r.error = "none" => RulesRight(r, field, i, Len(field.rules), t)

\* The whole tag: its errors, or the error of a rule that is not one.
LEMMA RulesChecked ==
  ASSUME NEW Char, NEW field, SoundField(field, Char), Checked(field),
         NEW i \in Nat, NEW r \in Results
  PROVE  FieldAnswered(r, field, i, AfterRules(r, field, i))
<1> DEFINE t == AfterRules(r, field, i)
           rules == field.rules
           len == Len(rules)
<1>1. PICK S : rules \in Seq(S)
  BY DEF SoundField, Checked
<1>2. len \in Nat /\ DOMAIN rules = 1..len
  BY <1>1
<1>3. \A j \in 1..len : SoundArg(rules[j])
  BY <1>2 DEF SoundField, Checked
<1>4. field.kind # "unsupported"
  BY DEF Checked
<1>5. \A q \in Results : \A k \in 1..len : CheckRule(q, field, i, rules[k]) \in Results
  <2> HIDE DEF rules, len
  <2> SUFFICES ASSUME NEW q \in Results, NEW k \in 1..len
               PROVE  CheckRule(q, field, i, rules[k]) \in Results
    OBVIOUS
  <2>1. SoundArg(rules[k])
    BY <1>3
  <2>2. RuleAnswered(q, field, i, rules[k], CheckRule(q, field, i, rules[k]))
    BY <1>4, <2>1, RuleChecked, Zenon
  <2> QED
    BY <2>2 DEF RuleAnswered
<1>6. PICK h \in [0..len -> Results] : RulesSoFar(r, field, i, rules, h)
  BY <1>1, <1>5, RulesHistory
<1>7. /\ h[0] = r /\ h[len] = t
      /\ \A k \in 1..len : h[k] = CheckRule(h[k - 1], field, i, rules[k])
  BY <1>6 DEF RulesSoFar, AfterRules
<1> HIDE DEF rules, len, t
<1>8. t \in Results
  BY <1>2, <1>6, <1>7
<1>9. ASSUME r.error # "none" PROVE t = r
  <2> DEFINE T == {k \in 0..len : h[k] = r}
  <2>1. 0 \in T
    BY <1>2, <1>7
  <2>2. ASSUME NEW k \in 1..len, k - 1 \in T PROVE k \in T
    <3>1. h[k] = CheckRule(r, field, i, rules[k]) /\ k \in 0..len
      BY <1>7, <2>2
    <3>2. CheckRule(r, field, i, rules[k]) = r
      <4>1. SoundArg(rules[k])
        BY <1>3
      <4>2. RuleAnswered(r, field, i, rules[k], CheckRule(r, field, i, rules[k]))
        BY <1>4, <4>1, RuleChecked, Zenon
      <4> QED
        BY <1>9, <4>2 DEF RuleAnswered
    <3> QED
      BY <3>1, <3>2
  <2> HIDE DEF T
  <2>3. \A k \in 0..len : k \in T
    BY <1>2, <2>1, <2>2, UpTo
  <2>4. len \in T
    BY <1>2, <2>3
  <2> QED
    BY <1>7, <2>4 DEF T
<1>10. ASSUME r.error = "none" PROVE RulesRight(r, field, i, len, t)
  <2> DEFINE T == {k \in 0..len : RulesRight(r, field, i, k, h[k])}
  <2>1. 0 \in T
    <3>1. OfRules(field, i, 0) = {} /\ GoodUpTo(field, 0)
      BY DEF OfRules, GoodUpTo
    <3>2. Grown(r, r, i, 0)
      BY <1>10, GrownNot
    <3>3. IsFiniteSet({}) /\ Cardinality({}) = 0
      BY FS_EmptySet
    <3>4. RulesRight(r, field, i, 0, h[0])
      BY <1>7, <3>1, <3>2, <3>3 DEF RulesRight
    <3> QED
      BY <1>2, <3>4
  <2>2. ASSUME NEW k \in 1..len, k - 1 \in T PROVE k \in T
    <3>1. h[k - 1] \in Results /\ k \in Nat \ {0} /\ k \in 0..len
      BY <1>2, <1>6
    <3>2. SoundArg(field.rules[k])
      BY <1>3 DEF rules
    <3>3. RulesRight(r, field, i, k, CheckRule(h[k - 1], field, i, field.rules[k]))
      BY <1>4, <2>2, <3>1, <3>2, RuleByRule
    <3> QED
      BY <1>7, <3>1, <3>3 DEF rules
  <2> HIDE DEF T
  <2>3. \A k \in 0..len : k \in T
    BY <1>2, <2>1, <2>2, UpTo
  <2>4. len \in T
    BY <1>2, <2>3
  <2> QED
    BY <1>7, <2>4 DEF T
<1> QED
  BY <1>8, <1>9, <1>10 DEF FieldAnswered, rules, len, t

\* The answer before the errors of values give way to an error of a tag.
AfterFields(struct, places) ==
  FoldLeft(LAMBDA r, i : CheckField(r, struct[i], i), Nothing, places)

\* What the loop over the fields of a struct has after each of them.
FieldsSoFar(struct, places, h) ==
  /\ h[0] = Nothing /\ h[Len(places)] = AfterFields(struct, places)
  /\ \A k \in 1..Len(places) : h[k] = CheckField(h[k - 1], struct[places[k]], places[k])

\* The loop over the fields with a tag has this history.
LEMMA FieldsHistory ==
  ASSUME NEW struct, NEW S, NEW places \in Seq(S), Nothing \in Results,
         \A r \in Results : \A k \in 1..Len(places) : CheckField(r, struct[places[k]], places[k]) \in Results
  PROVE  \E h \in [0..Len(places) -> Results] : FieldsSoFar(struct, places, h)
<1> DEFINE len == Len(places)
           F == [k \in 1..len |-> [r \in Results |-> CheckField(r, struct[places[k]], places[k])]]
           G(f) == [s \in SUBSET DOMAIN places |->
                      IF s = {} THEN Nothing
                      ELSE CheckField(f[s \ {Max(s)}], struct[places[Max(s)]], places[Max(s)])]
           f == CHOOSE x : x = G(x)
           base == Nothing
<1>1. len \in Nat /\ DOMAIN places = 1..len /\ base \in Results
  OBVIOUS
<1>2. F \in [1..len -> [Results -> Results]]
  OBVIOUS
<1>3. PICK g \in [SUBSET (1..len) -> Results] : Runs(len, base, F, g)
  <2> HIDE DEF F, len, base
  <2> QED
    BY <1>1, <1>2, FoldRuns, Zenon
<1>4. g = G(g)
  <2>1. ASSUME NEW s \in SUBSET (1..len) PROVE g[s] = G(g)[s]
    <3>1. CASE s = {}
      BY <1>1, <1>3, <3>1 DEF Runs
    <3>2. CASE s # {}
      <4>1. Max(s) \in 1..len /\ g[s \ {Max(s)}] \in Results
        BY <1>1, <1>3, <3>2, GreatestIsMax
      <4>2. g[s] = F[Max(s)][g[s \ {Max(s)}]]
        BY <1>3, <3>2 DEF Runs
      <4> QED
        BY <1>1, <3>2, <4>1, <4>2
    <3> QED
      BY <3>1, <3>2
  <2>2. G(g) = [s \in SUBSET (1..len) |-> G(g)[s]] /\ g = [s \in SUBSET (1..len) |-> g[s]]
    BY <1>1
  <2> HIDE DEF G
  <2> QED
    BY <2>1, <2>2
<1>5. f = G(f)
  <2> HIDE DEF G
  <2> QED
    BY <1>4
<1>6. AfterFields(struct, places) = f[1..len]
  BY <1>1, Zenon DEF AfterFields, FoldLeft, MapThenFoldSet
<1> HIDE DEF f
<1>7. f[{}] = base
  <2>1. G(f)[{}] = base
    BY <1>1
  <2> QED
    BY <1>5, <2>1
<1>8. ASSUME NEW k \in 1..len, f[1..(k - 1)] \in Results
      PROVE  f[1..k] = F[k][f[1..(k - 1)]]
  <2>1. Max(1..k) = k /\ (1..k) \ {k} = 1..(k - 1) /\ 1..k # {} /\ 1..k \in SUBSET (1..len)
    BY <1>1, LastOfPrefix
  <2>2. G(f)[1..k] = F[k][f[1..(k - 1)]]
    BY <1>1, <1>8, <2>1
  <2> QED
    BY <1>5, <2>2
<1>9. PICK h \in [0..len -> Results] : Follows(len, base, F, f, h)
  <2>1. Steps(len, Results, base, F, f)
    BY <1>7, <1>8 DEF Steps
  <2> HIDE DEF F, len, base
  <2> QED
    BY <1>1, <1>2, <2>1, FoldHistory, Zenon
<1>10. \A k \in 1..len : h[k] = CheckField(h[k - 1], struct[places[k]], places[k])
  <2>1. \A k \in 1..len : h[k - 1] \in Results
    BY <1>1, <1>9
  <2> QED
    BY <1>9, <2>1 DEF F, Follows
<1> QED
  BY <1>6, <1>9, <1>10 DEF Follows, FieldsSoFar

\* The elements of one field, and of the first fields, that do not meet a rule.
OfField(struct, i) == OfRules(struct[i], i, Len(struct[i].rules))
FirstFields(struct, k) == FieldsOf(struct) \cap (1..k)
OfFields(struct, k) == UNION {OfField(struct, i) : i \in FirstFields(struct, k)}

FieldGood(struct, i) == GoodUpTo(struct[i], Len(struct[i].rules))

Reported(errors, i) == {m \in DOMAIN errors : errors[m].field = i}

InOrder(errors, k) ==
  /\ \A m \in DOMAIN errors : errors[m].field <= k
  /\ \A l, m \in DOMAIN errors : l < m => errors[l].field <= errors[m].field

\* What Validate has after the first k fields, when their tags are good.
AllReported(struct, k, t) ==
  /\ t \in Results /\ t.error = "none"
  /\ IsFiniteSet(OfFields(struct, k))
  /\ Len(t.errors) = Cardinality(OfFields(struct, k))
  /\ \A i \in FirstFields(struct, k) :
       Cardinality(Reported(t.errors, i)) = Cardinality(OfField(struct, i))
  /\ InOrder(t.errors, k)

FieldsRight(struct, k, t) ==
  /\ (\A i \in FirstFields(struct, k) : FieldGood(struct, i)) => AllReported(struct, k, t)
  /\ ~(\A i \in FirstFields(struct, k) : FieldGood(struct, i)) => t.error = "invalid tag"

\* The violations of another field are others.
LEMMA OneFieldMore ==
  ASSUME NEW struct, NEW k \in Nat \ {0}, k \in FieldsOf(struct),
         IsFiniteSet(OfFields(struct, k - 1)), IsFiniteSet(OfField(struct, k))
  PROVE  /\ FirstFields(struct, k) = FirstFields(struct, k - 1) \cup {k}
         /\ IsFiniteSet(OfFields(struct, k))
         /\ Cardinality(OfFields(struct, k)) =
              Cardinality(OfFields(struct, k - 1)) + Cardinality(OfField(struct, k))
<1> DEFINE old == OfFields(struct, k - 1)
           new == OfField(struct, k)
<1>1. FirstFields(struct, k) = FirstFields(struct, k - 1) \cup {k}
  <2>1. 1..k = (1..(k - 1)) \cup {k}
    OBVIOUS
  <2> QED
    BY <2>1 DEF FirstFields
<1>2. OfFields(struct, k) = old \cup new
  BY <1>1 DEF OfFields
<1>3. old \cap new = {}
  <2> SUFFICES ASSUME NEW t \in old, t \in new PROVE FALSE
    OBVIOUS
  <2>1. PICK i \in FirstFields(struct, k - 1) : t \in OfField(struct, i)
    BY DEF OfFields
  <2>2. t[1] = i /\ t[1] = k
    BY <2>1 DEF OfField, OfRules
  <2>3. i \in 1..(k - 1)
    BY <2>1 DEF FirstFields
  <2> QED
    BY <2>2, <2>3
<1> HIDE DEF old, new
<1>4. IsFiniteSet(old) /\ IsFiniteSet(new)
  BY DEF old, new
<1>5. /\ IsFiniteSet(old \cup new)
      /\ Cardinality(old \cup new) = Cardinality(old) + Cardinality(new) - Cardinality({})
  BY <1>3, <1>4, FS_Union
<1>6. Cardinality({}) = 0 /\ Cardinality(old) \in Nat /\ Cardinality(new) \in Nat
  BY <1>4, FS_EmptySet, FS_CardinalityType
<1>7. Cardinality(OfFields(struct, k)) = Cardinality(old) + Cardinality(new)
  BY <1>2, <1>5, <1>6
<1> QED
  BY <1>1, <1>2, <1>5, <1>7 DEF old, new

\* A field adds errors of its own after those of the fields before it.
LEMMA ErrorsOfField ==
  ASSUME NEW s \in Results, NEW t, NEW k \in Nat \ {0}, NEW count \in Nat,
         InOrder(s.errors, k - 1), Grown(s, t, k, count)
  PROVE  /\ InOrder(t.errors, k)
         /\ Cardinality(Reported(t.errors, k)) = count
         /\ \A i \in 1..(k - 1) : Reported(t.errors, i) = Reported(s.errors, i)
<1> DEFINE a == s.errors
           c == t.errors
<1>1. a \in Seq(Reports) /\ c \in Seq(Reports)
  BY DEF Results, Grown
<1>2. /\ Len(c) = Len(a) + count
      /\ \A m \in 1..Len(a) : c[m] = a[m]
      /\ \A m \in (Len(a) + 1)..Len(c) : c[m].field = k
      /\ \A m \in DOMAIN a : a[m].field <= k - 1
      /\ \A l, m \in DOMAIN a : l < m => a[l].field <= a[m].field
  BY DEF Grown, InOrder
<1> HIDE DEF a, c
<1>3. /\ Len(a) \in Nat /\ Len(c) \in Nat
      /\ DOMAIN a = 1..Len(a) /\ DOMAIN c = 1..Len(c)
      /\ \A m \in 1..Len(a) : a[m].field \in Nat
      /\ \A m \in 1..Len(c) : c[m].field \in Nat
  <2>1. \A p \in Reports : p.field \in Nat
    BY DEF Reports
  <2>2. /\ Len(a) \in Nat /\ Len(c) \in Nat
        /\ DOMAIN a = 1..Len(a) /\ DOMAIN c = 1..Len(c)
    BY <1>1
  <2>3. \A m \in 1..Len(a) : a[m] \in Reports
    BY <1>1
  <2>4. \A m \in 1..Len(c) : c[m] \in Reports
    BY <1>1
  <2> QED
    BY <2>1, <2>2, <2>3, <2>4
<1>4. ASSUME NEW m \in 1..Len(c)
      PROVE  \/ m \in 1..Len(a) /\ c[m].field = a[m].field /\ c[m].field <= k - 1
             \/ m \in (Len(a) + 1)..Len(c) /\ c[m].field = k
  <2>1. CASE m <= Len(a)
    <3>1. m \in 1..Len(a)
      BY <1>3, <2>1
    <3>2. c[m].field = a[m].field
      BY <1>2, <3>1
    <3>3. a[m].field <= k - 1
      BY <1>2, <1>3, <3>1
    <3> QED
      BY <3>1, <3>2, <3>3
  <2>2. CASE ~(m <= Len(a))
    <3>1. m \in (Len(a) + 1)..Len(c)
      BY <1>3, <2>2
    <3> QED
      BY <1>2, <3>1
  <2> QED
    BY <2>1, <2>2
<1>5. \A m \in DOMAIN c : c[m].field <= k
  BY <1>3, <1>4
<1>6. ASSUME NEW l \in DOMAIN c, NEW m \in DOMAIN c, l < m
      PROVE  c[l].field <= c[m].field
  <2>1. l \in 1..Len(c) /\ m \in 1..Len(c)
    BY <1>3
  <2>2. CASE c[m].field = k
    BY <1>5, <2>2
  <2>3. CASE m \in 1..Len(a) /\ c[m].field = a[m].field
    <3>1. l \in 1..Len(a)
      BY <1>3, <1>6, <2>1, <2>3
    <3> QED
      BY <1>2, <1>3, <1>6, <2>3, <3>1
  <2> QED
    BY <1>4, <2>1, <2>2, <2>3
<1>7. InOrder(c, k)
  BY <1>5, <1>6 DEF InOrder
<1>8. Reported(c, k) = (Len(a) + 1)..Len(c)
  <2>1. ASSUME NEW m \in Reported(c, k) PROVE m \in (Len(a) + 1)..Len(c)
    <3>1. m \in 1..Len(c) /\ c[m].field = k
      BY <1>3 DEF Reported
    <3> QED
      BY <1>4, <3>1
  <2>2. ASSUME NEW m \in (Len(a) + 1)..Len(c) PROVE m \in Reported(c, k)
    <3>1. m \in 1..Len(c)
      BY <1>3
    <3> QED
      BY <1>2, <1>3, <3>1 DEF Reported
  <2> QED
    BY <2>1, <2>2
<1>9. Cardinality(Reported(c, k)) = count
  <2>1. Len(a) + 1 \in Int /\ Len(c) \in Int
    BY <1>3
  <2>2. Cardinality((Len(a) + 1)..Len(c)) =
          IF Len(a) + 1 > Len(c) THEN 0 ELSE Len(c) - (Len(a) + 1) + 1
    BY <2>1, FS_Interval
  <2> QED
    BY <1>2, <1>3, <1>8, <2>2
<1>10. ASSUME NEW i \in 1..(k - 1) PROVE Reported(c, i) = Reported(a, i)
  <2>1. ASSUME NEW m \in Reported(c, i) PROVE m \in Reported(a, i)
    <3>1. m \in 1..Len(c) /\ c[m].field = i
      BY <1>3 DEF Reported
    <3>2. m \in 1..Len(a) /\ c[m].field = a[m].field
      BY <1>4, <3>1
    <3> QED
      BY <1>3, <3>1, <3>2 DEF Reported
  <2>2. ASSUME NEW m \in Reported(a, i) PROVE m \in Reported(c, i)
    <3>1. m \in 1..Len(a) /\ a[m].field = i
      BY <1>3 DEF Reported
    <3>2. m \in 1..Len(c)
      BY <1>2, <1>3, <3>1
    <3> QED
      BY <1>2, <1>3, <3>1, <3>2 DEF Reported
  <2> QED
    BY <2>1, <2>2
<1> QED
  BY <1>7, <1>9, <1>10 DEF a, c

\* One field more is checked as the others were.
LEMMA FieldChecked ==
  ASSUME NEW Char, NEW struct, NEW k \in Nat \ {0}, k \in DOMAIN struct,
         SoundField(struct[k], Char), NEW s \in Results, FieldsRight(struct, k - 1, s)
  PROVE  /\ CheckField(s, struct[k], k) \in Results
         /\ FieldsRight(struct, k, CheckField(s, struct[k], k))
<1> DEFINE t == CheckField(s, struct[k], k)
           good == \A i \in FirstFields(struct, k - 1) : FieldGood(struct, i)
<1>1. CASE ~Checked(struct[k])
  <2>1. t = s
    BY <1>1 DEF CheckField
  <2>2. FirstFields(struct, k) = FirstFields(struct, k - 1)
    <3>1. 1..k = (1..(k - 1)) \cup {k} /\ k \notin FieldsOf(struct)
      BY <1>1 DEF FieldsOf
    <3> QED
      BY <3>1 DEF FirstFields
  <2>3. OfFields(struct, k) = OfFields(struct, k - 1)
    BY <2>2 DEF OfFields
  <2>4. ASSUME AllReported(struct, k - 1, s) PROVE AllReported(struct, k, s)
    <3>1. InOrder(s.errors, k)
      <4>1. s.errors \in Seq(Reports) /\ InOrder(s.errors, k - 1)
        BY <2>4 DEF AllReported, Results
      <4>2. \A m \in DOMAIN s.errors : s.errors[m] \in Reports
        BY <4>1
      <4>3. \A m \in DOMAIN s.errors : s.errors[m].field \in Nat
        BY <4>2 DEF Reports
      <4> QED
        BY <4>1, <4>3 DEF InOrder
    <3> QED
      BY <2>2, <2>3, <2>4, <3>1 DEF AllReported
  <2> HIDE DEF t
  <2>5. FieldsRight(struct, k, t)
    BY <2>1, <2>2, <2>4 DEF FieldsRight
  <2> QED
    BY <2>1, <2>5 DEF t
<1>2. CASE Checked(struct[k])
  <2> DEFINE field == struct[k]
             len == Len(field.rules)
             count == Cardinality(OfField(struct, k))
  <2>1. t = AfterRules(s, field, k)
    BY <1>2, Zenon DEF CheckField, AfterRules
  <2>2. /\ t \in Results
        /\ s.error # "none" => t = s
        /\ s.error = "none" => RulesRight(s, field, k, len, t)
    <3>1. FieldAnswered(s, field, k, AfterRules(s, field, k))
      BY <1>2, RulesChecked
    <3> QED
      BY <2>1, <3>1 DEF FieldAnswered
  <2>3. k \in FieldsOf(struct)
    BY <1>2 DEF FieldsOf
  <2>4. /\ FieldGood(struct, k) <=> GoodUpTo(field, len)
        /\ OfField(struct, k) = OfRules(field, k, len)
    BY DEF FieldGood, OfField
  <2>5. FirstFields(struct, k) = FirstFields(struct, k - 1) \cup {k}
    <3>1. 1..k = (1..(k - 1)) \cup {k}
      OBVIOUS
    <3> QED
      BY <2>3, <3>1 DEF FirstFields
  <2> HIDE DEF t, field, len
  <2>6. CASE ~good
    <3>1. s.error = "invalid tag"
      BY <2>6 DEF FieldsRight
    <3>2. t.error = "invalid tag"
      BY <2>2, <3>1
    <3>3. ~(\A i \in FirstFields(struct, k) : FieldGood(struct, i))
      BY <2>5, <2>6
    <3> QED
      BY <2>2, <3>2, <3>3 DEF FieldsRight, t
  <2>7. CASE good /\ ~FieldGood(struct, k)
    <3>1. s.error = "none"
      BY <2>7 DEF FieldsRight, AllReported
    <3>2. t.error = "invalid tag"
      BY <2>2, <2>4, <2>7, <3>1 DEF RulesRight
    <3>3. ~(\A i \in FirstFields(struct, k) : FieldGood(struct, i))
      BY <2>5, <2>7
    <3> QED
      BY <2>2, <3>2, <3>3 DEF FieldsRight, t
  <2>8. CASE good /\ FieldGood(struct, k)
    <3>1. AllReported(struct, k - 1, s)
      BY <2>8 DEF FieldsRight
    <3>2. s.error = "none"
      BY <3>1 DEF AllReported
    <3>3. IsFiniteSet(OfField(struct, k)) /\ Grown(s, t, k, count)
      <4>1. RulesRight(s, field, k, len, t) /\ GoodUpTo(field, len)
        BY <2>2, <2>4, <2>8, <3>2
      <4>2. IsFiniteSet(OfRules(field, k, len)) /\ Grown(s, t, k, Cardinality(OfRules(field, k, len)))
        BY <4>1 DEF RulesRight
      <4> QED
        BY <2>4, <4>2, Zenon
    <3>4. count \in Nat
      BY <3>3, FS_CardinalityType
    <3>5. /\ IsFiniteSet(OfFields(struct, k))
          /\ Cardinality(OfFields(struct, k)) = Cardinality(OfFields(struct, k - 1)) + count
      <4>1. IsFiniteSet(OfFields(struct, k - 1))
        BY <3>1 DEF AllReported
      <4> QED
        BY <2>3, <3>3, <4>1, OneFieldMore
    <3>6. /\ InOrder(t.errors, k)
          /\ Cardinality(Reported(t.errors, k)) = count
          /\ \A i \in 1..(k - 1) : Reported(t.errors, i) = Reported(s.errors, i)
      <4>1. InOrder(s.errors, k - 1)
        BY <3>1 DEF AllReported
      <4> HIDE DEF count
      <4> QED
        BY <3>3, <3>4, <4>1, ErrorsOfField
    <3>7. ASSUME NEW i \in FirstFields(struct, k)
          PROVE  Cardinality(Reported(t.errors, i)) = Cardinality(OfField(struct, i))
      <4>1. CASE i = k
        BY <3>6, <4>1
      <4>2. CASE i # k
        <5>1. i \in FirstFields(struct, k - 1) /\ i \in 1..(k - 1)
          BY <2>5, <4>2 DEF FirstFields
        <5>2. Cardinality(Reported(s.errors, i)) = Cardinality(OfField(struct, i))
          BY <3>1, <5>1 DEF AllReported
        <5> QED
          BY <3>6, <5>1, <5>2
      <4> QED
        BY <4>1, <4>2
    <3>8. Len(t.errors) = Cardinality(OfFields(struct, k)) /\ t.error = "none"
      <4>1. Len(s.errors) = Cardinality(OfFields(struct, k - 1))
        BY <3>1 DEF AllReported
      <4>2. Len(t.errors) = Len(s.errors) + count /\ t.error = "none"
        BY <3>3 DEF Grown
      <4> QED
        BY <3>5, <4>1, <4>2
    <3>9. AllReported(struct, k, t)
      BY <2>2, <3>5, <3>6, <3>7, <3>8 DEF AllReported
    <3>10. \A i \in FirstFields(struct, k) : FieldGood(struct, i)
      BY <2>5, <2>8
    <3> QED
      BY <2>2, <3>9, <3>10 DEF FieldsRight, t
  <2> QED
    BY <2>6, <2>7, <2>8
<1> QED
  BY <1>1, <1>2

\* What the loop over the fields leaves.
LEMMA FieldsChecked ==
  ASSUME NEW Char, NEW struct, SoundStruct(struct, Char)
  PROVE  LET t == AfterFields(struct, [i \in DOMAIN struct |-> i]) IN
         /\ Len(struct) \in Nat /\ DOMAIN struct = 1..Len(struct)
         /\ t \in Results /\ FieldsRight(struct, Len(struct), t)
<1> DEFINE places == [i \in DOMAIN struct |-> i]
           t == AfterFields(struct, places)
           len == Len(struct)
<1>1. len \in Nat /\ DOMAIN struct = 1..len
  BY DEF SoundStruct
<1>2. /\ places \in Seq(1..len) /\ Len(places) = len
      /\ \A k \in 1..len : places[k] = k /\ k \in Nat \ {0} /\ k \in DOMAIN struct
  BY <1>1
<1>3. \A k \in 1..len : SoundField(struct[k], Char)
  BY <1>1 DEF SoundStruct
<1>4. Nothing \in Results
  BY DEF Nothing, Results, ErrorKinds
<1>5. FieldsRight(struct, 0, Nothing)
  <2>1. FirstFields(struct, 0) = {} /\ OfFields(struct, 0) = {}
    BY DEF FirstFields, OfFields
  <2>2. IsFiniteSet({}) /\ Cardinality({}) = 0
    BY FS_EmptySet
  <2>3. Nothing.error = "none" /\ Len(Nothing.errors) = 0 /\ DOMAIN Nothing.errors = {}
    BY DEF Nothing
  <2>4. InOrder(Nothing.errors, 0)
    BY <2>3 DEF InOrder
  <2>5. AllReported(struct, 0, Nothing)
    BY <1>4, <2>1, <2>2, <2>3, <2>4 DEF AllReported
  <2> QED
    BY <2>1, <2>5 DEF FieldsRight
<1> HIDE DEF places, t, len
<1>6. \A r \in Results : \A k \in 1..Len(places) :
         CheckField(r, struct[places[k]], places[k]) \in Results
  <2> SUFFICES ASSUME NEW r \in Results, NEW k \in 1..len
               PROVE  CheckField(r, struct[k], k) \in Results
    BY <1>2
  <2>1. CASE ~Checked(struct[k])
    BY <2>1 DEF CheckField
  <2>2. CASE Checked(struct[k])
    <3>1. CheckField(r, struct[k], k) = AfterRules(r, struct[k], k)
      BY <2>2, Zenon DEF CheckField, AfterRules
    <3>2. k \in Nat
      BY <1>2
    <3> QED
      BY <1>3, <2>2, <3>1, <3>2, RulesChecked DEF FieldAnswered
  <2> QED
    BY <2>1, <2>2
<1>7. PICK h \in [0..len -> Results] : FieldsSoFar(struct, places, h)
  BY <1>2, <1>4, <1>6, FieldsHistory
<1>8. /\ h[0] = Nothing /\ h[len] = t
      /\ \A k \in 1..len : h[k] = CheckField(h[k - 1], struct[k], k)
  BY <1>2, <1>7 DEF FieldsSoFar, t
<1> DEFINE T == {k \in 0..len : FieldsRight(struct, k, h[k])}
<1>9. 0 \in T
  BY <1>1, <1>5, <1>8
<1>10. ASSUME NEW k \in 1..len, k - 1 \in T PROVE k \in T
  <2>1. k \in 0..len /\ h[k - 1] \in Results /\ k \in Nat \ {0} /\ k \in DOMAIN struct
    BY <1>1, <1>2, <1>7
  <2>2. FieldsRight(struct, k, CheckField(h[k - 1], struct[k], k))
    BY <1>3, <1>10, <2>1, FieldChecked
  <2> QED
    BY <1>8, <2>1, <2>2
<1> HIDE DEF T
<1>11. \A k \in 0..len : k \in T
  BY <1>1, <1>9, <1>10, UpTo
<1>12. len \in T /\ h[len] \in Results
  BY <1>1, <1>7, <1>11
<1>13. t \in Results /\ FieldsRight(struct, len, t)
  BY <1>8, <1>12 DEF T
<1> QED
  BY <1>1, <1>13 DEF t, len, places

-----------------------------------------------------------------------------
\* What the code allows and what the exercise says, element by element.

\* Characters of one byte each are as many as the bytes.
LEMMA OneByteEach ==
  ASSUME NEW Char, NEW x \in Seq(Char), \A i \in DOMAIN x : Width[x[i]] = 1
  PROVE  Cardinality(Bytes(x)) = Len(x)
<1> DEFINE len == Len(x)
           g == [i \in 1..len |-> <<i, 1>>]
<1>1. len \in Nat /\ DOMAIN x = 1..len
  OBVIOUS
<1>2. Bytes(x) = {<<i, 1>> : i \in 1..len}
  <2>1. \A i \in 1..len : {i} \X (1..Width[x[i]]) = {<<i, 1>>}
    BY <1>1
  <2> QED
    BY <1>1, <2>1 DEF Bytes
<1> HIDE DEF len
<1>3. g \in Bijection(1..len, Bytes(x))
  BY <1>2 DEF Bijection, Injection, Surjection, IsInjective
<1>4. ExistsBijection(1..len, Bytes(x))
  BY <1>3 DEF ExistsBijection
<1>5. IsFiniteSet(1..len) /\ Cardinality(1..len) = len
  <2>1. /\ IsFiniteSet(1..len)
        /\ Cardinality(1..len) = IF 1 > len THEN 0 ELSE len - 1 + 1
    BY <1>1, FS_Interval
  <2> QED
    BY <1>1, <2>1
<1>6. Cardinality(Bytes(x)) = len
  BY <1>4, <1>5, FS_Bijection
<1> QED
  BY <1>6 DEF len

\* An expression closed at its end matches the strings it stands for; one that is open
\* matches these too.
LEMMA WholeMatch ==
  ASSUME NEW Char, NEW x \in Seq(Char), NEW re
  PROVE  /\ x \in re.lang => Matches(re, x)
         /\ re.tail = "dollar" => (Matches(re, x) <=> x \in re.lang)
<1>1. Len(x) \in 0..Len(x) /\ SubSeq(x, 1, Len(x)) = x
  OBVIOUS
<1>2. x \in re.lang => Matches(re, x)
  BY <1>1 DEF Matches
<1>3. ASSUME re.tail = "dollar", Matches(re, x) PROVE x \in re.lang
  <2>1. PICK k \in 0..Len(x) : SubSeq(x, 1, k) \in re.lang /\ k = Len(x)
    BY <1>3 DEF Matches
  <2> QED
    BY <1>1, <2>1
<1> QED
  BY <1>2, <1>3

\* Where the code does not depart from the exercise it allows what meets the rule.
LEMMA AllowsWhatMeets ==
  ASSUME NEW Char, NEW x, NEW rule, SoundArg(rule), NEW kind \in Kinds \ {"unsupported"},
         GoodRule(rule, kind), OfStrings(kind) => x \in Seq(Char), ~Departs(rule, x)
  PROVE  Allows(rule, kind, x) <=> Meets(rule, kind, x)
<1>1. OfStrings(kind) <=> ~OfInts(kind)
  BY DEF OfStrings, OfInts, Kinds
<1>2. \/ rule.name \in {"len", "regexp"} /\ OfStrings(kind)
      \/ rule.name \in {"in", "min", "max"}
  BY DEF GoodRule
<1>3. CASE rule.name = "len"
  <2>1. \A i \in DOMAIN x : Width[x[i]] = 1
    BY <1>3 DEF Departs
  <2>2. Cardinality(Bytes(x)) = Len(x)
    BY <1>2, <1>3, <2>1, OneByteEach
  <2>3. Allows(rule, kind, x) <=> Cardinality(Bytes(x)) = RuleArg(rule, kind)
    BY <1>3, Zenon DEF Allows
  <2>4. Meets(rule, kind, x) <=> Len(x) = RuleArg(rule, kind)
    BY <1>3, Zenon DEF Meets
  <2> QED
    BY <2>2, <2>3, <2>4
<1>4. CASE rule.name = "regexp"
  <2> DEFINE re == rule.arg.regexp
             made == [re EXCEPT !.tail = AddEnd(@)]
  <2>1. RuleArg(rule, kind) = re
    BY <1>4 DEF RuleArg
  <2>2. PICK Langs : re \in [lang: Langs, tail: Tails]
    BY <1>4, <2>1 DEF GoodRule, SoundArg
  <2>3. ~(re.tail = "escaped dollar" /\ x \notin re.lang)
    BY <1>4 DEF Departs
  <2> HIDE DEF re
  <2>4. made.lang = re.lang /\ made.tail = AddEnd(re.tail)
    BY <2>2
  <2>5. re.tail # "escaped dollar" => made.tail = "dollar"
    BY <2>4 DEF AddEnd
  <2>6. Allows(rule, kind, x) <=> Matches(made, x)
    BY <1>4, <2>1, Zenon DEF Allows
  <2>7. Meets(rule, kind, x) <=> x \in re.lang
    BY <1>4, <2>1, Zenon DEF Meets
  <2>8. x \in Seq(Char)
    BY <1>2, <1>4
  <2> HIDE DEF made
  <2>9. /\ x \in re.lang => Matches(made, x)
        /\ made.tail = "dollar" => (Matches(made, x) <=> x \in re.lang)
    BY <2>4, <2>8, WholeMatch
  <2> QED
    BY <2>3, <2>5, <2>6, <2>7, <2>9
<1>5. CASE rule.name \in {"in", "min", "max"}
  BY <1>5 DEF Allows, Meets
<1> QED
  BY <1>2, <1>3, <1>4, <1>5

\* The elements that the code refuses, by the field, the rule and the index.
Refusals(struct) ==
  {t \in Checks(struct) :
     ~Allows(RuleOf(struct, t), struct[t[1]].kind, ElementOf(struct, t))}

\* They are those that do not meet a rule, but for the departures.
LEMMA RefusalsDepart ==
  ASSUME NEW Char, NEW struct, SoundStruct(struct, Char), TagsAreGood(struct)
  PROVE  /\ Violations(struct) \ Departures(struct) \subseteq Refusals(struct)
         /\ Refusals(struct) \subseteq
              (Violations(struct) \ Departures(struct)) \cup Departures(struct)
<1>1. ASSUME NEW t \in Checks(struct), t \notin Departures(struct)
      PROVE  t \in Refusals(struct) <=> t \in Violations(struct)
  <2>1. PICK i \in FieldsOf(struct) :
          t \in {i} \X (DOMAIN struct[i].rules) \X (DOMAIN ElementsOf(struct[i]))
    BY DEF Checks
  <2>10. PICK j \in DOMAIN struct[i].rules, m \in DOMAIN ElementsOf(struct[i]) : t = <<i, j, m>>
    BY <2>1
  <2> DEFINE rule == struct[i].rules[j]
             x == ElementsOf(struct[i])[m]
             kind == struct[i].kind
  <2>2. t[1] = i /\ RuleOf(struct, t) = rule /\ ElementOf(struct, t) = x
    BY <2>10 DEF RuleOf, ElementOf
  <2>3. i \in DOMAIN struct /\ Checked(struct[i]) /\ SoundField(struct[i], Char)
    BY DEF FieldsOf, SoundStruct
  <2>4. SoundArg(rule) /\ kind \in Kinds \ {"unsupported"}
    BY <2>3 DEF Checked, SoundField
  <2>5. GoodRule(rule, kind)
    BY DEF TagsAreGood
  <2>6. OfStrings(kind) => x \in Seq(Char)
    BY <2>3, FieldElements DEF Checked
  <2>7. ~Departs(rule, x)
    BY <1>1, <2>2 DEF Departures
  <2> HIDE DEF rule, x, kind
  <2>8. Allows(rule, kind, x) <=> Meets(rule, kind, x)
    BY <2>4, <2>5, <2>6, <2>7, AllowsWhatMeets
  <2> QED
    BY <2>2, <2>8 DEF Refusals, Violations, kind
<1>2. Refusals(struct) \subseteq Checks(struct) /\ Violations(struct) \subseteq Checks(struct)
  BY DEF Refusals, Violations
<1> QED
  BY <1>1, <1>2

\* A struct has finitely many elements and rules.
LEMMA ChecksFinite ==
  ASSUME NEW Char, NEW struct, SoundStruct(struct, Char)
  PROVE  IsFiniteSet(Checks(struct))
<1> DEFINE Places(i) == {i} \X (DOMAIN struct[i].rules) \X (DOMAIN ElementsOf(struct[i]))
           all == [i \in FieldsOf(struct) |-> Places(i)]
           S == {Places(i) : i \in FieldsOf(struct)}
<1>1. ASSUME NEW i \in FieldsOf(struct) PROVE IsFiniteSet(Places(i))
  <2> DEFINE A == DOMAIN struct[i].rules
             B == DOMAIN ElementsOf(struct[i])
             g == [p \in A \X B |-> <<i, p[1], p[2]>>]
  <2>1. SoundField(struct[i], Char) /\ Checked(struct[i])
    BY DEF FieldsOf, SoundStruct
  <2>2. /\ A = 1..Len(struct[i].rules) /\ Len(struct[i].rules) \in Nat
    BY <2>1 DEF SoundField, Checked
  <2>3. PICK T : ElementsOf(struct[i]) \in Seq(T)
    BY <2>1, FieldElements DEF Checked
  <2>4. B = 1..Len(ElementsOf(struct[i])) /\ Len(ElementsOf(struct[i])) \in Nat
    BY <2>3
  <2>5. IsFiniteSet(A) /\ IsFiniteSet(B)
    <3>1. \A len \in Nat : IsFiniteSet(1..len)
      BY FS_Interval
    <3> HIDE DEF A, B
    <3> QED
      BY <2>2, <2>4, <3>1
  <2> HIDE DEF A, B
  <2>6. IsFiniteSet(A \X B)
    BY <2>5, FS_Product
  <2>7. g \in Surjection(A \X B, {i} \X A \X B)
    <3>1. ASSUME NEW t \in {i} \X A \X B PROVE \E p \in A \X B : g[p] = t
      <4>1. t[2] \in A /\ t[3] \in B /\ t = <<i, t[2], t[3]>>
        OBVIOUS
      <4> DEFINE p == <<t[2], t[3]>>
      <4>2. p \in A \X B /\ p[1] = t[2] /\ p[2] = t[3]
        BY <4>1
      <4> HIDE DEF p
      <4>3. g[p] = <<i, p[1], p[2]>>
        BY <4>2, Zenon
      <4> HIDE DEF g
      <4> QED
        BY <4>1, <4>2, <4>3
    <3>2. g \in [A \X B -> {i} \X A \X B]
      OBVIOUS
    <3> QED
      BY <3>1, <3>2 DEF Surjection
  <2>8. IsFiniteSet({i} \X A \X B)
    BY <2>6, <2>7, FS_Surjection
  <2> QED
    BY <2>8 DEF A, B
<1>2. IsFiniteSet(FieldsOf(struct))
  <2>1. DOMAIN struct = 1..Len(struct) /\ Len(struct) \in Nat
    BY DEF SoundStruct
  <2>2. IsFiniteSet(1..Len(struct))
    BY <2>1, FS_Interval
  <2>3. FieldsOf(struct) \in SUBSET (1..Len(struct))
    BY <2>1 DEF FieldsOf
  <2> QED
    BY <2>2, <2>3, FS_Subset
<1>3. all \in Surjection(FieldsOf(struct), S)
  <2> HIDE DEF Places
  <2> QED
    BY DEF Surjection
<1>4. IsFiniteSet(S)
  <2> HIDE DEF all, S
  <2> QED
    BY <1>2, <1>3, FS_Surjection
<1>5. \A T \in S : IsFiniteSet(T)
  <2> HIDE DEF Places
  <2> QED
    BY <1>1
<1>6. IsFiniteSet(UNION S)
  <2> HIDE DEF S
  <2> QED
    BY <1>4, <1>5, FS_UNION
<1> QED
  BY <1>6, Zenon DEF Checks

\* A set between two finite ones has between as many elements.
LEMMA CountedBetween ==
  ASSUME NEW certain, NEW doubtful, NEW found, IsFiniteSet(certain), IsFiniteSet(doubtful),
         certain \subseteq found, found \subseteq certain \cup doubtful
  PROVE  AllOf(Cardinality(found), certain, doubtful)
<1>1. IsFiniteSet(certain \cup doubtful)
  BY FS_Union
<1>2. found \in SUBSET (certain \cup doubtful) /\ certain \in SUBSET found
  OBVIOUS
<1>3. IsFiniteSet(found) /\ Cardinality(found) <= Cardinality(certain \cup doubtful)
  BY <1>1, <1>2, FS_Subset
<1>4. Cardinality(certain) <= Cardinality(found)
  BY <1>2, <1>3, FS_Subset
<1> QED
  BY <1>3, <1>4 DEF AllOf

\* For every struct whose values are of the kinds of its fields, of any number of fields,
\* rules and elements, Validate gives an error of a tag whenever a rule is not one, and
\* otherwise one error for each element that does not meet a rule, in the order of the
\* fields, but for the lengths in bytes and the open expressions; and it asks no validator
\* about a value of another type.
THEOREM ValidateAlwaysRight ==
  ASSUME NEW Char, NEW struct, SoundStruct(struct, Char)
  PROVE  ValidateIsRight(struct) /\ NoUnsupportedArgument(struct)
<1> DEFINE t == AfterFields(struct, [i \in DOMAIN struct |-> i])
           len == Len(struct)
           answer == Validate(struct)
<1>1. /\ len \in Nat /\ DOMAIN struct = 1..len
      /\ t \in Results /\ FieldsRight(struct, len, t)
  BY FieldsChecked
<1>2. answer = IF Stopped(t) THEN [t EXCEPT !.errors = <<>>] ELSE t
  BY Zenon DEF Validate, FoldLeftDomain, AfterFields
<1>3. FirstFields(struct, len) = FieldsOf(struct)
  BY <1>1 DEF FirstFields, FieldsOf
<1>4. \A i \in FieldsOf(struct) : Len(struct[i].rules) \in Nat
                                    /\ DOMAIN struct[i].rules = 1..Len(struct[i].rules)
  BY DEF SoundStruct, FieldsOf, Checked, SoundField
<1>5. TagsAreGood(struct) <=> \A i \in FieldsOf(struct) : FieldGood(struct, i)
  BY <1>4 DEF TagsAreGood, FieldGood, GoodUpTo
<1>6. \A i \in FieldsOf(struct) :
         OfField(struct, i) =
           {x \in {i} \X (DOMAIN struct[i].rules) \X (DOMAIN ElementsOf(struct[i])) :
              ~Allows(struct[i].rules[x[2]], struct[i].kind, ElementsOf(struct[i])[x[3]])}
  BY <1>4, Zenon DEF OfField, OfRules
<1>7. ASSUME NEW x
      PROVE  x \in Refusals(struct) <=> \E i \in FieldsOf(struct) : x \in OfField(struct, i)
  <2>1. ASSUME NEW i \in FieldsOf(struct),
               x \in {i} \X (DOMAIN struct[i].rules) \X (DOMAIN ElementsOf(struct[i]))
        PROVE  x \in Refusals(struct) <=> x \in OfField(struct, i)
    <3>1. x[1] = i /\ RuleOf(struct, x) = struct[i].rules[x[2]]
          /\ ElementOf(struct, x) = ElementsOf(struct[i])[x[3]] /\ x \in Checks(struct)
      BY <2>1 DEF RuleOf, ElementOf, Checks
    <3> QED
      BY <1>6, <2>1, <3>1 DEF Refusals
  <2>2. x \in Refusals(struct) =>
          \E i \in FieldsOf(struct) :
            x \in {i} \X (DOMAIN struct[i].rules) \X (DOMAIN ElementsOf(struct[i]))
    BY DEF Refusals, Checks
  <2>3. \A i \in FieldsOf(struct) : x \in OfField(struct, i) =>
            x \in {i} \X (DOMAIN struct[i].rules) \X (DOMAIN ElementsOf(struct[i]))
    BY <1>6
  <2> QED
    BY <2>1, <2>2, <2>3
<1>11. Refusals(struct) = OfFields(struct, len)
  BY <1>3, <1>7 DEF OfFields
<1>8. ASSUME NEW i \in FieldsOf(struct)
      PROVE  OfThe(i, Refusals(struct)) = OfField(struct, i)
  <2>1. ASSUME NEW q \in FieldsOf(struct), NEW x \in OfField(struct, q) PROVE x[1] = q
    BY DEF OfField, OfRules
  <2>2. OfField(struct, i) \subseteq Refusals(struct)
    BY <1>7
  <2>3. ASSUME NEW x \in Refusals(struct), x[1] = i PROVE x \in OfField(struct, i)
    <3>1. PICK q \in FieldsOf(struct) : x \in OfField(struct, q)
      BY <1>7
    <3> QED
      BY <2>1, <2>3, <3>1
  <2>4. \A x \in OfField(struct, i) : x[1] = i
    BY <2>1
  <2> QED
    BY <2>2, <2>3, <2>4 DEF OfThe
<1> HIDE DEF t, len, answer
<1>9. CASE ~TagsAreGood(struct)
  <2>1. t.error = "invalid tag"
    BY <1>1, <1>3, <1>5, <1>9 DEF FieldsRight
  <2>2. answer = [t EXCEPT !.errors = <<>>]
    BY <1>2, <2>1 DEF Stopped
  <2>3. answer = [error |-> "invalid tag", errors |-> <<>>]
    BY <1>1, <2>1, <2>2 DEF Results
  <2>4. answer.error # "unsupported argument"
    BY <2>3
  <2> QED
    BY <1>9, <2>3, <2>4 DEF ValidateIsRight, NoUnsupportedArgument, answer
<1>10. CASE TagsAreGood(struct)
  <2>1. AllReported(struct, len, t)
    BY <1>1, <1>3, <1>5, <1>10 DEF FieldsRight
  <2>2. answer = t /\ answer.error = "none"
    BY <1>2, <2>1 DEF Stopped, AllReported
  <2> DEFINE certain == Violations(struct) \ Departures(struct)
             doubtful == Departures(struct)
  <2>6. /\ certain \subseteq Refusals(struct) /\ Refusals(struct) \subseteq certain \cup doubtful
        /\ certain \in SUBSET Checks(struct) /\ doubtful \in SUBSET Checks(struct)
    BY <1>10, RefusalsDepart DEF Violations, Departures
  <2> HIDE DEF certain, doubtful
  <2>7. IsFiniteSet(certain) /\ IsFiniteSet(doubtful)
    BY <2>6, ChecksFinite, FS_Subset
  <2>3. AllOf(Len(answer.errors), certain, doubtful)
    <3>1. Len(answer.errors) = Cardinality(Refusals(struct))
      BY <1>11, <2>1, <2>2 DEF AllReported
    <3>2. AllOf(Cardinality(Refusals(struct)), certain, doubtful)
      BY <2>6, <2>7, CountedBetween
    <3> QED
      BY <3>1, <3>2
  <2>4. ASSUME NEW i \in FieldsOf(struct)
        PROVE  AllOf(Cardinality({k \in DOMAIN answer.errors : answer.errors[k].field = i}),
                     OfThe(i, certain), OfThe(i, doubtful))
    <3>1. Cardinality(Reported(answer.errors, i)) = Cardinality(OfField(struct, i))
      BY <1>3, <2>1, <2>2 DEF AllReported
    <3>2. Reported(answer.errors, i) = {k \in DOMAIN answer.errors : answer.errors[k].field = i}
      BY DEF Reported
    <3>3. /\ OfThe(i, certain) \subseteq OfThe(i, Refusals(struct))
          /\ OfThe(i, Refusals(struct)) \subseteq OfThe(i, certain) \cup OfThe(i, doubtful)
          /\ OfThe(i, certain) \in SUBSET certain /\ OfThe(i, doubtful) \in SUBSET doubtful
      BY <2>6 DEF OfThe
    <3>4. IsFiniteSet(OfThe(i, certain)) /\ IsFiniteSet(OfThe(i, doubtful))
      BY <2>7, <3>3, FS_Subset
    <3>5. AllOf(Cardinality(OfThe(i, Refusals(struct))), OfThe(i, certain), OfThe(i, doubtful))
      BY <3>3, <3>4, CountedBetween
    <3> QED
      BY <1>8, <3>1, <3>2, <3>5
  <2>5. \A k, l \in DOMAIN answer.errors :
           k < l => answer.errors[k].field <= answer.errors[l].field
    BY <2>1, <2>2 DEF AllReported, InOrder
  <2> QED
    BY <1>10, <2>2, <2>3, <2>4, <2>5 DEF ValidateIsRight, NoUnsupportedArgument, answer, certain, doubtful
<1> QED
  BY <1>9, <1>10

(**************************************************************************)
(* The texts of hw02, hw03 and hw10.                                      *)
(**************************************************************************)

\* Counting the keys of some places of a sequence, up to the k-th.
PlacesOf(places, key, k, w) == {i \in places \cap (1..k) : key[i] = w}
KeysUpTo(places, key, k) == {key[i] : i \in places \cap (1..k)}

Tally(places, key, k) ==
  [w \in KeysUpTo(places, key, k) |-> Cardinality(PlacesOf(places, key, k, w))]

\* The places and the keys among the first k are finitely many.
LEMMA PlacesFinite ==
  ASSUME NEW places, NEW key, NEW k \in Nat
  PROVE  /\ IsFiniteSet(places \cap (1..k))
         /\ \A w : IsFiniteSet(PlacesOf(places, key, k, w))
         /\ IsFiniteSet(KeysUpTo(places, key, k))
<1> DEFINE P == places \cap (1..k)
           g == [i \in P |-> key[i]]
<1>1. IsFiniteSet(1..k)
  BY FS_Interval
<1>2. IsFiniteSet(P)
  BY <1>1, FS_Subset
<1>3. \A w : PlacesOf(places, key, k, w) \in SUBSET P
  BY DEF PlacesOf
<1>4. g \in Surjection(P, KeysUpTo(places, key, k))
  BY DEF Surjection, KeysUpTo
<1> HIDE DEF P, g
<1>5. \A w : IsFiniteSet(PlacesOf(places, key, k, w))
  BY <1>2, <1>3, FS_Subset
<1>6. IsFiniteSet(KeysUpTo(places, key, k))
  BY <1>2, <1>4, FS_Surjection
<1> QED
  BY <1>2, <1>5, <1>6 DEF P

\* A place that does not count leaves the tally as it was.
LEMMA TallySame ==
  ASSUME NEW places, NEW key, NEW k \in Nat \ {0}, k \notin places
  PROVE  Tally(places, key, k) = Tally(places, key, k - 1)
<1>1. places \cap (1..k) = places \cap (1..(k - 1))
  <2>1. 1..k = (1..(k - 1)) \cup {k}
    OBVIOUS
  <2> QED
    BY <2>1
<1> QED
  BY <1>1 DEF Tally, KeysUpTo, PlacesOf

\* One that does is one more of its key.
LEMMA TallyMore ==
  ASSUME NEW places, NEW key, NEW k \in Nat \ {0}, k \in places
  PROVE  Increment(Tally(places, key, k - 1), key[k]) = Tally(places, key, k)
<1> DEFINE old == Tally(places, key, k - 1)
           x == key[k]
           Was(w) == PlacesOf(places, key, k - 1, w)
           Is(w) == PlacesOf(places, key, k, w)
<1>1. places \cap (1..k) = (places \cap (1..(k - 1))) \cup {k} /\ k \notin 1..(k - 1)
  <2>1. 1..k = (1..(k - 1)) \cup {k}
    OBVIOUS
  <2> QED
    BY <2>1
<1>2. KeysUpTo(places, key, k) = KeysUpTo(places, key, k - 1) \cup {x}
  BY <1>1 DEF KeysUpTo
<1>3. /\ \A w : w # x => Is(w) = Was(w)
      /\ Is(x) = Was(x) \cup {k} /\ k \notin Was(x)
  BY <1>1 DEF PlacesOf
<1>4. \A w : IsFiniteSet(Was(w))
  <2>1. k - 1 \in Nat
    OBVIOUS
  <2> QED
    BY <2>1, PlacesFinite
<1>5. x \notin KeysUpTo(places, key, k - 1) => Was(x) = {}
  BY DEF KeysUpTo, PlacesOf
<1>6. DOMAIN old = KeysUpTo(places, key, k - 1)
  BY DEF Tally
<1> HIDE DEF x, Is, Was
<1>7. Cardinality(Is(x)) = Cardinality(Was(x)) + 1
  BY <1>3, <1>4, FS_AddElement
<1>8. Cardinality({}) = 0 /\ \A w : Cardinality(Was(w)) \in Nat
  BY <1>4, FS_EmptySet, FS_CardinalityType
<1>9. ASSUME NEW w \in KeysUpTo(places, key, k)
      PROVE  (IF w \in DOMAIN old THEN old[w] ELSE 0) + (IF w = x THEN 1 ELSE 0)
               = Cardinality(Is(w))
  <2>1. w \in DOMAIN old => old[w] = Cardinality(Was(w))
    BY <1>6 DEF Tally, Was
  <2> HIDE DEF old
  <2>2. CASE w = x
    BY <1>5, <1>6, <1>7, <1>8, <2>1, <2>2
  <2>3. CASE w # x
    BY <1>2, <1>3, <1>6, <1>8, <2>1, <2>3
  <2> QED
    BY <2>2, <2>3
<1> HIDE DEF old
<1>10. Increment(old, x) = [w \in KeysUpTo(places, key, k) |->
          (IF w \in DOMAIN old THEN old[w] ELSE 0) + (IF w = x THEN 1 ELSE 0)]
  BY <1>2, <1>6 DEF Increment
<1>11. Tally(places, key, k) = [w \in KeysUpTo(places, key, k) |-> Cardinality(Is(w))]
  BY DEF Tally, Is
<1>12. Increment(old, x) = Tally(places, key, k)
  BY <1>9, <1>10, <1>11
<1> QED
  BY <1>12 DEF old, x

\* The maps of counts.
CountMaps(K) == UNION {[E -> Nat] : E \in SUBSET K}

\* result[key]++ gives a map of counts again.
LEMMA IncrementTyped ==
  ASSUME NEW K, NEW counts \in CountMaps(K), NEW key \in K
  PROVE  Increment(counts, key) \in CountMaps(K)
<1>1. PICK E \in SUBSET K : counts \in [E -> Nat]
  BY DEF CountMaps
<1>2. Increment(counts, key) \in [E \cup {key} -> Nat]
  BY <1>1 DEF Increment
<1>3. E \cup {key} \in SUBSET K
  BY <1>1
<1> QED
  BY <1>2, <1>3 DEF CountMaps

\* The empty map is one, and the tally of no place.
LEMMA NoCountsTyped ==
  ASSUME NEW K
  PROVE  /\ NoCounts \in CountMaps(K)
         /\ \A places, key : NoCounts = Tally(places, key, 0)
<1>1. NoCounts \in [{} -> Nat]
  BY DEF NoCounts
<1>2. {} \in SUBSET K
  OBVIOUS
<1>3. ASSUME NEW places, NEW key PROVE NoCounts = Tally(places, key, 0)
  <2>1. KeysUpTo(places, key, 0) = {}
    BY DEF KeysUpTo
  <2> QED
    BY <2>1 DEF Tally, NoCounts
<1> QED
  BY <1>1, <1>2, <1>3 DEF CountMaps

\* What the loop over the words has counted after each of them.
WordsSoFar(words, h) ==
  /\ h[0] = NoCounts /\ h[Len(words)] = CountWords(words)
  /\ \A k \in 1..Len(words) : h[k] = CountWord(h[k - 1], words[k])

\* countWords has this history for every text.
LEMMA WordsHistory ==
  ASSUME NEW K, NEW S, NEW words \in Seq(S), NoCounts \in CountMaps(K),
         \A r \in CountMaps(K) : \A k \in 1..Len(words) : CountWord(r, words[k]) \in CountMaps(K)
  PROVE  \E h \in [0..Len(words) -> CountMaps(K)] : WordsSoFar(words, h)
<1> DEFINE len == Len(words)
           F == [k \in 1..len |-> [r \in CountMaps(K) |-> CountWord(r, words[k])]]
           G(f) == [s \in SUBSET DOMAIN words |->
                      IF s = {} THEN NoCounts
                      ELSE CountWord(f[s \ {Max(s)}], words[Max(s)])]
           f == CHOOSE x : x = G(x)
           base == NoCounts
<1>1. len \in Nat /\ DOMAIN words = 1..len /\ base \in CountMaps(K)
  OBVIOUS
<1>2. F \in [1..len -> [CountMaps(K) -> CountMaps(K)]]
  OBVIOUS
<1>3. PICK g \in [SUBSET (1..len) -> CountMaps(K)] : Runs(len, base, F, g)
  <2> HIDE DEF F, len, base
  <2> QED
    BY <1>1, <1>2, FoldRuns, Zenon
<1>4. g = G(g)
  <2>1. ASSUME NEW s \in SUBSET (1..len) PROVE g[s] = G(g)[s]
    <3>1. CASE s = {}
      BY <1>1, <1>3, <3>1 DEF Runs
    <3>2. CASE s # {}
      <4>1. Max(s) \in 1..len /\ g[s \ {Max(s)}] \in CountMaps(K)
        BY <1>1, <1>3, <3>2, GreatestIsMax
      <4>2. g[s] = F[Max(s)][g[s \ {Max(s)}]]
        BY <1>3, <3>2 DEF Runs
      <4> QED
        BY <1>1, <3>2, <4>1, <4>2
    <3> QED
      BY <3>1, <3>2
  <2>2. G(g) = [s \in SUBSET (1..len) |-> G(g)[s]] /\ g = [s \in SUBSET (1..len) |-> g[s]]
    BY <1>1
  <2> HIDE DEF G
  <2> QED
    BY <2>1, <2>2
<1>5. f = G(f)
  <2> HIDE DEF G
  <2> QED
    BY <1>4
<1>6. CountWords(words) = f[1..len]
  BY <1>1, Zenon DEF CountWords, FoldLeft, MapThenFoldSet
<1> HIDE DEF f
<1>7. f[{}] = base
  <2>1. G(f)[{}] = base
    BY <1>1
  <2> QED
    BY <1>5, <2>1
<1>8. ASSUME NEW k \in 1..len, f[1..(k - 1)] \in CountMaps(K)
      PROVE  f[1..k] = F[k][f[1..(k - 1)]]
  <2>1. Max(1..k) = k /\ (1..k) \ {k} = 1..(k - 1) /\ 1..k # {} /\ 1..k \in SUBSET (1..len)
    BY <1>1, LastOfPrefix
  <2>2. G(f)[1..k] = F[k][f[1..(k - 1)]]
    BY <1>1, <1>8, <2>1
  <2> QED
    BY <1>5, <2>2
<1>9. PICK h \in [0..len -> CountMaps(K)] : Follows(len, base, F, f, h)
  <2>1. Steps(len, CountMaps(K), base, F, f)
    BY <1>7, <1>8 DEF Steps
  <2> HIDE DEF F, len, base
  <2> QED
    BY <1>1, <1>2, <2>1, FoldHistory, Zenon
<1>10. \A k \in 1..len : h[k] = CountWord(h[k - 1], words[k])
  <2>1. \A k \in 1..len : h[k - 1] \in CountMaps(K)
    BY <1>1, <1>9
  <2> QED
    BY <1>9, <2>1 DEF F, Follows
<1> QED
  BY <1>6, <1>9, <1>10 DEF Follows, WordsSoFar

\* The same, of the form with the asterisk.
AsteriskSoFar(words, h) ==
  /\ h[0] = NoCounts /\ h[Len(words)] = CountWordsWithAsterisk(words)
  /\ \A k \in 1..Len(words) : h[k] = CountWordWithAsterisk(h[k - 1], words[k])

\* And so has countWordsWithAsterisk.
LEMMA AsteriskHistory ==
  ASSUME NEW K, NEW S, NEW words \in Seq(S), NoCounts \in CountMaps(K),
         \A r \in CountMaps(K) : \A k \in 1..Len(words) : CountWordWithAsterisk(r, words[k]) \in CountMaps(K)
  PROVE  \E h \in [0..Len(words) -> CountMaps(K)] : AsteriskSoFar(words, h)
<1> DEFINE len == Len(words)
           F == [k \in 1..len |-> [r \in CountMaps(K) |-> CountWordWithAsterisk(r, words[k])]]
           G(f) == [s \in SUBSET DOMAIN words |->
                      IF s = {} THEN NoCounts
                      ELSE CountWordWithAsterisk(f[s \ {Max(s)}], words[Max(s)])]
           f == CHOOSE x : x = G(x)
           base == NoCounts
<1>1. len \in Nat /\ DOMAIN words = 1..len /\ base \in CountMaps(K)
  OBVIOUS
<1>2. F \in [1..len -> [CountMaps(K) -> CountMaps(K)]]
  OBVIOUS
<1>3. PICK g \in [SUBSET (1..len) -> CountMaps(K)] : Runs(len, base, F, g)
  <2> HIDE DEF F, len, base
  <2> QED
    BY <1>1, <1>2, FoldRuns, Zenon
<1>4. g = G(g)
  <2>1. ASSUME NEW s \in SUBSET (1..len) PROVE g[s] = G(g)[s]
    <3>1. CASE s = {}
      BY <1>1, <1>3, <3>1 DEF Runs
    <3>2. CASE s # {}
      <4>1. Max(s) \in 1..len /\ g[s \ {Max(s)}] \in CountMaps(K)
        BY <1>1, <1>3, <3>2, GreatestIsMax
      <4>2. g[s] = F[Max(s)][g[s \ {Max(s)}]]
        BY <1>3, <3>2 DEF Runs
      <4> QED
        BY <1>1, <3>2, <4>1, <4>2
    <3> QED
      BY <3>1, <3>2
  <2>2. G(g) = [s \in SUBSET (1..len) |-> G(g)[s]] /\ g = [s \in SUBSET (1..len) |-> g[s]]
    BY <1>1
  <2> HIDE DEF G
  <2> QED
    BY <2>1, <2>2
<1>5. f = G(f)
  <2> HIDE DEF G
  <2> QED
    BY <1>4
<1>6. CountWordsWithAsterisk(words) = f[1..len]
  BY <1>1, Zenon DEF CountWordsWithAsterisk, FoldLeft, MapThenFoldSet
<1> HIDE DEF f
<1>7. f[{}] = base
  <2>1. G(f)[{}] = base
    BY <1>1
  <2> QED
    BY <1>5, <2>1
<1>8. ASSUME NEW k \in 1..len, f[1..(k - 1)] \in CountMaps(K)
      PROVE  f[1..k] = F[k][f[1..(k - 1)]]
  <2>1. Max(1..k) = k /\ (1..k) \ {k} = 1..(k - 1) /\ 1..k # {} /\ 1..k \in SUBSET (1..len)
    BY <1>1, LastOfPrefix
  <2>2. G(f)[1..k] = F[k][f[1..(k - 1)]]
    BY <1>1, <1>8, <2>1
  <2> QED
    BY <1>5, <2>2
<1>9. PICK h \in [0..len -> CountMaps(K)] : Follows(len, base, F, f, h)
  <2>1. Steps(len, CountMaps(K), base, F, f)
    BY <1>7, <1>8 DEF Steps
  <2> HIDE DEF F, len, base
  <2> QED
    BY <1>1, <1>2, <2>1, FoldHistory, Zenon
<1>10. \A k \in 1..len : h[k] = CountWordWithAsterisk(h[k - 1], words[k])
  <2>1. \A k \in 1..len : h[k - 1] \in CountMaps(K)
    BY <1>1, <1>9
  <2> QED
    BY <1>9, <2>1 DEF F, Follows
<1> QED
  BY <1>6, <1>9, <1>10 DEF Follows, AsteriskSoFar

\* Both loops count the words they take, each as often as it occurs.
LEMMA CountWordsIs ==
  ASSUME NEW W, NEW words \in Seq(W)
  PROVE  CountWords(words) = Tally({i \in DOMAIN words : words[i] # NoWord}, words, Len(words))
<1> DEFINE places == {i \in DOMAIN words : words[i] # NoWord}
           len == Len(words)
           K == W
<1>1. len \in Nat /\ DOMAIN words = 1..len /\ \A k \in 1..len : words[k] \in K
  OBVIOUS
<1>2. NoCounts \in CountMaps(K) /\ NoCounts = Tally(places, words, 0)
  BY NoCountsTyped
<1>3. \A r \in CountMaps(K) : \A k \in 1..Len(words) : CountWord(r, words[k]) \in CountMaps(K)
  BY <1>1, IncrementTyped DEF CountWord
<1>4. PICK h \in [0..len -> CountMaps(K)] : WordsSoFar(words, h)
  BY <1>2, <1>3, WordsHistory
<1>5. /\ h[0] = NoCounts /\ h[len] = CountWords(words)
      /\ \A k \in 1..len : h[k] = CountWord(h[k - 1], words[k])
  BY <1>4 DEF WordsSoFar
<1>6. \A k \in 1..len : k \in places <=> words[k] # NoWord
  BY <1>1
<1> HIDE DEF places, len
<1> DEFINE T == {k \in 0..len : h[k] = Tally(places, words, k)}
<1>7. 0 \in T
  BY <1>1, <1>2, <1>5
<1>8. ASSUME NEW k \in 1..len, k - 1 \in T PROVE k \in T
  <2>1. k \in 0..len /\ k \in Nat \ {0} /\ h[k - 1] = Tally(places, words, k - 1)
    BY <1>1, <1>8
  <2>2. CASE words[k] = NoWord
    BY <1>5, <1>6, <2>1, <2>2, TallySame DEF CountWord
  <2>3. CASE words[k] # NoWord
    BY <1>5, <1>6, <2>1, <2>3, TallyMore DEF CountWord
  <2> QED
    BY <2>2, <2>3
<1> HIDE DEF T
<1>9. len \in T
  <2>1. \A k \in 0..len : k \in T
    BY <1>1, <1>7, <1>8, UpTo
  <2> QED
    BY <1>1, <2>1
<1> QED
  BY <1>5, <1>9 DEF T, len, places

\* The same for the words in lower case.
LEMMA CountWordsWithAsteriskIs ==
  ASSUME NEW W, NEW words \in Seq(W)
  PROVE  LET places == {i \in DOMAIN words : words[i] \notin {NoWord, Dash}} IN
         CountWordsWithAsterisk(words) =
           Tally(places, [i \in places |-> LowerCase[words[i]]], Len(words))
<1> DEFINE places == {i \in DOMAIN words : words[i] \notin {NoWord, Dash}}
           key == [i \in places |-> LowerCase[words[i]]]
           len == Len(words)
           K == {LowerCase[w] : w \in W}
<1>1. len \in Nat /\ DOMAIN words = 1..len /\ \A k \in 1..len : LowerCase[words[k]] \in K
  OBVIOUS
<1>2. NoCounts \in CountMaps(K) /\ NoCounts = Tally(places, key, 0)
  BY NoCountsTyped
<1>3. \A r \in CountMaps(K) : \A k \in 1..Len(words) :
         CountWordWithAsterisk(r, words[k]) \in CountMaps(K)
  <2> HIDE DEF K
  <2> QED
    BY <1>1, IncrementTyped DEF CountWordWithAsterisk
<1> HIDE DEF K
<1>4. PICK h \in [0..len -> CountMaps(K)] : AsteriskSoFar(words, h)
  BY <1>2, <1>3, AsteriskHistory
<1>5. /\ h[0] = NoCounts /\ h[len] = CountWordsWithAsterisk(words)
      /\ \A k \in 1..len : h[k] = CountWordWithAsterisk(h[k - 1], words[k])
  BY <1>4 DEF AsteriskSoFar
<1>6. \A k \in 1..len : /\ k \in places <=> words[k] \notin {NoWord, Dash}
                        /\ k \in places => key[k] = LowerCase[words[k]]
  BY <1>1
<1> HIDE DEF places, len, key
<1> DEFINE T == {k \in 0..len : h[k] = Tally(places, key, k)}
<1>7. 0 \in T
  BY <1>1, <1>2, <1>5
<1>8. ASSUME NEW k \in 1..len, k - 1 \in T PROVE k \in T
  <2>1. k \in 0..len /\ k \in Nat \ {0} /\ h[k - 1] = Tally(places, key, k - 1)
    BY <1>1, <1>8
  <2>2. CASE words[k] \in {NoWord, Dash}
    BY <1>5, <1>6, <2>1, <2>2, TallySame DEF CountWordWithAsterisk
  <2>3. CASE words[k] \notin {NoWord, Dash}
    BY <1>5, <1>6, <2>1, <2>3, TallyMore DEF CountWordWithAsterisk
  <2> QED
    BY <2>2, <2>3
<1> HIDE DEF T
<1>9. len \in T
  <2>1. \A k \in 0..len : k \in T
    BY <1>1, <1>7, <1>8, UpTo
  <2> QED
    BY <1>1, <2>1
<1> QED
  BY <1>5, <1>9 DEF T, len, places, key

\* The order of the words of a map, and those ahead of one.
AheadOf(counts, w) == {v \in DOMAIN counts : Ranks(counts, v, w)}

InRanks(counts, wc) == \A i, j \in DOMAIN wc : i < j => Ranks(counts, wc[i], wc[j])

\* The order of the sort is strict and total.
LEMMA RanksOrder ==
  ASSUME NEW D, D \subseteq Int, NEW counts \in [D -> Nat]
  PROVE  /\ \A v \in D : ~Ranks(counts, v, v)
         /\ \A v, w \in D : v # w => Ranks(counts, v, w) \/ Ranks(counts, w, v)
         /\ \A u, v, w \in D : Ranks(counts, u, v) /\ Ranks(counts, v, w) => Ranks(counts, u, w)
BY DEF Ranks

\* There is a list of the words in their order: each behind those that rank before it.
LEMMA SortedExists ==
  ASSUME NEW D, D \subseteq Int, IsFiniteSet(D), NEW counts \in [D -> Nat]
  PROVE  \E wc \in [1..Cardinality(D) -> D] : InRanks(counts, wc)
<1> DEFINE size == Cardinality(D)
           place == [w \in D |-> Cardinality(AheadOf(counts, w)) + 1]
<1>0. /\ DOMAIN counts = D /\ \A v \in D : ~Ranks(counts, v, v)
      /\ \A v, w \in D : v # w => Ranks(counts, v, w) \/ Ranks(counts, w, v)
      /\ \A u, v, w \in D : Ranks(counts, u, v) /\ Ranks(counts, v, w) => Ranks(counts, u, w)
  BY RanksOrder
<1>1. size \in Nat
  BY FS_CardinalityType
<1>2. ASSUME NEW w \in D
      PROVE  /\ IsFiniteSet(AheadOf(counts, w)) /\ Cardinality(AheadOf(counts, w)) \in Nat
             /\ Cardinality(AheadOf(counts, w)) + 1 <= size
  <2>1. AheadOf(counts, w) \in SUBSET (D \ {w})
    BY <1>0 DEF AheadOf
  <2>2. IsFiniteSet(D \ {w}) /\ Cardinality(D \ {w}) = size - 1
    BY FS_RemoveElement
  <2>3. /\ IsFiniteSet(AheadOf(counts, w))
        /\ Cardinality(AheadOf(counts, w)) <= Cardinality(D \ {w})
    BY <2>1, <2>2, FS_Subset
  <2>4. Cardinality(AheadOf(counts, w)) \in Nat
    BY <2>3, FS_CardinalityType
  <2> QED
    BY <1>1, <2>2, <2>3, <2>4
<1>3. ASSUME NEW v \in D, NEW w \in D, Ranks(counts, v, w) PROVE place[v] < place[w]
  <2>1. AheadOf(counts, v) \in SUBSET AheadOf(counts, w)
    BY <1>3, <1>0 DEF AheadOf
  <2>2. v \in AheadOf(counts, w) /\ v \notin AheadOf(counts, v)
    BY <1>3, <1>0 DEF AheadOf
  <2>3. /\ Cardinality(AheadOf(counts, v)) <= Cardinality(AheadOf(counts, w))
        /\ Cardinality(AheadOf(counts, v)) # Cardinality(AheadOf(counts, w))
    BY <1>2, <2>1, <2>2, FS_Subset
  <2> QED
    BY <1>2, <2>3
<1>4. place \in [D -> 1..size]
  BY <1>1, <1>2
<1> HIDE DEF place, size
<1>5. \A v, w \in D : place[v] = place[w] => v = w
  <2>1. \A v \in D : place[v] \in Int
    BY <1>1, <1>4
  <2> QED
    BY <1>0, <1>3, <2>1
<1>6. place \in Surjection(D, 1..size)
  <2>1. place \in Injection(D, 1..size)
    BY <1>4, <1>5 DEF Injection, IsInjective
  <2>2. IsFiniteSet(1..size) /\ Cardinality(1..size) = size
    BY <1>1, FS_Interval
  <2> QED
    BY <2>1, <2>2, FS_Injection DEF size
<1> DEFINE wc == [i \in 1..size |-> CHOOSE w \in D : place[w] = i]
<1>7. \A i \in 1..size : wc[i] \in D /\ place[wc[i]] = i
  BY <1>6 DEF Surjection
<1> HIDE DEF wc
<1>8. wc \in [1..size -> D]
  BY <1>7 DEF wc
<1>9. ASSUME NEW i \in 1..size, NEW j \in 1..size, i < j PROVE Ranks(counts, wc[i], wc[j])
  <2>1. wc[i] # wc[j] /\ ~(place[wc[j]] < place[wc[i]])
    BY <1>1, <1>7, <1>9
  <2> QED
    BY <1>3, <1>7, <2>1, <1>0
<1>10. InRanks(counts, wc)
  BY <1>8, <1>9 DEF InRanks
<1> QED
  BY <1>8, <1>10 DEF size

\* In such a list exactly the words before a word rank before it.
LEMMA PlaceInOrder ==
  ASSUME NEW D, D \subseteq Int, IsFiniteSet(D), NEW counts \in [D -> Nat],
         NEW wc \in [1..Cardinality(D) -> D], InRanks(counts, wc),
         NEW i \in 1..Cardinality(D)
  PROVE  Cardinality(AheadOf(counts, wc[i])) = i - 1
<1> DEFINE size == Cardinality(D)
           first == [j \in 1..(i - 1) |-> wc[j]]
<1>0. /\ DOMAIN counts = D /\ \A v \in D : ~Ranks(counts, v, v)
      /\ \A v, w \in D : v # w => Ranks(counts, v, w) \/ Ranks(counts, w, v)
      /\ \A u, v, w \in D : Ranks(counts, u, v) /\ Ranks(counts, v, w) => Ranks(counts, u, w)
  BY RanksOrder
<1>1. size \in Nat
  BY FS_CardinalityType
<1> HIDE DEF size
<1>2. wc \in [1..size -> D] /\ i \in 1..size
  BY DEF size
<1>3. ASSUME NEW j \in 1..size, NEW k \in 1..size, j < k
      PROVE  Ranks(counts, wc[j], wc[k]) /\ ~Ranks(counts, wc[k], wc[j]) /\ wc[j] # wc[k]
  <2>1. Ranks(counts, wc[j], wc[k])
    BY <1>2, <1>3 DEF InRanks
  <2>2. wc[j] \in D /\ wc[k] \in D
    BY <1>2
  <2> QED
    BY <2>1, <2>2, <1>0
<1>4. \A j, k \in 1..size : wc[j] = wc[k] => j = k
  BY <1>1, <1>3
<1>5. wc \in Surjection(1..size, D)
  <2>1. wc \in Injection(1..size, D)
    BY <1>2, <1>4 DEF Injection, IsInjective
  <2>2. IsFiniteSet(1..size) /\ Cardinality(1..size) = Cardinality(D)
    BY <1>1, FS_Interval DEF size
  <2> QED
    BY <2>1, <2>2, FS_Injection
<1>6. AheadOf(counts, wc[i]) = {wc[j] : j \in 1..(i - 1)}
  <2>1. ASSUME NEW v \in AheadOf(counts, wc[i]) PROVE v \in {wc[j] : j \in 1..(i - 1)}
    <3>1. v \in D /\ Ranks(counts, v, wc[i])
      BY DEF AheadOf
    <3>2. PICK j \in 1..size : wc[j] = v
      BY <1>5, <3>1 DEF Surjection
    <3>3. ~(i < j) /\ i # j
      BY <1>2, <1>3, <3>1, <3>2, <1>0
    <3>4. j \in 1..(i - 1)
      BY <1>1, <1>2, <3>3
    <3> QED
      BY <3>2, <3>4
  <2>2. ASSUME NEW j \in 1..(i - 1) PROVE wc[j] \in AheadOf(counts, wc[i])
    <3>1. j \in 1..size /\ j < i
      BY <1>1, <1>2
    <3> QED
      BY <1>2, <1>3, <3>1 DEF AheadOf
  <2> QED
    BY <2>1, <2>2
<1>7. first \in Bijection(1..(i - 1), {wc[j] : j \in 1..(i - 1)})
  <2>1. \A j, k \in 1..(i - 1) : first[j] = first[k] => j = k
    <3>1. \A j \in 1..(i - 1) : j \in 1..size
      BY <1>1, <1>2
    <3> QED
      BY <1>4, <3>1
  <2> QED
    BY <2>1 DEF Bijection, Injection, Surjection, IsInjective
<1> HIDE DEF first
<1>8. i - 1 \in Int /\ i - 1 >= 0
  BY <1>1, <1>2
<1>9. IsFiniteSet(1..(i - 1)) /\ Cardinality(1..(i - 1)) = i - 1
  BY <1>8, FS_Interval
<1>10. ExistsBijection(1..(i - 1), AheadOf(counts, wc[i]))
  BY <1>6, <1>7 DEF ExistsBijection
<1> QED
  BY <1>9, <1>10, FS_Bijection

\* The answer is a list of the first words of the map, each behind as many as rank before
\* it.
LEMMA Top10Is ==
  ASSUME NEW D, D \subseteq Int, IsFiniteSet(D), NEW counts \in [D -> Nat]
  PROVE  LET top == Top10FromCountsMap(counts) IN
         /\ Len(top) = IF Cardinality(D) < MaxCount THEN Cardinality(D) ELSE MaxCount
         /\ \A i \in DOMAIN top :
              top[i] \in D /\ Cardinality(AheadOf(counts, top[i])) = i - 1
<1> DEFINE size == Cardinality(D)
           wc == Sorted(counts)
           shown == IF size < MaxCount THEN size ELSE MaxCount
           top == Top10FromCountsMap(counts)
<1>1. size \in Nat /\ MaxCount \in Nat
  BY FS_CardinalityType, MaxCountAssumption
<1>2. wc \in [1..size -> D] /\ InRanks(counts, wc)
  <2>1. \E x \in [1..size -> D] : InRanks(counts, x)
    BY SortedExists
  <2>2. wc = CHOOSE x \in [1..size -> D] : InRanks(counts, x)
    BY DEF Sorted, InRanks
  <2> HIDE DEF wc, size
  <2> QED
    BY <2>1, <2>2
<1>3. Len(wc) = size
  BY <1>1, <1>2
<1>4. top = SubSeq(wc, 1, shown)
  BY <1>3 DEF Top10FromCountsMap
<1> HIDE DEF wc, size, top
<1>5. shown \in Nat /\ shown <= size
  BY <1>1
<1> HIDE DEF shown
<1>6. /\ Len(top) = shown /\ DOMAIN top = 1..shown
      /\ \A i \in 1..shown : top[i] = wc[i] /\ i \in 1..size
  BY <1>1, <1>2, <1>4, <1>5
<1>7. ASSUME NEW i \in DOMAIN top
      PROVE  top[i] \in D /\ Cardinality(AheadOf(counts, top[i])) = i - 1
  <2>1. i \in 1..size /\ top[i] = wc[i]
    BY <1>6
  <2>2. Cardinality(AheadOf(counts, wc[i])) = i - 1
    BY <1>2, <2>1, PlaceInOrder DEF size
  <2> QED
    BY <1>2, <2>1, <2>2
<1> QED
  BY <1>6, <1>7 DEF size, top, shown

\* A text whose words are numbers, in the order of bytes, and whose count is right.
LEMMA TopOfTally ==
  ASSUME NEW len \in Nat, NEW text, DOMAIN text \subseteq 1..len,
         \A i \in DOMAIN text : text[i] = NoWord \/ text[i] \in Int
  PROVE  LET places == {i \in DOMAIN text : text[i] # NoWord} IN
         TopIsRight(Top10FromCountsMap(Tally(places, text, len)), text)
<1> DEFINE places == {i \in DOMAIN text : text[i] # NoWord}
           D == KeysUpTo(places, text, len)
           counts == Tally(places, text, len)
           top == Top10FromCountsMap(counts)
<1>1. places \cap (1..len) = places
  OBVIOUS
<1>2. D = Range(text) \ {NoWord}
  BY <1>1 DEF KeysUpTo, Range
<1>3. D \subseteq Int /\ IsFiniteSet(D)
  <2>1. IsFiniteSet(D)
    BY PlacesFinite
  <2>2. D \subseteq Int
    BY <1>1 DEF KeysUpTo
  <2> QED
    BY <2>1, <2>2
<1>4. \A w \in D : counts[w] = Occurrences(text, w) /\ counts[w] \in Nat
  <2> SUFFICES ASSUME NEW w \in D
               PROVE  counts[w] = Occurrences(text, w) /\ counts[w] \in Nat
    OBVIOUS
  <2>1. counts[w] = Cardinality(PlacesOf(places, text, len, w))
    BY DEF Tally
  <2>2. PlacesOf(places, text, len, w) = {i \in DOMAIN text : text[i] = w}
    BY <1>1, <1>2 DEF PlacesOf
  <2>3. Cardinality(PlacesOf(places, text, len, w)) \in Nat
    BY PlacesFinite, FS_CardinalityType
  <2> QED
    BY <2>1, <2>2, <2>3 DEF Occurrences
<1>5. counts \in [D -> Nat]
  <2>1. counts = [w \in D |-> counts[w]]
    BY DEF Tally
  <2> HIDE DEF counts, D
  <2> QED
    BY <1>4, <2>1
<1> HIDE DEF D, counts, top
<1>6. /\ Len(top) = IF Cardinality(D) < MaxCount THEN Cardinality(D) ELSE MaxCount
      /\ \A i \in DOMAIN top : top[i] \in D /\ Cardinality(AheadOf(counts, top[i])) = i - 1
  BY <1>3, <1>5, Top10Is DEF top
<1>7. ASSUME NEW w \in D
      PROVE  AheadOf(counts, w) =
               {v \in D : \/ Occurrences(text, v) > Occurrences(text, w)
                          \/ (Occurrences(text, v) = Occurrences(text, w) /\ v < w)}
  <2>1. DOMAIN counts = D /\ \A v \in D : counts[v] \in Nat /\ counts[v] = Occurrences(text, v)
    BY <1>4, <1>5
  <2> QED
    BY <2>1 DEF AheadOf, Ranks
<1>8. TopIsRight(top, text)
  BY <1>2, <1>6, <1>7 DEF TopIsRight
<1> QED
  BY <1>8 DEF top, counts

\* A text of words: the empty one, or numbers, of which those that the form with the
\* asterisk takes have a lower case.
IsText(words) ==
  /\ \E W : words \in Seq(W)
  /\ \A i \in DOMAIN words :
       /\ words[i] = NoWord \/ words[i] \in Int
       /\ words[i] \notin {NoWord, Dash} =>
            words[i] \in DOMAIN LowerCase /\ LowerCase[words[i]] \in Int

\* Both forms of the task are right for a text of any number of words and any limit.
THEOREM WordsAlwaysCounted ==
  ASSUME NEW words, IsText(words)
  PROVE  WordsCounted(words)
<1> DEFINE plain == {i \in DOMAIN words : words[i] \notin {NoWord, Dash}}
           text == [i \in plain |-> LowerCase[words[i]]]
           len == Len(words)
<1>1. PICK W : words \in Seq(W)
  BY DEF IsText
<1>2. len \in Nat /\ DOMAIN words = 1..len
  BY <1>1
<1>3. TopIsRight(Top10(words), words)
  <2>1. Top10(words) =
          Top10FromCountsMap(Tally({i \in DOMAIN words : words[i] # NoWord}, words, len))
    BY <1>1, CountWordsIs DEF Top10
  <2>2. DOMAIN words \subseteq 1..len /\ \A i \in DOMAIN words : words[i] = NoWord \/ words[i] \in Int
    BY <1>2 DEF IsText
  <2> HIDE DEF len
  <2> QED
    BY <1>2, <2>1, <2>2, TopOfTally
<1>4. TopIsRight(Top10WithAsterisk(words), text)
  <2>1. Top10WithAsterisk(words) = Top10FromCountsMap(Tally(plain, text, len))
    BY <1>1, CountWordsWithAsteriskIs DEF Top10WithAsterisk
  <2>2. \A i \in plain : text[i] # NoWord /\ text[i] \in Int
    BY LowerCaseAssumption DEF IsText
  <2>3. DOMAIN text = plain /\ plain \subseteq 1..len
    BY <1>2
  <2> HIDE DEF len, plain, text
  <2>4. plain = {i \in DOMAIN text : text[i] # NoWord}
    BY <2>2, <2>3
  <2> QED
    BY <1>2, <2>1, <2>2, <2>3, <2>4, TopOfTally
<1> QED
  BY <1>3, <1>4 DEF WordsCounted

\* The address ends with a dot and the domain, whose first character is at this place.
EndsWith(email, domain) ==
  LET start == Len(email) - Len(domain) IN
  /\ start >= 1 /\ email[start] = Dot
  /\ \A j \in 1..Len(domain) : email[start + j] = domain[j]

\* That is what a suffix of the address is.
LEMMA SuffixIs ==
  ASSUME NEW C, NEW email \in Seq(C), NEW domain \in Seq(C), Dot \in C
  PROVE  IsSuffix(<<Dot>> \o domain, email) <=> EndsWith(email, domain)
<1> DEFINE len == Len(email)
           m == Len(domain)
           p == <<Dot>> \o domain
           rp == Reverse(p)
           re == Reverse(email)
<1>1. len \in Nat /\ m \in Nat
  OBVIOUS
<1>2. /\ p \in Seq(C) /\ Len(p) = m + 1 /\ p[1] = Dot
      /\ \A j \in 1..m : p[j + 1] = domain[j]
  OBVIOUS
<1> HIDE DEF p
<1>3. /\ rp \in Seq(C) /\ Len(rp) = m + 1
      /\ \A i \in 1..(m + 1) : rp[i] = p[m + 2 - i]
  <2>1. rp = [i \in 1..(m + 1) |-> p[((m + 1) - i) + 1]]
    BY <1>2 DEF Reverse
  <2>2. \A i \in 1..(m + 1) : ((m + 1) - i) + 1 \in 1..(m + 1) /\ ((m + 1) - i) + 1 = m + 2 - i
    BY <1>1
  <2>3. \A i \in 1..(m + 1) : p[i] \in C
    BY <1>2
  <2> HIDE DEF rp, m
  <2>4. \A i \in 1..(m + 1) : p[((m + 1) - i) + 1] \in C
    BY <2>2, <2>3
  <2> QED
    BY <1>1, <2>1, <2>2, <2>4
<1>4. /\ re \in Seq(C) /\ Len(re) = len
      /\ \A i \in 1..len : re[i] = email[len + 1 - i]
  <2>1. re = [i \in 1..len |-> email[(len - i) + 1]]
    BY DEF Reverse
  <2>2. \A i \in 1..len : (len - i) + 1 \in 1..len /\ (len - i) + 1 = len + 1 - i
    BY <1>1
  <2>3. \A i \in 1..len : email[i] \in C
    OBVIOUS
  <2> HIDE DEF re, len
  <2>4. \A i \in 1..len : email[(len - i) + 1] \in C
    BY <2>2, <2>3
  <2> QED
    BY <1>1, <2>1, <2>2, <2>4
<1> HIDE DEF rp, re, len, m
<1>5. IsSuffix(p, email) <=> m + 1 <= len /\ \A i \in 1..(m + 1) : rp[i] = re[i]
  <2>1. IsSuffix(p, email) <=> m + 1 <= len /\ SubSeq(rp, 1, m + 1) = SubSeq(re, 1, m + 1)
    BY <1>3, <1>4 DEF IsSuffix, IsPrefix, rp, re
  <2>2. ASSUME m + 1 <= len
        PROVE  (SubSeq(rp, 1, m + 1) = SubSeq(re, 1, m + 1))
                 <=> \A i \in 1..(m + 1) : rp[i] = re[i]
    <3>1. SubSeq(rp, 1, m + 1) = [i \in 1..(m + 1) |-> rp[i]]
      BY <1>1, <1>3
    <3>2. SubSeq(re, 1, m + 1) = [i \in 1..(m + 1) |-> re[i]]
      BY <1>1, <1>4, <2>2
    <3> QED
      BY <3>1, <3>2
  <2> QED
    BY <2>1, <2>2
<1>6. ASSUME m + 1 <= len
      PROVE  (\A i \in 1..(m + 1) : rp[i] = re[i]) <=> EndsWith(email, domain)
  <2>1. ASSUME \A i \in 1..(m + 1) : rp[i] = re[i] PROVE EndsWith(email, domain)
    <3>1. len - m >= 1
      BY <1>1, <1>6
    <3>2. email[len - m] = Dot
      <4>1. m + 1 \in 1..(m + 1) /\ m + 1 \in 1..len /\ m + 2 - (m + 1) = 1 /\ len + 1 - (m + 1) = len - m
        BY <1>1, <1>6
      <4>2. rp[m + 1] = p[m + 2 - (m + 1)] /\ re[m + 1] = email[len + 1 - (m + 1)]
        BY <1>3, <1>4, <4>1, Zenon
      <4>3. rp[m + 1] = re[m + 1]
        BY <2>1, <4>1, Zenon
      <4> QED
        BY <1>2, <4>1, <4>2, <4>3, Zenon
    <3>3. ASSUME NEW j \in 1..m PROVE email[(len - m) + j] = domain[j]
      <4> DEFINE i == m + 1 - j
      <4>1. /\ i \in 1..(m + 1) /\ i \in 1..len
            /\ m + 2 - i = j + 1 /\ len + 1 - i = (len - m) + j
        BY <1>1, <1>6
      <4> HIDE DEF i
      <4>2. rp[i] = p[j + 1] /\ re[i] = email[(len - m) + j]
        BY <1>3, <1>4, <4>1
      <4>3. rp[i] = re[i]
        BY <2>1, <4>1
      <4> QED
        BY <1>2, <4>2, <4>3
    <3> QED
      BY <3>1, <3>2, <3>3 DEF EndsWith, len, m
  <2>2. ASSUME EndsWith(email, domain), NEW i \in 1..(m + 1) PROVE rp[i] = re[i]
    <3>1. /\ email[len - m] = Dot
          /\ \A j \in 1..m : email[(len - m) + j] = domain[j]
      BY <2>2 DEF EndsWith, len, m
    <3>2. i \in 1..len
      BY <1>1, <1>6
    <3>3. rp[i] = p[m + 2 - i] /\ re[i] = email[len + 1 - i]
      BY <1>3, <1>4, <3>2
    <3>4. CASE i = m + 1
      <4>1. m + 2 - i = 1 /\ len + 1 - i = len - m
        BY <1>1, <3>4
      <4> QED
        BY <1>2, <3>1, <3>3, <4>1
    <3>5. CASE i # m + 1
      <4> DEFINE j == m + 1 - i
      <4>1. j \in 1..m /\ m + 2 - i = j + 1 /\ len + 1 - i = (len - m) + j
        BY <1>1, <3>5
      <4> HIDE DEF j
      <4> QED
        BY <1>2, <3>1, <3>3, <4>1
    <3> QED
      BY <3>4, <3>5
  <2> QED
    BY <2>1, <2>2
<1>7. EndsWith(email, domain) => m + 1 <= len
  BY <1>1 DEF EndsWith, len, m
<1> QED
  BY <1>5, <1>6, <1>7 DEF p

\* The domain that extractDomain looks at is what follows the first "@", and its last part
\* what follows the last dot.
LEMMA ExtractsIs ==
  ASSUME NEW C, NEW email \in Seq(C), NEW domain \in Seq(C), Dot \notin Range(domain)
  PROVE  Extracts(email, domain) <=>
           /\ EndsWith(email, domain)
           /\ At \in Range(SubSeq(email, 1, Len(email) - Len(domain) - 1))
<1> DEFINE len == Len(email)
           m == Len(domain)
           Ats == {i \in DOMAIN email : email[i] = At}
           a == Min(Ats)
           full == FullDomain(email)
           dots == Dots(full)
           q == Max(dots)
<1>1. /\ len \in Nat /\ m \in Nat /\ DOMAIN email = 1..len /\ DOMAIN domain = 1..m
      /\ \A i \in 1..len : email[i] \in C
  OBVIOUS
<1>2. At \in Range(email) <=> Ats # {}
  BY DEF Range
<1>3. ASSUME Ats # {} PROVE a \in 1..len /\ email[a] = At /\ \A i \in Ats : a <= i
  <2>1. Ats \subseteq Nat
    BY <1>1
  <2>2. Min(Ats) \in Ats /\ \A i \in Ats : Min(Ats) <= i
    BY <1>3, <2>1, LeastIsMin
  <2> QED
    BY <1>1, <2>2
<1>4. full = SubSeq(email, 1 + a, len)
  BY DEF FullDomain
<1> HIDE DEF len, m, a, full, dots, q
<1>5. ASSUME Ats # {}
      PROVE  /\ Len(full) = len - a /\ full \in Seq(C)
             /\ \A i \in 1..(len - a) : full[i] = email[a + i] /\ a + i \in 1..len
             /\ dots = {i \in 1..(len - a) : email[a + i] = Dot}
  <2>1. a \in 1..len
    BY <1>3, <1>5
  <2>2. /\ Len(full) = len - a /\ full \in Seq(C)
        /\ \A i \in 1..(len - a) : full[i] = email[a + i] /\ a + i \in 1..len
    <3>1. full = [i \in 1..(len - a) |-> email[a + i]]
      BY <1>1, <1>4, <2>1
    <3>2. \A i \in 1..(len - a) : a + i \in 1..len /\ email[a + i] \in C
      BY <1>1, <2>1
    <3>3. len - a \in Nat
      BY <1>1, <2>1
    <3>4. full \in [1..(len - a) -> C]
      BY <3>1, <3>2
    <3>5. Len(full) = len - a /\ full \in Seq(C)
      BY <3>3, <3>4
    <3>6. \A i \in 1..(len - a) : full[i] = email[a + i]
      BY <3>1
    <3> QED
      BY <3>2, <3>5, <3>6
  <2>3. DOMAIN full = 1..(len - a)
    BY <2>2
  <2> QED
    BY <2>2, <2>3 DEF dots, Dots
<1>6. ASSUME Ats # {}, dots # {}
      PROVE  /\ q \in 1..(len - a) /\ email[a + q] = Dot /\ \A i \in dots : i <= q
             /\ (LastPart(full) = domain) <=>
                  (m = len - a - q /\ \A j \in 1..m : email[a + q + j] = domain[j])
  <2>1. a \in 1..len
    BY <1>3, <1>6
  <2>2. len - a \in Nat /\ dots \subseteq 1..(len - a)
    BY <1>1, <1>5, <1>6, <2>1
  <2>3. q \in dots /\ \A i \in dots : i <= q
    BY <1>6, <2>2, GreatestIsMax DEF q
  <2>4. q \in 1..(len - a) /\ email[a + q] = Dot
    BY <1>5, <1>6, <2>3
  <2> DEFINE rest == len - a - q
  <2>5. rest \in Nat
    BY <2>2, <2>4
  <2>6. LastPart(full) = [j \in 1..rest |-> email[a + q + j]]
    <3>1. LastPart(full) = SubSeq(full, 1 + q, len - a)
      BY <1>5, <1>6 DEF LastPart, q, dots
    <3>2. SubSeq(full, 1 + q, len - a) = [j \in 1..rest |-> full[q + j]]
      BY <1>5, <1>6, <2>2, <2>4
    <3>3. \A j \in 1..rest : full[q + j] = email[a + q + j]
      <4> SUFFICES ASSUME NEW j \in 1..rest PROVE full[q + j] = email[a + q + j]
        OBVIOUS
      <4>1. q + j \in 1..(len - a) /\ a + (q + j) = a + q + j
        BY <2>1, <2>2, <2>4
      <4> QED
        BY <1>5, <1>6, <4>1
    <3> QED
      BY <3>1, <3>2, <3>3
  <2>7. domain = [j \in 1..m |-> domain[j]]
    BY <1>1
  <2> HIDE DEF rest
  <2>8. ASSUME LastPart(full) = domain
        PROVE  m = rest /\ \A j \in 1..m : email[a + q + j] = domain[j]
    <3>1. 1..rest = 1..m
      BY <1>1, <2>6, <2>8
    <3>2. m = rest
      BY <1>1, <2>5, <3>1
    <3> QED
      BY <2>6, <2>8, <3>1, <3>2
  <2>9. ASSUME m = rest, \A j \in 1..m : email[a + q + j] = domain[j]
        PROVE  LastPart(full) = domain
    BY <2>6, <2>7, <2>9
  <2> QED
    BY <2>3, <2>4, <2>8, <2>9 DEF rest
<1>7. ASSUME Extracts(email, domain)
      PROVE  /\ EndsWith(email, domain)
             /\ At \in Range(SubSeq(email, 1, len - m - 1))
  <2>1. Ats # {} /\ dots # {} /\ LastPart(full) = domain
    BY <1>2, <1>7 DEF Extracts, dots, full
  <2>2. /\ a \in 1..len /\ email[a] = At /\ q \in 1..(len - a) /\ email[a + q] = Dot
        /\ m = len - a - q /\ \A j \in 1..m : email[a + q + j] = domain[j]
    BY <1>3, <1>6, <2>1
  <2>3. len - m = a + q /\ len - m >= 1 /\ a \in 1..(len - m - 1) /\ len - m - 1 <= len
    <3>1. len \in Int /\ m \in Int /\ a \in Int /\ q \in Int /\ m >= 0
      BY <1>1, <2>2
    <3>2. a >= 1 /\ q >= 1 /\ m = len - a - q
      BY <2>2
    <3>3. len - m = a + q
      BY <3>1, <3>2
    <3>4. len - m - 1 = a + (q - 1)
      BY <3>1, <3>3
    <3> QED
      BY <3>1, <3>2, <3>3, <3>4
  <2>4. EndsWith(email, domain)
    BY <2>2, <2>3 DEF EndsWith, len, m
  <2>5. SubSeq(email, 1, len - m - 1) = [i \in 1..(len - m - 1) |-> email[i]]
    BY <1>1, <2>3
  <2>6. At \in Range(SubSeq(email, 1, len - m - 1))
    BY <2>2, <2>3, <2>5 DEF Range
  <2> QED
    BY <2>4, <2>6
<1>8. ASSUME EndsWith(email, domain), At \in Range(SubSeq(email, 1, len - m - 1))
      PROVE  Extracts(email, domain)
  <2>1. /\ len - m >= 1 /\ email[len - m] = Dot
        /\ \A j \in 1..m : email[(len - m) + j] = domain[j]
    BY <1>8 DEF EndsWith, len, m
  <2>2. SubSeq(email, 1, len - m - 1) = [i \in 1..(len - m - 1) |-> email[i]]
    BY <1>1, <2>1
  <2>3. PICK b \in 1..(len - m - 1) : email[b] = At
    BY <1>8, <2>2 DEF Range
  <2>4. b \in Ats
    BY <1>1, <2>3
  <2>5. a \in 1..len /\ a <= b
    BY <1>3, <2>4
  <2> DEFINE r == len - m - a
  <2>6. r \in 1..(len - a) /\ a + r = len - m
    BY <1>1, <2>3, <2>5
  <2> HIDE DEF r
  <2>7. r \in dots
    BY <1>5, <2>1, <2>4, <2>6
  <2>8. q \in 1..(len - a) /\ email[a + q] = Dot /\ r <= q
    BY <1>6, <2>4, <2>7
  <2>9. q = r
    <3> SUFFICES ASSUME q # r PROVE FALSE
      OBVIOUS
    <3> DEFINE j == q - r
    <3>1. j \in 1..m /\ (len - m) + j = a + q
      BY <1>1, <2>5, <2>6, <2>8
    <3> HIDE DEF j
    <3>2. domain[j] = Dot
      BY <2>1, <2>8, <3>1
    <3> QED
      BY <1>1, <3>1, <3>2 DEF Range
  <2>10. m = len - a - q /\ \A j \in 1..m : email[a + q + j] = domain[j]
    BY <1>1, <2>1, <2>5, <2>6, <2>9
  <2>11. LastPart(full) = domain
    BY <1>6, <2>4, <2>7, <2>10
  <2> QED
    BY <1>2, <2>4, <2>7, <2>11 DEF Extracts, dots, full
<1> QED
  BY <1>7, <1>8 DEF len, m

\* What countDomains has: no error so far, and the map.
Stats(K) == [ok: BOOLEAN, counts: CountMaps(K)]

\* What the loop over the lines has counted after each of them.
LinesSoFar(lines, domain, h) ==
  /\ h[0] = [ok |-> TRUE, counts |-> NoCounts] /\ h[Len(lines)] = CountLines(lines, domain)
  /\ \A k \in 1..Len(lines) : h[k] = CountLine(h[k - 1], lines[k], domain)

\* The loop has this history for every list of lines.
LEMMA LinesHistory ==
  ASSUME NEW K, NEW S, NEW lines \in Seq(S), NEW domain,
         [ok |-> TRUE, counts |-> NoCounts] \in Stats(K),
         \A r \in Stats(K) : \A k \in 1..Len(lines) : CountLine(r, lines[k], domain) \in Stats(K)
  PROVE  \E h \in [0..Len(lines) -> Stats(K)] : LinesSoFar(lines, domain, h)
<1> DEFINE len == Len(lines)
           F == [k \in 1..len |-> [r \in Stats(K) |-> CountLine(r, lines[k], domain)]]
           G(f) == [s \in SUBSET DOMAIN lines |->
                      IF s = {} THEN [ok |-> TRUE, counts |-> NoCounts]
                      ELSE CountLine(f[s \ {Max(s)}], lines[Max(s)], domain)]
           f == CHOOSE x : x = G(x)
           base == [ok |-> TRUE, counts |-> NoCounts]
<1>1. len \in Nat /\ DOMAIN lines = 1..len /\ base \in Stats(K)
  OBVIOUS
<1>2. F \in [1..len -> [Stats(K) -> Stats(K)]]
  OBVIOUS
<1>3. PICK g \in [SUBSET (1..len) -> Stats(K)] : Runs(len, base, F, g)
  <2> HIDE DEF F, len, base
  <2> QED
    BY <1>1, <1>2, FoldRuns, Zenon
<1>4. g = G(g)
  <2>1. ASSUME NEW s \in SUBSET (1..len) PROVE g[s] = G(g)[s]
    <3>1. CASE s = {}
      BY <1>1, <1>3, <3>1 DEF Runs
    <3>2. CASE s # {}
      <4>1. Max(s) \in 1..len /\ g[s \ {Max(s)}] \in Stats(K)
        BY <1>1, <1>3, <3>2, GreatestIsMax
      <4>2. g[s] = F[Max(s)][g[s \ {Max(s)}]]
        BY <1>3, <3>2 DEF Runs
      <4> QED
        BY <1>1, <3>2, <4>1, <4>2
    <3> QED
      BY <3>1, <3>2
  <2>2. G(g) = [s \in SUBSET (1..len) |-> G(g)[s]] /\ g = [s \in SUBSET (1..len) |-> g[s]]
    BY <1>1
  <2> HIDE DEF G
  <2> QED
    BY <2>1, <2>2
<1>5. f = G(f)
  <2> HIDE DEF G
  <2> QED
    BY <1>4
<1>6. CountLines(lines, domain) = f[1..len]
  BY <1>1, Zenon DEF CountLines, FoldLeft, MapThenFoldSet
<1> HIDE DEF f
<1>7. f[{}] = base
  <2>1. G(f)[{}] = base
    BY <1>1
  <2> QED
    BY <1>5, <2>1
<1>8. ASSUME NEW k \in 1..len, f[1..(k - 1)] \in Stats(K)
      PROVE  f[1..k] = F[k][f[1..(k - 1)]]
  <2>1. Max(1..k) = k /\ (1..k) \ {k} = 1..(k - 1) /\ 1..k # {} /\ 1..k \in SUBSET (1..len)
    BY <1>1, LastOfPrefix
  <2>2. G(f)[1..k] = F[k][f[1..(k - 1)]]
    BY <1>1, <1>8, <2>1
  <2> QED
    BY <1>5, <2>2
<1>9. PICK h \in [0..len -> Stats(K)] : Follows(len, base, F, f, h)
  <2>1. Steps(len, Stats(K), base, F, f)
    BY <1>7, <1>8 DEF Steps
  <2> HIDE DEF F, len, base
  <2> QED
    BY <1>1, <1>2, <2>1, FoldHistory, Zenon
<1>10. \A k \in 1..len : h[k] = CountLine(h[k - 1], lines[k], domain)
  <2>1. \A k \in 1..len : h[k - 1] \in Stats(K)
    BY <1>1, <1>9
  <2> QED
    BY <1>9, <2>1 DEF F, Follows
<1> QED
  BY <1>6, <1>9, <1>10 DEF Follows, LinesSoFar

\* The domain of an address is a text.
LEMMA FullDomainTyped ==
  ASSUME NEW C, NEW email \in Seq(C), At \in Range(email)
  PROVE  FullDomain(email) \in Seq(C)
<1> DEFINE Ats == {i \in DOMAIN email : email[i] = At}
           a == Min(Ats)
<1>1. Ats \subseteq Nat /\ Ats # {}
  BY DEF Range
<1>2. a \in Ats
  BY <1>1, LeastIsMin
<1>3. a \in 1..Len(email) /\ Len(email) \in Nat
  BY <1>2
<1> HIDE DEF a
<1>4. SubSeq(email, 1 + a, Len(email)) \in Seq(C)
  BY <1>3
<1> QED
  BY <1>4 DEF a, FullDomain

\* The lines that count, and the domain they count under.
Counted(lines, domain) ==
  {k \in DOMAIN lines : lines[k].email # NoEmail /\ Extracts(lines[k].email, domain)}

LowerDomain(email) ==
  [i \in DOMAIN FullDomain(email) |-> LowerCase[FullDomain(email)[i]]]

CountedAs(lines, domain) ==
  [k \in Counted(lines, domain) |-> LowerDomain(lines[k].email)]

\* What a line does.
LineCounted(lines, domain, stat, k, next) ==
  /\ (~stat.ok \/ ~lines[k].valid) => next = [ok |-> FALSE, counts |-> stat.counts]
  /\ (stat.ok /\ lines[k].valid /\ k \notin Counted(lines, domain)) => next = stat
  /\ (stat.ok /\ lines[k].valid /\ k \in Counted(lines, domain)) =>
       next = [ok |-> stat.ok, counts |-> Increment(stat.counts, CountedAs(lines, domain)[k])]

\* The three ways of a line through the loop.
LEMMA CountLineDoes ==
  ASSUME NEW lines, NEW domain, NEW K, NEW stat \in Stats(K), NEW k \in DOMAIN lines
  PROVE  LineCounted(lines, domain, stat, k, CountLine(stat, lines[k], domain))
<1>1. PICK b \in BOOLEAN, m \in CountMaps(K) : stat = [ok |-> b, counts |-> m]
  BY DEF Stats
<1>2. stat.ok = b /\ stat.counts = m
  BY <1>1
<1>3. CASE ~stat.ok \/ ~lines[k].valid
  <2>1. CountLine(stat, lines[k], domain) = [stat EXCEPT !.ok = FALSE]
    BY <1>3 DEF CountLine
  <2>2. \A c : [stat EXCEPT !.ok = c] = [ok |-> c, counts |-> m]
    BY <1>1
  <2> QED
    BY <1>2, <1>3, <2>1, <2>2 DEF LineCounted
<1>4. CASE stat.ok /\ lines[k].valid /\ k \notin Counted(lines, domain)
  BY <1>4 DEF CountLine, Counted, LineCounted
<1>5. CASE stat.ok /\ lines[k].valid /\ k \in Counted(lines, domain)
  <2>1. CountLine(stat, lines[k], domain)
          = [stat EXCEPT !.counts = Increment(stat.counts, LowerDomain(lines[k].email))]
    BY <1>1, <1>5 DEF CountLine, Counted, LowerDomain
  <2>2. CountedAs(lines, domain)[k] = LowerDomain(lines[k].email)
    BY <1>5 DEF CountedAs
  <2>3. \A c : [stat EXCEPT !.counts = c] = [ok |-> b, counts |-> c]
    BY <1>1
  <2> QED
    BY <1>2, <1>5, <2>1, <2>2, <2>3 DEF LineCounted
<1> QED
  BY <1>3, <1>4, <1>5

\* The loop fails when a line does, and counts the lines that count.
LEMMA CountLinesIs ==
  ASSUME NEW S, NEW lines \in Seq(S), NEW domain
  PROVE  /\ CountLines(lines, domain).ok <=> \A k \in DOMAIN lines : lines[k].valid
         /\ CountLines(lines, domain).ok =>
              CountLines(lines, domain).counts =
                Tally(Counted(lines, domain), CountedAs(lines, domain), Len(lines))
         /\ \E K : CountLines(lines, domain) \in Stats(K)
<1> DEFINE places == Counted(lines, domain)
           key == CountedAs(lines, domain)
           len == Len(lines)
           K == {key[k] : k \in places}
           base == [ok |-> TRUE, counts |-> NoCounts]
<1>1. len \in Nat /\ DOMAIN lines = 1..len
  OBVIOUS
<1>2. NoCounts \in CountMaps(K) /\ NoCounts = Tally(places, key, 0)
  BY NoCountsTyped
<1>3. base \in Stats(K)
  BY <1>2 DEF Stats
<1>4. \A r \in Stats(K) : \A k \in 1..Len(lines) : CountLine(r, lines[k], domain) \in Stats(K)
  <2> SUFFICES ASSUME NEW r \in Stats(K), NEW k \in 1..len
               PROVE  CountLine(r, lines[k], domain) \in Stats(K)
    OBVIOUS
  <2>1. k \in places => key[k] \in K
    OBVIOUS
  <2>2. r.ok \in BOOLEAN /\ r.counts \in CountMaps(K) /\ r \in Stats(K)
    BY DEF Stats
  <2>3. /\ (~r.ok \/ ~lines[k].valid) =>
             CountLine(r, lines[k], domain) = [ok |-> FALSE, counts |-> r.counts]
        /\ (r.ok /\ lines[k].valid /\ k \notin places) => CountLine(r, lines[k], domain) = r
        /\ (r.ok /\ lines[k].valid /\ k \in places) =>
             CountLine(r, lines[k], domain) = [ok |-> r.ok, counts |-> Increment(r.counts, key[k])]
    <3>1. LineCounted(lines, domain, r, k, CountLine(r, lines[k], domain))
      BY <1>1, CountLineDoes, Zenon
    <3> QED
      BY <3>1, Zenon DEF LineCounted
  <2> HIDE DEF K, places, key
  <2>4. k \in places => Increment(r.counts, key[k]) \in CountMaps(K)
    BY <2>1, <2>2, IncrementTyped
  <2>5. \A b \in BOOLEAN, c \in CountMaps(K) : [ok |-> b, counts |-> c] \in Stats(K)
    BY DEF Stats
  <2> QED
    BY <2>2, <2>3, <2>4, <2>5
<1> HIDE DEF K
<1>5. PICK h \in [0..Len(lines) -> Stats(K)] : LinesSoFar(lines, domain, h)
  BY <1>3, <1>4, LinesHistory
<1>6. /\ h[0] = base /\ h[len] = CountLines(lines, domain)
      /\ \A k \in 1..len : h[k] = CountLine(h[k - 1], lines[k], domain)
  BY <1>5 DEF LinesSoFar
<1>7. \A k \in 0..len : h[k] \in Stats(K) /\ h[k].ok \in BOOLEAN
  BY <1>5 DEF Stats
<1> DEFINE Valid(k) == \A j \in 1..k : lines[j].valid
           T == {k \in 0..len : /\ h[k].ok <=> Valid(k)
                                /\ h[k].ok => h[k].counts = Tally(places, key, k)}
<1>8. 0 \in T
  <2>1. h[0].ok = TRUE /\ h[0].counts = NoCounts
    BY <1>6
  <2> QED
    BY <1>1, <1>2, <2>1
<1>9. ASSUME NEW k \in 1..len, k - 1 \in T PROVE k \in T
  <2> DEFINE was == h[k - 1]
  <2>1. /\ k \in 0..len /\ k \in Nat \ {0} /\ k - 1 \in 0..len /\ k \in DOMAIN lines
        /\ was \in Stats(K) /\ was.ok \in BOOLEAN
        /\ was.ok <=> Valid(k - 1)
        /\ was.ok => was.counts = Tally(places, key, k - 1)
    BY <1>1, <1>7, <1>9
  <2>2. Valid(k) <=> Valid(k - 1) /\ lines[k].valid
    <3>1. 1..k = (1..(k - 1)) \cup {k}
      BY <2>1
    <3> QED
      BY <3>1
  <2>3. /\ (~was.ok \/ ~lines[k].valid) => h[k] = [ok |-> FALSE, counts |-> was.counts]
        /\ (was.ok /\ lines[k].valid /\ k \notin places) => h[k] = was
        /\ (was.ok /\ lines[k].valid /\ k \in places) =>
             h[k] = [ok |-> was.ok, counts |-> Increment(was.counts, key[k])]
    <3>1. h[k] = CountLine(was, lines[k], domain)
      BY <1>6
    <3> HIDE DEF was
    <3>2. LineCounted(lines, domain, was, k, CountLine(was, lines[k], domain))
      BY <2>1, CountLineDoes, Zenon
    <3> QED
      BY <3>1, <3>2, Zenon DEF LineCounted
  <2> HIDE DEF Valid, places, key, was
  <2>4. CASE ~was.ok \/ ~lines[k].valid
    <3>1. ~h[k].ok
      BY <2>3, <2>4
    <3> QED
      BY <2>1, <2>2, <2>4, <3>1
  <2>5. CASE was.ok /\ lines[k].valid /\ k \notin places
    <3>1. Tally(places, key, k) = Tally(places, key, k - 1)
      BY <2>1, <2>5, TallySame
    <3>2. h[k] = was
      BY <2>3, <2>5
    <3> QED
      BY <2>1, <2>2, <2>5, <3>1, <3>2
  <2>6. CASE was.ok /\ lines[k].valid /\ k \in places
    <3>1. Tally(places, key, k) = Increment(Tally(places, key, k - 1), key[k])
      BY <2>1, <2>6, TallyMore
    <3>2. h[k].ok = was.ok /\ h[k].counts = Increment(was.counts, key[k])
      BY <2>3, <2>6
    <3> QED
      BY <2>1, <2>2, <2>6, <3>1, <3>2
  <2> QED
    BY <2>4, <2>5, <2>6
<1> HIDE DEF T
<1>10. len \in T
  <2>1. \A k \in 0..len : k \in T
    BY <1>1, <1>8, <1>9, UpTo
  <2> QED
    BY <1>1, <2>1
<1>11. /\ h[len].ok <=> Valid(len)
       /\ h[len].ok => h[len].counts = Tally(places, key, len)
  BY <1>10 DEF T
<1>12. h[len] \in Stats(K)
  BY <1>1, <1>7
<1> QED
  BY <1>1, <1>6, <1>11, <1>12

\* Lines of texts over some characters.
IsLines(C, lines) ==
  lines \in Seq([valid: BOOLEAN, email: {NoEmail} \cup Seq(C)])

\* What an address with an "@" belongs to is the lower case of its domain.
LEMMA BelongsIs ==
  ASSUME NEW C, NEW email \in Seq(C), At \in Range(email), NEW L, NEW d \in Seq(L)
  PROVE  BelongsTo(email, d) <=> d = LowerDomain(email)
<1> DEFINE Ats == {i \in DOMAIN email : email[i] = At}
           a == Min(Ats)
           len == Len(email)
           m == Len(d)
           at == len - m
           full == FullDomain(email)
<1>1. /\ len \in Nat /\ DOMAIN email = 1..len
      /\ m \in Nat /\ DOMAIN d = 1..m
  OBVIOUS
<1>2. a \in Ats /\ \A i \in Ats : a <= i
  <2>1. Ats \subseteq Nat /\ Ats # {}
    BY DEF Range
  <2> QED
    BY <2>1, LeastIsMin
<1> HIDE DEF a
<1>3. a \in 1..len /\ email[a] = At /\ \A i \in 1..len : email[i] = At => a <= i
  BY <1>1, <1>2
<1>4. full = SubSeq(email, 1 + a, len)
  BY DEF FullDomain, a
<1>5. /\ full \in Seq(C) /\ DOMAIN full = 1..(len - a)
      /\ \A i \in 1..(len - a) : full[i] = email[a + i]
  BY <1>1, <1>3, <1>4
<1> HIDE DEF full
<1>6. LowerDomain(email) = [i \in 1..(len - a) |-> LowerCase[email[a + i]]]
  BY <1>5 DEF LowerDomain, full
<1>7. (at >= 1 /\ email[at] = At /\ At \notin Range(SubSeq(email, 1, at - 1))) <=> at = a
  <2>1. ASSUME at >= 1
        PROVE  At \in Range(SubSeq(email, 1, at - 1)) <=> \E i \in 1..(at - 1) : email[i] = At
    <3>1. at \in Nat /\ at <= len
      BY <1>1, <2>1
    <3> HIDE DEF at, len
    <3> DEFINE end == at - 1
    <3>3. end \in 0..Len(email)
      BY <2>1, <3>1 DEF len
    <3> HIDE DEF end
    <3>4. /\ DOMAIN SubSeq(email, 1, end) = 1..end
          /\ \A i \in 1..end : SubSeq(email, 1, end)[i] = email[i]
      BY <3>3
    <3>2. At \in Range(SubSeq(email, 1, end)) <=> \E i \in 1..end : email[i] = At
      BY <3>4, Zenon DEF Range
    <3> QED
      BY <3>2 DEF end
  <2>2. at \in Int /\ at <= len
    BY <1>1
  <2> HIDE DEF at, len
  <2> QED
    BY <1>1, <1>3, <2>1, <2>2
<1>8. ASSUME at = a, \A i \in DOMAIN d : d[i] = LowerCase[email[at + i]]
      PROVE  d = LowerDomain(email)
  <2>1. DOMAIN d = 1..(len - a)
    <3> HIDE DEF len, m
    <3>1. m = len - a
      BY <1>1, <1>3, <1>8
    <3> QED
      BY <1>1, <3>1
  <2>2. d = [i \in DOMAIN d |-> d[i]]
    OBVIOUS
  <2> HIDE DEF len, m, at
  <2> QED
    BY <1>6, <1>8, <2>1, <2>2
<1>9. ASSUME d = LowerDomain(email)
      PROVE  at = a /\ \A i \in DOMAIN d : d[i] = LowerCase[email[at + i]]
  <2>1. 1..m = 1..(len - a) /\ \A i \in 1..(len - a) : d[i] = LowerCase[email[a + i]]
    BY <1>1, <1>6, <1>9
  <2> HIDE DEF len, m
  <2>2. m = len - a
    <3>1. len - a \in Nat
      BY <1>1, <1>3
    <3> QED
      BY <1>1, <2>1, <3>1
  <2> QED
    BY <1>1, <1>3, <2>1, <2>2
<1> QED
  BY <1>7, <1>8, <1>9 DEF BelongsTo

\* The domains are counted right for any number of lines, over any characters that have a
\* lower case, and any domain without a dot: each line that matches under the lower case
\* of its own domain; and there is an error exactly when a line is no JSON or the scanner
\* stopped with one.
THEOREM DomainsAlwaysCounted ==
  ASSUME NEW C \in SUBSET DOMAIN LowerCase, Dot \in C,
         NEW lines, IsLines(C, lines), NEW cut \in BOOLEAN,
         NEW domain \in Seq(C), Dot \notin Range(domain)
  PROVE  DomainsCounted(lines, cut, domain)
<1> DEFINE places == Counted(lines, domain)
           key == CountedAs(lines, domain)
           len == Len(lines)
           loop == CountLines(lines, domain)
           stat == CountDomains(lines, cut, domain)
           matching == {k \in DOMAIN lines :
                     /\ lines[k].email # NoEmail
                     /\ IsSuffix(<<Dot>> \o domain, lines[k].email)
                     /\ At \in Range(SubSeq(lines[k].email, 1,
                                            Len(lines[k].email) - Len(domain) - 1))}
           Of(d) == {k \in matching : BelongsTo(lines[k].email, d)}
<1>1. /\ len \in Nat /\ DOMAIN lines = 1..len
      /\ \A k \in DOMAIN lines : lines[k].email # NoEmail => lines[k].email \in Seq(C)
  <2> DEFINE S == [valid: BOOLEAN, email: {NoEmail} \cup Seq(C)]
  <2>1. lines \in Seq(S)
    BY DEF IsLines
  <2>2. \A l \in S : l.email = NoEmail \/ l.email \in Seq(C)
    OBVIOUS
  <2> HIDE DEF S
  <2>3. len \in Nat /\ DOMAIN lines = 1..len /\ \A k \in DOMAIN lines : lines[k] \in S
    BY <2>1
  <2> QED
    BY <2>2, <2>3, Zenon
<1>2. /\ loop.ok <=> \A k \in DOMAIN lines : lines[k].valid
      /\ loop.ok => loop.counts = Tally(places, key, len)
      /\ \E K : loop \in Stats(K)
  BY CountLinesIs DEF IsLines
<1>3. places = matching
  <2>1. ASSUME NEW k \in DOMAIN lines, lines[k].email # NoEmail
        PROVE  Extracts(lines[k].email, domain) <=>
                 /\ IsSuffix(<<Dot>> \o domain, lines[k].email)
                 /\ At \in Range(SubSeq(lines[k].email, 1,
                                        Len(lines[k].email) - Len(domain) - 1))
    <3>1. lines[k].email \in Seq(C)
      BY <1>1, <2>1
    <3> QED
      BY <3>1, SuffixIs, ExtractsIs
  <2> QED
    BY <2>1 DEF Counted
<1>4. stat.ok <=> ~cut /\ \A k \in DOMAIN lines : lines[k].valid
  <2>1. CASE cut
    <3>1. PICK K : loop \in Stats(K)
      BY <1>2
    <3>4. PICK b \in BOOLEAN, counts \in CountMaps(K) : loop = [ok |-> b, counts |-> counts]
      BY <3>1 DEF Stats
    <3>2. [loop EXCEPT !.ok = FALSE].ok = FALSE
      BY <3>4
    <3>3. stat = [loop EXCEPT !.ok = FALSE]
      BY <2>1 DEF CountDomains
    <3> QED
      BY <2>1, <3>2, <3>3
  <2>2. CASE ~cut
    BY <1>2, <2>2 DEF CountDomains
  <2> QED
    BY <2>1, <2>2
<1>5. ASSUME stat.ok
      PROVE  stat.counts = Tally(places, key, len)
  <2>1. ~cut
    BY <1>4, <1>5
  <2>2. stat = loop
    BY <2>1 DEF CountDomains
  <2> QED
    BY <1>2, <1>5, <2>2
<1>6. ASSUME NEW k \in places
      PROVE  /\ key[k] = LowerDomain(lines[k].email) /\ \E L : key[k] \in Seq(L)
             /\ \A L : \A d \in Seq(L) : BelongsTo(lines[k].email, d) <=> d = key[k]
  <2> DEFINE email == lines[k].email
             full == FullDomain(email)
  <2>1. email \in Seq(C) /\ At \in Range(email)
    BY <1>1 DEF Counted, Extracts
  <2>2. key[k] = LowerDomain(email)
    BY DEF CountedAs
  <2>3. full \in Seq(C)
    BY <2>1, FullDomainTyped
  <2>4. key[k] = [i \in DOMAIN full |-> LowerCase[full[i]]]
    BY <2>2 DEF LowerDomain
  <2> HIDE DEF email, full, key
  <2> DEFINE L == {LowerCase[full[i]] : i \in DOMAIN full}
  <2>5. key[k] \in Seq(L)
    <3>1. DOMAIN full = 1..Len(full) /\ Len(full) \in Nat
      BY <2>3
    <3> QED
      BY <2>4, <3>1
  <2>6. \A K : \A d \in Seq(K) : BelongsTo(email, d) <=> d = key[k]
    BY <2>1, <2>2, BelongsIs
  <2> QED
    BY <2>2, <2>5, <2>6 DEF email
<1>7. places \cap (1..len) = places
  BY <1>1 DEF Counted
<1> HIDE DEF places, key, matching, stat, len, loop
<1>8. ASSUME NEW q \in places
      PROVE  Of(key[q]) = PlacesOf(places, key, len, key[q]) /\ q \in Of(key[q])
  <2>1. PICK L : key[q] \in Seq(L)
    BY <1>6
  <2>2. \A k \in places : BelongsTo(lines[k].email, key[q]) <=> key[k] = key[q]
    BY <1>6, <2>1
  <2> QED
    BY <1>3, <1>7, <2>2 DEF PlacesOf
<1>9. ASSUME stat.ok
      PROVE  /\ \A d \in DOMAIN stat.counts : Of(d) # {} /\ stat.counts[d] = Cardinality(Of(d))
             /\ \A k \in matching : \E d \in DOMAIN stat.counts : k \in Of(d)
  <2>1. stat.counts = Tally(places, key, len)
    BY <1>5, <1>9
  <2>2. DOMAIN stat.counts = {key[k] : k \in places}
    BY <1>7, <2>1 DEF Tally, KeysUpTo
  <2>3. \A d \in DOMAIN stat.counts : stat.counts[d] = Cardinality(PlacesOf(places, key, len, d))
    BY <2>1 DEF Tally
  <2> HIDE DEF Of
  <2>4. \A q \in places : key[q] \in DOMAIN stat.counts
    BY <2>2
  <2>5. ASSUME NEW d \in DOMAIN stat.counts
        PROVE  Of(d) # {} /\ stat.counts[d] = Cardinality(Of(d))
    <3>1. PICK q \in places : d = key[q]
      BY <2>2
    <3> QED
      BY <1>8, <2>3, <3>1
  <2>6. \A k \in matching : \E d \in DOMAIN stat.counts : k \in Of(d)
    BY <1>3, <1>8, <2>4
  <2> QED
    BY <2>5, <2>6
<1> QED
  BY <1>4, <1>9 DEF DomainsCounted, stat, matching

\* The texts over some characters.
Texts(S) == Seq(S)

\* Texts joined are a text, and the empty one changes nothing.
LEMMA JoinTyped ==
  ASSUME NEW S
  PROVE  /\ <<>> \in Texts(S)
         /\ \A s, t \in Texts(S) : s \o t \in Texts(S)
         /\ \A s \in Texts(S) : <<>> \o s = s
BY DEF Texts

\* What FlattenSeq has joined after each of the sequences.
Joins(seqs, h) ==
  /\ h[0] = <<>> /\ h[Len(seqs)] = FlattenSeq(seqs)
  /\ \A k \in 1..Len(seqs) : h[k] = h[k - 1] \o seqs[k]

\* FlattenSeq has this history for every sequence of texts.
LEMMA FlattenHistory ==
  ASSUME NEW S, NEW seqs \in Seq(Texts(S))
  PROVE  \E h \in [0..Len(seqs) -> Texts(S)] : Joins(seqs, h)
<1> DEFINE len == Len(seqs)
           F == [k \in 1..len |-> [r \in Texts(S) |-> r \o seqs[k]]]
           base == <<>>
           G(f) == [i \in 1..Len(seqs) |-> IF i = 1 THEN seqs[i] ELSE f[i - 1] \o seqs[i]]
           f == CHOOSE x : x = G(x)
<1>1. len \in Nat /\ base \in Texts(S) /\ \A k \in 1..len : seqs[k] \in Texts(S)
  BY JoinTyped
<1>2. F \in [1..len -> [Texts(S) -> Texts(S)]]
  BY <1>1, JoinTyped
<1>3. PICK g \in [SUBSET (1..len) -> Texts(S)] : Runs(len, base, F, g)
  <2> HIDE DEF F, len, base
  <2> QED
    BY <1>1, <1>2, FoldRuns, Zenon
<1>4. PICK h \in [0..len -> Texts(S)] : Follows(len, base, F, g, h)
  <2>1. Steps(len, Texts(S), base, F, g)
    <3>1. g[{}] = base
      BY <1>3 DEF Runs
    <3>2. ASSUME NEW k \in 1..len PROVE g[1..k] = F[k][g[1..(k - 1)]]
      <4>1. Max(1..k) = k /\ (1..k) \ {k} = 1..(k - 1) /\ 1..k # {} /\ 1..k \in SUBSET (1..len)
        BY <1>1, LastOfPrefix
      <4> HIDE DEF F, base, len
      <4> QED
        BY <1>3, <4>1 DEF Runs
    <3> QED
      BY <3>1, <3>2 DEF Steps
  <2> HIDE DEF F, len, base
  <2> QED
    BY <1>1, <1>2, <2>1, FoldHistory, Zenon
<1>5. h[0] = <<>> /\ \A k \in 1..len : h[k] = h[k - 1] \o seqs[k]
  <2>1. \A k \in 1..len : h[k - 1] \in Texts(S)
    <3>1. \A k \in 1..len : k - 1 \in 0..len
      BY <1>1
    <3> HIDE DEF len
    <3> QED
      BY <1>4, <3>1
  <2>2. \A k \in 1..len : F[k][h[k - 1]] = h[k - 1] \o seqs[k]
    BY <2>1
  <2> HIDE DEF F
  <2> QED
    BY <1>4, <2>2 DEF Follows
<1>6. CASE len = 0
  <2>1. FlattenSeq(seqs) = seqs /\ seqs = <<>>
    BY <1>6 DEF FlattenSeq
  <2> QED
    BY <1>5, <1>6, <2>1 DEF Joins
<1>7. CASE len # 0
  <2>1. FlattenSeq(seqs) = f[len]
    BY <1>7, Zenon DEF FlattenSeq
  <2> DEFINE e == [i \in 1..len |-> h[i]]
  <2>0. h[1] = seqs[1]
    <3>1. 1 \in 1..len /\ 1 - 1 = 0
      BY <1>1, <1>7
    <3>2. h[1] = <<>> \o seqs[1] /\ seqs[1] \in Texts(S)
      BY <1>1, <1>5, <3>1
    <3> QED
      BY <3>2, JoinTyped
  <2>2. e = G(e)
    <3>1. ASSUME NEW i \in 1..len PROVE e[i] = G(e)[i]
      <4>1. CASE i = 1
        BY <2>0, <4>1
      <4>2. CASE i # 1
        <5>1. i - 1 \in 1..len
          BY <1>1, <4>2
        <5> QED
          BY <1>5, <4>2, <5>1
      <4> QED
        BY <4>1, <4>2
    <3>2. G(e) = [i \in 1..len |-> G(e)[i]] /\ e = [i \in 1..len |-> e[i]]
      OBVIOUS
    <3> HIDE DEF G, e
    <3> QED
      BY <3>1, <3>2
  <2>3. f = G(f)
    <3> HIDE DEF G, e
    <3> QED
      BY <2>2
  <2> HIDE DEF f
  <2> DEFINE T == {k \in 0..len : k # 0 => f[k] = h[k]}
  <2>4. ASSUME NEW k \in 1..len, k - 1 \in T PROVE k \in T
    <3>1. f[k] = IF k = 1 THEN seqs[k] ELSE f[k - 1] \o seqs[k]
      BY <2>3
    <3>2. CASE k = 1
      BY <2>0, <3>1, <3>2
    <3>3. CASE k # 1
      <4>1. k \in 0..len /\ k - 1 # 0
        BY <1>1, <3>3
      <4> QED
        BY <1>5, <2>4, <3>1, <3>3, <4>1
    <3> QED
      BY <3>2, <3>3
  <2>5. 0 \in T
    BY <1>1
  <2> HIDE DEF T
  <2>6. \A k \in 0..len : k \in T
    BY <1>1, <2>4, <2>5, UpTo
  <2>7. f[len] = h[len]
    BY <1>1, <1>7, <2>6 DEF T
  <2> QED
    BY <1>5, <2>1, <2>7 DEF Joins
<1> QED
  BY <1>6, <1>7

\* So one more sequence is joined at the end.
LEMMA FlattenAppend ==
  ASSUME NEW S, NEW seqs \in Seq(Texts(S)), NEW x \in Texts(S)
  PROVE  /\ FlattenSeq(Append(seqs, x)) = FlattenSeq(seqs) \o x
         /\ FlattenSeq(seqs) \in Texts(S)
<1> DEFINE len == Len(seqs)
           more == Append(seqs, x)
<1>1. /\ len \in Nat /\ more \in Seq(Texts(S)) /\ Len(more) = len + 1 /\ more[len + 1] = x
      /\ \A k \in 1..len : more[k] = seqs[k]
  OBVIOUS
<1> HIDE DEF more
<1>2. PICK h \in [0..len -> Texts(S)] : Joins(seqs, h)
  BY FlattenHistory
<1>3. PICK g \in [0..(len + 1) -> Texts(S)] : Joins(more, g)
  <2>1. \E g \in [0..Len(more) -> Texts(S)] : Joins(more, g)
    BY <1>1, FlattenHistory
  <2> QED
    BY <1>1, <2>1
<1>4. /\ h[0] = <<>> /\ h[len] = FlattenSeq(seqs)
      /\ \A k \in 1..len : h[k] = h[k - 1] \o seqs[k]
  BY <1>2 DEF Joins
<1>5. /\ g[0] = <<>> /\ g[len + 1] = FlattenSeq(more)
      /\ \A k \in 1..(len + 1) : g[k] = g[k - 1] \o more[k]
  BY <1>1, <1>3 DEF Joins
<1> HIDE DEF len
<1> DEFINE T == {k \in 0..len : g[k] = h[k]}
<1>6. 0 \in T
  BY <1>1, <1>4, <1>5
<1>7. ASSUME NEW k \in 1..len, k - 1 \in T PROVE k \in T
  <2>1. k \in 0..len /\ k \in 1..(len + 1)
    BY <1>1
  <2> QED
    BY <1>1, <1>4, <1>5, <1>7, <2>1
<1> HIDE DEF T
<1>8. len \in T
  <2>1. \A k \in 0..len : k \in T
    BY <1>1, <1>6, <1>7, UpTo
  <2> QED
    BY <1>1, <2>1
<1>9. g[len] = h[len] /\ h[len] \in Texts(S)
  BY <1>1, <1>2, <1>8 DEF T
<1>10. g[len + 1] = g[len] \o more[len + 1]
  <2>1. len + 1 \in 1..(len + 1) /\ (len + 1) - 1 = len
    BY <1>1
  <2>2. g[len + 1] = g[(len + 1) - 1] \o more[len + 1]
    BY <1>5, <2>1
  <2> QED
    BY <2>1, <2>2, Zenon
<1> QED
  BY <1>1, <1>4, <1>5, <1>9, <1>10 DEF more

\* No text joined is the empty one.
LEMMA FlattenNothing == FlattenSeq(<<>>) = <<>>
<1>1. Len(<<>>) = 0
  OBVIOUS
<1> QED
  BY <1>1 DEF FlattenSeq

\* The copies of a character.
LEMMA Copies ==
  ASSUME NEW S, NEW c \in S, NEW times \in Nat
  PROVE  Repeat(<<c>>, times) = [i \in 1..times |-> c]
<1> DEFINE seqs == [i \in 1..times |-> <<c>>]
<1>1. seqs \in Seq(Texts(S)) /\ Len(seqs) = times /\ \A k \in 1..times : seqs[k] = <<c>>
  BY DEF Texts
<1>2. Repeat(<<c>>, times) = FlattenSeq(seqs)
  BY Zenon DEF Repeat
<1> HIDE DEF seqs
<1>3. PICK h \in [0..times -> Texts(S)] : Joins(seqs, h)
  <2>1. \E h \in [0..Len(seqs) -> Texts(S)] : Joins(seqs, h)
    BY <1>1, FlattenHistory
  <2> QED
    BY <1>1, <2>1
<1>4. /\ h[0] = <<>> /\ h[times] = FlattenSeq(seqs)
      /\ \A k \in 1..times : h[k] = h[k - 1] \o <<c>>
  BY <1>1, <1>3 DEF Joins
<1> DEFINE T == {k \in 0..times : h[k] = [i \in 1..k |-> c]}
<1>5. 0 \in T
  BY <1>4
<1>6. ASSUME NEW k \in 1..times, k - 1 \in T PROVE k \in T
  <2>1. h[k - 1] = [i \in 1..(k - 1) |-> c] /\ k \in 0..times
    BY <1>6
  <2>2. [i \in 1..(k - 1) |-> c] \o <<c>> = [i \in 1..k |-> c]
    OBVIOUS
  <2> QED
    BY <1>4, <2>1, <2>2
<1> HIDE DEF T
<1>7. times \in T
  <2>1. \A k \in 0..times : k \in T
    BY <1>5, <1>6, UpTo
  <2> QED
    BY <2>1
<1> QED
  BY <1>2, <1>4, <1>7 DEF T

\* How a character is written.
Escaped(c) == IF IsDigit(c) \/ c = Slash THEN <<Slash, c>> ELSE <<c>>

\* What Unpack has not written yet, and what it has.
Prevs(S) == {<<>>, <<Slash>>} \cup {Escaped(c) : c \in S}
Unpackings(S) == {Invalid} \cup {Unpacking(out, prev) : out \in Texts(S), prev \in Prevs(S)}

\* A character that is written is something, and no backslash alone, and WithoutSlash finds
\* it again.
LEMMA EscapedIs ==
  ASSUME NEW c
  PROVE  /\ Escaped(c) \notin {<<>>, <<Slash>>}
         /\ WithoutSlash(Escaped(c)) = <<c>>
<1>1. CASE IsDigit(c) \/ c = Slash
  <2>1. Tail(<<Slash, c>>) = <<c>> /\ <<Slash, c>>[1] = Slash
    OBVIOUS
  <2>2. <<Slash, c>> # <<>> /\ <<Slash, c>> # <<Slash>>
    OBVIOUS
  <2>3. Escaped(c) = <<Slash, c>>
    BY <1>1 DEF Escaped
  <2> QED
    BY <2>1, <2>2, <2>3 DEF WithoutSlash
<1>2. CASE ~(IsDigit(c) \/ c = Slash)
  <2>1. Escaped(c) = <<c>> /\ c # Slash
    BY <1>2 DEF Escaped
  <2>2. <<c>> # <<>> /\ <<c>>[1] = c /\ (<<c>> = <<Slash>> => c = Slash)
    OBVIOUS
  <2> QED
    BY <2>1, <2>2 DEF WithoutSlash
<1> QED
  BY <1>1, <1>2

\* What a rune makes of the part that is not written yet.
RuneGives(out, prev, rune, next) ==
  /\ prev = <<>> =>
       next = IF IsDigit(rune) THEN Invalid ELSE Unpacking(out, <<rune>>)
  /\ prev = <<Slash>> =>
       next = IF IsDigit(rune) \/ rune = Slash THEN Unpacking(out, <<Slash, rune>>) ELSE Invalid
  /\ prev \notin {<<>>, <<Slash>>} =>
       next = IF IsDigit(rune) THEN Unpacking(out \o Repeat(WithoutSlash(prev), rune), <<>>)
              ELSE Unpacking(out \o WithoutSlash(prev), <<rune>>)

\* That is what UnpackRune does while nothing is refused.
LEMMA UnpackRuneDoes ==
  ASSUME NEW out, NEW prev, NEW rune
  PROVE  RuneGives(out, prev, rune, UnpackRune(Unpacking(out, prev), rune))
<1> DEFINE u == Unpacking(out, prev)
<1>1. u.valid = TRUE /\ u.out = out /\ u.prev = prev
  BY DEF Unpacking
<1> HIDE DEF u
<1>2. CASE prev = <<>>
  <2>1. prev # <<Slash>>
    BY <1>2
  <2> QED
    BY <1>1, <1>2, <2>1 DEF UnpackRune, RuneGives, u
<1>3. CASE prev = <<Slash>>
  <2>1. prev # <<>>
    BY <1>3
  <2> QED
    BY <1>1, <1>3, <2>1 DEF UnpackRune, RuneGives, u
<1>4. CASE prev \notin {<<>>, <<Slash>>}
  BY <1>1, <1>4 DEF UnpackRune, RuneGives, u
<1> QED
  BY <1>2, <1>3, <1>4

\* Unpack stays among its states.
LEMMA UnpackRuneTyped ==
  ASSUME NEW S, Slash \in S, NEW u \in Unpackings(S), NEW rune \in S
  PROVE  UnpackRune(u, rune) \in Unpackings(S)
<1>1. CASE u = Invalid
  <2>1. Invalid.valid = FALSE
    BY DEF Invalid
  <2>2. UnpackRune(u, rune) = u
    BY <1>1, <2>1 DEF UnpackRune
  <2> QED
    BY <2>2
<1>2. CASE u # Invalid
  <2>1. PICK out \in Texts(S), prev \in Prevs(S) : u = Unpacking(out, prev)
    BY <1>2 DEF Unpackings
  <2>2. Invalid \in Unpackings(S)
    BY DEF Unpackings
  <2>3. \A o \in Texts(S), p \in Prevs(S) : Unpacking(o, p) \in Unpackings(S)
    BY DEF Unpackings
  <2>4. /\ ~IsDigit(rune) => <<rune>> \in Prevs(S)
        /\ (IsDigit(rune) \/ rune = Slash) => <<Slash, rune>> \in Prevs(S)
        /\ <<>> \in Prevs(S)
    <3>1. <<>> \in Prevs(S) /\ <<Slash>> \in Prevs(S) /\ \A c \in S : Escaped(c) \in Prevs(S)
      BY DEF Prevs
    <3>2. /\ (IsDigit(rune) \/ rune = Slash) => Escaped(rune) = <<Slash, rune>>
          /\ ~(IsDigit(rune) \/ rune = Slash) => Escaped(rune) = <<rune>>
      BY DEF Escaped
    <3> QED
      BY <3>1, <3>2
  <2>5. RuneGives(out, prev, rune, UnpackRune(Unpacking(out, prev), rune))
    BY UnpackRuneDoes, Zenon
  <2>6. CASE prev = <<>>
    <3>1. UnpackRune(Unpacking(out, prev), rune) =
            IF IsDigit(rune) THEN Invalid ELSE Unpacking(out, <<rune>>)
      BY <2>6, <2>5 DEF RuneGives
    <3> QED
      BY <2>1, <2>2, <2>3, <2>4, <3>1
  <2>7. CASE prev = <<Slash>>
    <3>1. UnpackRune(Unpacking(out, prev), rune) =
            IF IsDigit(rune) \/ rune = Slash THEN Unpacking(out, <<Slash, rune>>) ELSE Invalid
      BY <2>7, <2>5 DEF RuneGives
    <3> QED
      BY <2>1, <2>2, <2>3, <2>4, <3>1
  <2>8. CASE prev \notin {<<>>, <<Slash>>}
    <3>1. PICK c \in S : prev = Escaped(c)
      BY <2>8 DEF Prevs
    <3>2. WithoutSlash(prev) = <<c>>
      BY <3>1, EscapedIs
    <3>3. <<c>> \in Texts(S)
      BY DEF Texts
    <3>4. IsDigit(rune) => Repeat(<<c>>, rune) \in Texts(S)
      <4>1. ASSUME IsDigit(rune) PROVE rune \in Nat
        BY <4>1 DEF IsDigit
      <4>2. \A t \in Nat : [i \in 1..t |-> c] \in Texts(S)
        BY DEF Texts
      <4> QED
        BY <4>1, <4>2, Copies
    <3>5. \A t \in Texts(S) : out \o t \in Texts(S)
      BY JoinTyped
    <3>6. UnpackRune(u, rune) =
            IF IsDigit(rune) THEN Unpacking(out \o Repeat(<<c>>, rune), <<>>)
            ELSE Unpacking(out \o <<c>>, <<rune>>)
      <4>1. UnpackRune(Unpacking(out, prev), rune) =
              IF IsDigit(rune) THEN Unpacking(out \o Repeat(WithoutSlash(prev), rune), <<>>)
              ELSE Unpacking(out \o WithoutSlash(prev), <<rune>>)
        BY <2>8, <2>5 DEF RuneGives
      <4> QED
        BY <2>1, <3>2, <4>1, Zenon
    <3> QED
      BY <2>3, <2>4, <3>3, <3>4, <3>5, <3>6
  <2> QED
    BY <2>6, <2>7, <2>8
<1> QED
  BY <1>1, <1>2

\* What Unpack has after a string.
AfterRunes(str) == FoldLeft(UnpackRune, Unpacking(<<>>, <<>>), str)

\* What it has after each of its runes.
RunesSoFar(str, h) ==
  /\ h[0] = Unpacking(<<>>, <<>>) /\ h[Len(str)] = AfterRunes(str)
  /\ \A k \in 1..Len(str) : h[k] = UnpackRune(h[k - 1], str[k])

\* Unpack has this history for every string.
LEMMA RunesHistory ==
  ASSUME NEW S, NEW str \in Seq(S), Unpacking(<<>>, <<>>) \in Unpackings(S),
         \A r \in Unpackings(S) : \A k \in 1..Len(str) : UnpackRune(r, str[k]) \in Unpackings(S)
  PROVE  \E h \in [0..Len(str) -> Unpackings(S)] : RunesSoFar(str, h)
<1> DEFINE len == Len(str)
           F == [k \in 1..len |-> [r \in Unpackings(S) |-> UnpackRune(r, str[k])]]
           G(f) == [s \in SUBSET DOMAIN str |->
                      IF s = {} THEN Unpacking(<<>>, <<>>)
                      ELSE UnpackRune(f[s \ {Max(s)}], str[Max(s)])]
           f == CHOOSE x : x = G(x)
           base == Unpacking(<<>>, <<>>)
<1>1. len \in Nat /\ DOMAIN str = 1..len /\ base \in Unpackings(S)
  OBVIOUS
<1>2. F \in [1..len -> [Unpackings(S) -> Unpackings(S)]]
  OBVIOUS
<1>3. PICK g \in [SUBSET (1..len) -> Unpackings(S)] : Runs(len, base, F, g)
  <2> HIDE DEF F, len, base
  <2> QED
    BY <1>1, <1>2, FoldRuns, Zenon
<1>4. g = G(g)
  <2>1. ASSUME NEW s \in SUBSET (1..len) PROVE g[s] = G(g)[s]
    <3>1. CASE s = {}
      BY <1>1, <1>3, <3>1 DEF Runs
    <3>2. CASE s # {}
      <4>1. Max(s) \in 1..len /\ g[s \ {Max(s)}] \in Unpackings(S)
        BY <1>1, <1>3, <3>2, GreatestIsMax
      <4>2. g[s] = F[Max(s)][g[s \ {Max(s)}]]
        BY <1>3, <3>2 DEF Runs
      <4> QED
        BY <1>1, <3>2, <4>1, <4>2
    <3> QED
      BY <3>1, <3>2
  <2>2. G(g) = [s \in SUBSET (1..len) |-> G(g)[s]] /\ g = [s \in SUBSET (1..len) |-> g[s]]
    BY <1>1
  <2> HIDE DEF G
  <2> QED
    BY <2>1, <2>2
<1>5. f = G(f)
  <2> HIDE DEF G
  <2> QED
    BY <1>4
<1>6. AfterRunes(str) = f[1..len]
  BY <1>1, Zenon DEF AfterRunes, FoldLeft, MapThenFoldSet
<1> HIDE DEF f
<1>7. f[{}] = base
  <2>1. G(f)[{}] = base
    BY <1>1
  <2> QED
    BY <1>5, <2>1
<1>8. ASSUME NEW k \in 1..len, f[1..(k - 1)] \in Unpackings(S)
      PROVE  f[1..k] = F[k][f[1..(k - 1)]]
  <2>1. Max(1..k) = k /\ (1..k) \ {k} = 1..(k - 1) /\ 1..k # {} /\ 1..k \in SUBSET (1..len)
    BY <1>1, LastOfPrefix
  <2>2. G(f)[1..k] = F[k][f[1..(k - 1)]]
    BY <1>1, <1>8, <2>1
  <2> QED
    BY <1>5, <2>2
<1>9. PICK h \in [0..len -> Unpackings(S)] : Follows(len, base, F, f, h)
  <2>1. Steps(len, Unpackings(S), base, F, f)
    BY <1>7, <1>8 DEF Steps
  <2> HIDE DEF F, len, base
  <2> QED
    BY <1>1, <1>2, <2>1, FoldHistory, Zenon
<1>10. \A k \in 1..len : h[k] = UnpackRune(h[k - 1], str[k])
  <2>1. \A k \in 1..len : h[k - 1] \in Unpackings(S)
    BY <1>1, <1>9
  <2> QED
    BY <1>9, <2>1 DEF F, Follows
<1> QED
  BY <1>6, <1>9, <1>10 DEF Follows, RunesSoFar

\* After one more rune it has what UnpackRune makes of what it had.
LEMMA AfterRune ==
  ASSUME NEW S, Slash \in S, NEW str \in Texts(S), NEW rune \in S
  PROVE  /\ AfterRunes(Append(str, rune)) = UnpackRune(AfterRunes(str), rune)
         /\ AfterRunes(str) \in Unpackings(S)
<1> DEFINE len == Len(str)
           more == Append(str, rune)
           base == Unpacking(<<>>, <<>>)
<1>1. /\ len \in Nat /\ more \in Seq(S) /\ Len(more) = len + 1 /\ more[len + 1] = rune
      /\ \A k \in 1..len : more[k] = str[k]
  BY DEF Texts
<1> HIDE DEF more
<1>2. base \in Unpackings(S)
  BY JoinTyped DEF Unpackings, Prevs
<1>3. \E h \in [0..Len(str) -> Unpackings(S)] : RunesSoFar(str, h)
  <2>1. str \in Seq(S)
    BY DEF Texts
  <2>2. \A r \in Unpackings(S) : \A k \in 1..Len(str) : UnpackRune(r, str[k]) \in Unpackings(S)
    <3>1. \A k \in 1..Len(str) : str[k] \in S
      BY <2>1
    <3> QED
      BY <3>1, UnpackRuneTyped
  <2> QED
    BY <1>2, <2>1, <2>2, RunesHistory
<1>4. \E g \in [0..Len(more) -> Unpackings(S)] : RunesSoFar(more, g)
  <2>1. \A r \in Unpackings(S) : \A k \in 1..Len(more) : UnpackRune(r, more[k]) \in Unpackings(S)
    <3>1. \A k \in 1..Len(more) : more[k] \in S
      BY <1>1
    <3> QED
      BY <3>1, UnpackRuneTyped
  <2> QED
    BY <1>1, <1>2, <2>1, RunesHistory
<1>5. PICK h \in [0..len -> Unpackings(S)] : RunesSoFar(str, h)
  BY <1>3
<1>6. PICK g \in [0..(len + 1) -> Unpackings(S)] : RunesSoFar(more, g)
  BY <1>1, <1>4
<1>7. /\ h[0] = base /\ h[len] = AfterRunes(str)
      /\ \A k \in 1..len : h[k] = UnpackRune(h[k - 1], str[k])
  BY <1>5 DEF RunesSoFar
<1>8. /\ g[0] = base /\ g[len + 1] = AfterRunes(more)
      /\ \A k \in 1..(len + 1) : g[k] = UnpackRune(g[k - 1], more[k])
  BY <1>1, <1>6 DEF RunesSoFar
<1> HIDE DEF len, base
<1> DEFINE T == {k \in 0..len : g[k] = h[k]}
<1>9. 0 \in T
  BY <1>1, <1>7, <1>8
<1>10. ASSUME NEW k \in 1..len, k - 1 \in T PROVE k \in T
  <2>1. k \in 0..len /\ k \in 1..(len + 1)
    BY <1>1
  <2> QED
    BY <1>1, <1>7, <1>8, <1>10, <2>1
<1> HIDE DEF T
<1>11. len \in T
  <2>1. \A k \in 0..len : k \in T
    BY <1>1, <1>9, <1>10, UpTo
  <2> QED
    BY <1>1, <2>1
<1>12. g[len] = h[len] /\ h[len] \in Unpackings(S)
  BY <1>1, <1>5, <1>11 DEF T
<1>13. g[len + 1] = UnpackRune(g[len], more[len + 1])
  <2>1. len + 1 \in 1..(len + 1) /\ (len + 1) - 1 = len
    BY <1>1
  <2>2. g[len + 1] = UnpackRune(g[(len + 1) - 1], more[len + 1])
    BY <1>8, <2>1
  <2> QED
    BY <2>1, <2>2, Zenon
<1> QED
  BY <1>1, <1>7, <1>8, <1>12, <1>13, Zenon DEF more

\* It begins with nothing.
LEMMA AfterNothing == AfterRunes(<<>>) = Unpacking(<<>>, <<>>)
<1>1. PICK h \in [0..0 -> Unpackings({Slash})] : RunesSoFar(<<>>, h)
  <2>1. Unpacking(<<>>, <<>>) \in Unpackings({Slash})
    BY JoinTyped DEF Unpackings, Prevs
  <2>2. <<>> \in Seq({Slash}) /\ Len(<<>>) = 0
    OBVIOUS
  <2>3. \E h \in [0..Len(<<>>) -> Unpackings({Slash})] : RunesSoFar(<<>>, h)
    <3>1. \A r \in Unpackings({Slash}) : \A k \in 1..Len(<<>>) :
             UnpackRune(r, <<>>[k]) \in Unpackings({Slash})
      BY <2>2
    <3> QED
      BY <2>1, <2>2, <3>1, RunesHistory, Zenon
  <2> QED
    BY <2>2, <2>3
<1>2. Len(<<>>) = 0
  OBVIOUS
<1> QED
  BY <1>1, <1>2 DEF RunesSoFar

\* A sequence with an element more, place by place.
LEMMA AppendIs ==
  ASSUME NEW S, NEW s \in Seq(S), NEW x \in S
  PROVE  Append(s, x) = [k \in 1..(Len(s) + 1) |-> IF k = Len(s) + 1 THEN x ELSE s[k]]
<1> DEFINE more == Append(s, x)
<1>1. /\ more \in Seq(S) /\ Len(more) = Len(s) + 1 /\ Len(s) \in Nat
      /\ more[Len(s) + 1] = x /\ \A k \in 1..Len(s) : more[k] = s[k]
  OBVIOUS
<1> HIDE DEF more
<1>2. more = [k \in 1..(Len(s) + 1) |-> more[k]]
  BY <1>1
<1>3. \A k \in 1..(Len(s) + 1) : more[k] = IF k = Len(s) + 1 THEN x ELSE s[k]
  BY <1>1
<1> QED
  BY <1>2, <1>3 DEF more

\* Two runes joined.
LEMMA TwoRunes ==
  ASSUME NEW S, NEW c \in S, NEW d \in S
  PROVE  <<c>> \o <<d>> = <<c, d>> /\ <<>> \o <<d>> = <<d>>
<1>1. <<c>> \in Seq(S) /\ <<d>> \in Seq(S) /\ <<>> \in Seq(S)
  OBVIOUS
<1>2. <<c>> \o <<d>> = <<c, d>>
  <2> DEFINE both == <<c>> \o <<d>>
  <2>1. both \in Seq(S) /\ Len(both) = 2 /\ both[1] = c /\ both[2] = d
    BY <1>1
  <2> HIDE DEF both
  <2>2. both = <<c, d>>
    BY <2>1
  <2> QED
    BY <2>2 DEF both
<1>3. <<>> \o <<d>> = <<d>>
  BY <1>1
<1> QED
  BY <1>2, <1>3

\* The items over some runes.
Items(S) == [char: S, times: {Once} \cup (S \cap (0..9))]

ItemTexts(items) == [i \in DOMAIN items |-> ItemText(items[i])]
ItemMeanings(items) == [i \in DOMAIN items |-> ItemMeaning(items[i])]

\* The text and the meaning of an item, with a number and without.
LEMMA ItemIs ==
  ASSUME NEW S, Slash \in S, NEW item \in Items(S)
  PROVE  /\ item.char \in S /\ item.times \in {Once} \cup (S \cap (0..9))
         /\ item.times = Once =>
              ItemText(item) = Escaped(item.char) /\ ItemMeaning(item) = <<item.char>>
         /\ item.times # Once =>
              /\ ItemText(item) = Escaped(item.char) \o <<item.times>>
              /\ ItemMeaning(item) = [i \in 1..item.times |-> item.char]
         /\ ItemText(item) \in Texts(S) /\ ItemMeaning(item) \in Texts(S)
<1>1. item.char \in S /\ item.times \in {Once} \cup (S \cap (0..9))
  BY DEF Items
<1> DEFINE c == item.char
           t == item.times
<1>2. Escaped(c) = (IF IsDigit(c) \/ c = Slash THEN <<Slash>> ELSE <<>>) \o <<c>>
  <2>1. <<Slash>> \o <<c>> = <<Slash, c>> /\ <<>> \o <<c>> = <<c>>
    BY <1>1, TwoRunes
  <2> HIDE DEF c
  <2> QED
    BY <2>1 DEF Escaped
<1>3. Escaped(c) \in Texts(S) /\ <<c>> \in Texts(S) /\ (t # Once => <<t>> \in Texts(S))
  <2>1. Slash \in S /\ c \in S /\ (t # Once => t \in S)
    BY <1>1
  <2> HIDE DEF c, t
  <2> QED
    BY <2>1 DEF Escaped, Texts
<1>4. CASE t = Once
  <2>1. \A e \in Texts(S) : e \o <<>> = e
    BY DEF Texts
  <2>2. ItemText(item) = Escaped(c)
    BY <1>2, <1>3, <1>4, <2>1 DEF ItemText
  <2>3. [i \in 1..1 |-> c] = <<c>>
    OBVIOUS
  <2>4. ItemMeaning(item) = <<c>>
    BY <1>4, <2>3 DEF ItemMeaning
  <2> QED
    BY <1>1, <1>3, <1>4, <2>2, <2>4
<1>5. CASE t # Once
  <2>1. ItemText(item) = Escaped(c) \o <<t>>
    BY <1>2, <1>5 DEF ItemText
  <2>2. ItemText(item) \in Texts(S)
    BY <1>3, <1>5, <2>1, JoinTyped
  <2>3. ItemMeaning(item) = [i \in 1..t |-> c]
    BY <1>5 DEF ItemMeaning
  <2>4. t \in Nat
    BY <1>1, <1>5
  <2>5. [i \in 1..t |-> c] \in Texts(S)
    BY <1>1, <2>4 DEF Texts
  <2> QED
    BY <1>1, <1>5, <2>1, <2>2, <2>3, <2>5
<1> QED
  BY <1>4, <1>5

\* One more item comes behind the text and the meaning of the others.
LEMMA AppendItem ==
  ASSUME NEW S, Slash \in S, NEW items \in Seq(Items(S)), NEW item \in Items(S)
  PROVE  /\ TextOf(Append(items, item)) = TextOf(items) \o ItemText(item)
         /\ MeaningOf(Append(items, item)) = MeaningOf(items) \o ItemMeaning(item)
         /\ TextOf(items) \in Texts(S) /\ MeaningOf(items) \in Texts(S)
         /\ Append(items, item) \in Seq(Items(S))
<1> DEFINE more == Append(items, item)
           len == Len(items)
           texts == ItemTexts(items)
           meanings == ItemMeanings(items)
<1>1. /\ len \in Nat /\ DOMAIN items = 1..len /\ DOMAIN more = 1..(len + 1)
      /\ more[len + 1] = item /\ \A k \in 1..len : more[k] = items[k] /\ items[k] \in Items(S)
      /\ more \in Seq(Items(S))
  OBVIOUS
<1> HIDE DEF more
<1>2. \A k \in 1..len : ItemText(items[k]) \in Texts(S) /\ ItemMeaning(items[k]) \in Texts(S)
  BY <1>1, ItemIs
<1>3. /\ texts = [k \in 1..len |-> ItemText(items[k])]
      /\ meanings = [k \in 1..len |-> ItemMeaning(items[k])]
  BY <1>1 DEF ItemTexts, ItemMeanings
<1> HIDE DEF len, texts, meanings
<1>4. /\ texts \in Seq(Texts(S)) /\ Len(texts) = len
      /\ meanings \in Seq(Texts(S)) /\ Len(meanings) = len
  BY <1>1, <1>2, <1>3
<1>5. ItemText(item) \in Texts(S) /\ ItemMeaning(item) \in Texts(S)
  BY ItemIs
<1>6. ItemTexts(more) = Append(texts, ItemText(item))
  <2>1. ItemTexts(more) = [k \in 1..(len + 1) |-> ItemText(more[k])]
    BY <1>1 DEF ItemTexts
  <2>2. Append(texts, ItemText(item)) =
          [k \in 1..(len + 1) |-> IF k = len + 1 THEN ItemText(item) ELSE texts[k]]
    BY <1>4, <1>5, AppendIs
  <2>3. \A k \in 1..(len + 1) :
          ItemText(more[k]) = IF k = len + 1 THEN ItemText(item) ELSE texts[k]
    BY <1>1, <1>3
  <2> QED
    BY <2>1, <2>2, <2>3
<1>7. ItemMeanings(more) = Append(meanings, ItemMeaning(item))
  <2>1. ItemMeanings(more) = [k \in 1..(len + 1) |-> ItemMeaning(more[k])]
    BY <1>1 DEF ItemMeanings
  <2>2. Append(meanings, ItemMeaning(item)) =
          [k \in 1..(len + 1) |-> IF k = len + 1 THEN ItemMeaning(item) ELSE meanings[k]]
    BY <1>4, <1>5, AppendIs
  <2>3. \A k \in 1..(len + 1) :
          ItemMeaning(more[k]) = IF k = len + 1 THEN ItemMeaning(item) ELSE meanings[k]
    BY <1>1, <1>3
  <2> QED
    BY <2>1, <2>2, <2>3
<1>8. \A i : TextOf(i) = FlattenSeq(ItemTexts(i)) /\ MeaningOf(i) = FlattenSeq(ItemMeanings(i))
  BY Zenon DEF TextOf, MeaningOf, ItemTexts, ItemMeanings
<1>9. /\ FlattenSeq(Append(texts, ItemText(item))) = FlattenSeq(texts) \o ItemText(item)
      /\ FlattenSeq(texts) \in Texts(S)
  BY <1>4, <1>5, FlattenAppend, Zenon
<1>10. /\ FlattenSeq(Append(meanings, ItemMeaning(item))) = FlattenSeq(meanings) \o ItemMeaning(item)
       /\ FlattenSeq(meanings) \in Texts(S)
  BY <1>4, <1>5, FlattenAppend, Zenon
<1> QED
  BY <1>1, <1>6, <1>7, <1>8, <1>9, <1>10, Zenon DEF more, texts, meanings

\* No items are the empty text, and mean it.
LEMMA NoItems == TextOf(<<>>) = <<>> /\ MeaningOf(<<>>) = <<>>
<1>1. /\ [i \in DOMAIN <<>> |-> ItemText(<<>>[i])] = <<>>
      /\ [i \in DOMAIN <<>> |-> ItemMeaning(<<>>[i])] = <<>>
  OBVIOUS
<1> QED
  BY <1>1, FlattenNothing, Zenon DEF TextOf, MeaningOf

\* Two texts joined, rune by rune.
LEMMA JoinIsAppend ==
  ASSUME NEW S, NEW s \in Texts(S), NEW c \in S, NEW d \in S
  PROVE  /\ s \o <<c>> = Append(s, c)
         /\ s \o <<c, d>> = Append(Append(s, c), d)
         /\ s \o <<>> = s
         /\ Append(s, c) \in Texts(S)
BY DEF Texts

\* A sequence grows from nothing to itself, one element after the other.
LEMMA GrowsTo ==
  ASSUME NEW S, NEW s \in Seq(S)
  PROVE  /\ Len(s) \in Nat /\ SubSeq(s, 1, 0) = <<>> /\ SubSeq(s, 1, Len(s)) = s
         /\ \A k \in 1..Len(s) :
              /\ SubSeq(s, 1, k) = Append(SubSeq(s, 1, k - 1), s[k])
              /\ SubSeq(s, 1, k - 1) \in Seq(S) /\ s[k] \in S
<1>1. Len(s) \in Nat /\ SubSeq(s, 1, 0) = <<>> /\ SubSeq(s, 1, Len(s)) = s
  OBVIOUS
<1>2. ASSUME NEW k \in 1..Len(s)
      PROVE  /\ SubSeq(s, 1, k) = Append(SubSeq(s, 1, k - 1), s[k])
             /\ SubSeq(s, 1, k - 1) \in Seq(S) /\ s[k] \in S
  <2> DEFINE less == SubSeq(s, 1, k - 1)
  <2>1. less \in Seq(S) /\ Len(less) = k - 1 /\ s[k] \in S
        /\ \A i \in 1..(k - 1) : less[i] = s[i]
    OBVIOUS
  <2>2. SubSeq(s, 1, k) = [i \in 1..k |-> s[i]]
    OBVIOUS
  <2> HIDE DEF less
  <2>3. Append(less, s[k]) = [i \in 1..k |-> IF i = k THEN s[k] ELSE less[i]]
    <3>1. Append(less, s[k]) =
            [i \in 1..(Len(less) + 1) |-> IF i = Len(less) + 1 THEN s[k] ELSE less[i]]
      BY <2>1, AppendIs
    <3>2. Len(less) + 1 = k
      BY <2>1
    <3> QED
      BY <3>1, <3>2, Zenon
  <2>4. \A i \in 1..k : s[i] = IF i = k THEN s[k] ELSE less[i]
    BY <2>1
  <2>5. SubSeq(s, 1, k) = Append(less, s[k])
    BY <2>2, <2>3, <2>4
  <2> QED
    BY <2>1, <2>5 DEF less
<1> QED
  BY <1>1, <1>2

\* The end of Unpack: what it had not written yet, or an error.
LEMMA UnpackIs ==
  ASSUME NEW str
  PROVE  Unpack(str) = IF ~AfterRunes(str).valid \/ AfterRunes(str).prev = <<Slash>> THEN Invalid
                       ELSE [valid |-> TRUE,
                             out |-> AfterRunes(str).out \o WithoutSlash(AfterRunes(str).prev)]
BY Zenon DEF Unpack, AfterRunes

\* Unpack is between two items: all it has written, and what it has not, is the meaning of
\* those it has read.
Ready(S, u, meaning) ==
  \E out \in Texts(S), prev \in Prevs(S) :
    u = Unpacking(out, prev) /\ prev # <<Slash>> /\ out \o WithoutSlash(prev) = meaning

\* With nothing left to write all is written.
LEMMA NothingPrevious ==
  ASSUME NEW S, NEW out \in Texts(S)
  PROVE  WithoutSlash(<<>>) = <<>> /\ out \o WithoutSlash(<<>>) = out
<1>1. WithoutSlash(<<>>) = <<>>
  BY DEF WithoutSlash
<1>2. out \o <<>> = out
  BY DEF Texts
<1> QED
  BY <1>1, <1>2

\* A rune that is no digit starts an item.
LEMMA ItemStarts ==
  ASSUME NEW S, Slash \in S, NEW text \in Texts(S), NEW meaning \in Texts(S),
         Ready(S, AfterRunes(text), meaning), NEW rune \in S, ~IsDigit(rune)
  PROVE  AfterRunes(Append(text, rune)) = Unpacking(meaning, <<rune>>)
<1>1. PICK out \in Texts(S), prev \in Prevs(S) :
        AfterRunes(text) = Unpacking(out, prev) /\ prev # <<Slash>> /\ out \o WithoutSlash(prev) = meaning
  BY DEF Ready
<1>2. AfterRunes(Append(text, rune)) = UnpackRune(Unpacking(out, prev), rune)
  BY <1>1, AfterRune
<1>3. RuneGives(out, prev, rune, UnpackRune(Unpacking(out, prev), rune))
  BY UnpackRuneDoes, Zenon
<1>4. CASE prev = <<>>
  <2>1. out = meaning
    BY <1>1, <1>4, NothingPrevious
  <2> QED
    BY <1>2, <1>3, <1>4, <2>1 DEF RuneGives
<1>5. CASE prev # <<>>
  BY <1>1, <1>2, <1>3, <1>5 DEF RuneGives
<1> QED
  BY <1>4, <1>5

\* From between two items Unpack reads the next one.
LEMMA ReadsItem ==
  ASSUME NEW S, Slash \in S, NEW text \in Texts(S), NEW meaning \in Texts(S),
         Ready(S, AfterRunes(text), meaning), NEW item \in Items(S)
  PROVE  Ready(S, AfterRunes(text \o ItemText(item)), meaning \o ItemMeaning(item))
<1> DEFINE c == item.char
           t == item.times
<1>1. /\ c \in S /\ t \in {Once} \cup (S \cap (0..9))
      /\ t = Once => ItemText(item) = Escaped(c) /\ ItemMeaning(item) = <<c>>
      /\ t # Once => /\ ItemText(item) = Escaped(c) \o <<t>>
                     /\ ItemMeaning(item) = [i \in 1..t |-> c]
      /\ ItemMeaning(item) \in Texts(S)
  BY ItemIs
<1> HIDE DEF c, t
<1>2. AfterRunes(text \o Escaped(c)) = Unpacking(meaning, Escaped(c))
  <2>1. CASE IsDigit(c) \/ c = Slash
    <3>1. ~IsDigit(Slash)
      BY RunesAssumption DEF IsDigit
    <3>2. AfterRunes(Append(text, Slash)) = Unpacking(meaning, <<Slash>>)
      BY <3>1, ItemStarts
    <3>3. Append(text, Slash) \in Texts(S)
      BY JoinIsAppend
    <3>4. AfterRunes(Append(Append(text, Slash), c)) = UnpackRune(Unpacking(meaning, <<Slash>>), c)
      BY <1>1, <3>2, <3>3, AfterRune
    <3>5. RuneGives(meaning, <<Slash>>, c, UnpackRune(Unpacking(meaning, <<Slash>>), c))
      BY UnpackRuneDoes, Zenon
    <3>6. AfterRunes(Append(Append(text, Slash), c)) = Unpacking(meaning, <<Slash, c>>)
      BY <2>1, <3>4, <3>5 DEF RuneGives
    <3>7. text \o <<Slash, c>> = Append(Append(text, Slash), c)
      BY <1>1, JoinIsAppend
    <3>8. Escaped(c) = <<Slash, c>>
      BY <2>1 DEF Escaped
    <3> QED
      BY <3>6, <3>7, <3>8
  <2>2. CASE ~(IsDigit(c) \/ c = Slash)
    <3>1. AfterRunes(Append(text, c)) = Unpacking(meaning, <<c>>)
      BY <1>1, <2>2, ItemStarts
    <3>2. text \o <<c>> = Append(text, c)
      BY <1>1, JoinIsAppend
    <3>3. Escaped(c) = <<c>>
      BY <2>2 DEF Escaped
    <3> QED
      BY <3>1, <3>2, <3>3
  <2> QED
    BY <2>1, <2>2
<1>3. /\ Escaped(c) \in Prevs(S) /\ Escaped(c) \notin {<<>>, <<Slash>>}
      /\ WithoutSlash(Escaped(c)) = <<c>>
  <2>1. Escaped(c) \in Prevs(S)
    BY <1>1 DEF Prevs
  <2> QED
    BY <2>1, EscapedIs
<1>4. CASE t = Once
  BY <1>1, <1>2, <1>3, <1>4 DEF Ready
<1>5. CASE t # Once
  <2>1. t \in S /\ t \in Nat /\ IsDigit(t)
    BY <1>1, <1>5 DEF IsDigit
  <2>2. Escaped(c) \in Texts(S)
    BY <1>1 DEF Escaped, Texts
  <2>3. text \o ItemText(item) = Append(text \o Escaped(c), t)
    <3>1. text \o (Escaped(c) \o <<t>>) = Append(text \o Escaped(c), t)
      BY <2>1, <2>2 DEF Texts
    <3>2. ItemText(item) = Escaped(c) \o <<t>>
      BY <1>1, <1>5
    <3> QED
      BY <3>1, <3>2, Zenon
  <2>4. text \o Escaped(c) \in Texts(S)
    BY <2>2, JoinTyped
  <2>5. AfterRunes(Append(text \o Escaped(c), t)) = UnpackRune(Unpacking(meaning, Escaped(c)), t)
    BY <1>2, <2>1, <2>4, AfterRune
  <2>6. RuneGives(meaning, Escaped(c), t, UnpackRune(Unpacking(meaning, Escaped(c)), t))
    BY UnpackRuneDoes, Zenon
  <2>7. UnpackRune(Unpacking(meaning, Escaped(c)), t) = Unpacking(meaning \o Repeat(<<c>>, t), <<>>)
    BY <1>3, <2>1, <2>6 DEF RuneGives
  <2>8. Repeat(<<c>>, t) = ItemMeaning(item)
    BY <1>1, <1>5, <2>1, Copies
  <2>9. AfterRunes(text \o ItemText(item)) = Unpacking(meaning \o ItemMeaning(item), <<>>)
    BY <2>3, <2>5, <2>7, <2>8
  <2>10. /\ meaning \o ItemMeaning(item) \in Texts(S)
         /\ (meaning \o ItemMeaning(item)) \o WithoutSlash(<<>>) = meaning \o ItemMeaning(item)
    BY <1>1, JoinTyped, NothingPrevious
  <2>11. <<>> \in Prevs(S) /\ <<>> # <<Slash>>
    BY DEF Prevs
  <2> QED
    BY <2>9, <2>10, <2>11 DEF Ready
<1> QED
  BY <1>4, <1>5

\* Unpack reads every packed string of any length, over any runes with the backslash.
THEOREM UnpackAlwaysReads ==
  ASSUME NEW S, Slash \in S, NEW items \in Seq(Items(S))
  PROVE  UnpackReads(items)
<1> DEFINE len == Len(items)
           First(k) == SubSeq(items, 1, k)
           T == {k \in 0..len : Ready(S, AfterRunes(TextOf(First(k))), MeaningOf(First(k)))}
<1>1. /\ len \in Nat /\ First(0) = <<>> /\ First(len) = items
      /\ \A k \in 1..len : /\ First(k) = Append(First(k - 1), items[k])
                           /\ First(k - 1) \in Seq(Items(S)) /\ items[k] \in Items(S)
  BY GrowsTo, Zenon
<1> HIDE DEF len, First
<1>2. 0 \in T
  <2>1. AfterRunes(TextOf(First(0))) = Unpacking(<<>>, <<>>) /\ MeaningOf(First(0)) = <<>>
    BY <1>1, NoItems, AfterNothing
  <2>2. <<>> \in Texts(S) /\ <<>> \o WithoutSlash(<<>>) = <<>>
    BY JoinTyped, NothingPrevious
  <2>3. <<>> \in Prevs(S) /\ <<>> # <<Slash>>
    BY DEF Prevs
  <2>4. Ready(S, Unpacking(<<>>, <<>>), <<>>)
    BY <2>2, <2>3 DEF Ready
  <2> QED
    BY <1>1, <2>1, <2>4
<1>3. ASSUME NEW k \in 1..len, k - 1 \in T PROVE k \in T
  <2>1. Ready(S, AfterRunes(TextOf(First(k - 1))), MeaningOf(First(k - 1)))
    BY <1>3
  <2>2. /\ TextOf(First(k)) = TextOf(First(k - 1)) \o ItemText(items[k])
        /\ MeaningOf(First(k)) = MeaningOf(First(k - 1)) \o ItemMeaning(items[k])
        /\ TextOf(First(k - 1)) \in Texts(S) /\ MeaningOf(First(k - 1)) \in Texts(S)
    BY <1>1, AppendItem
  <2>3. Ready(S, AfterRunes(TextOf(First(k))), MeaningOf(First(k)))
    BY <1>1, <2>1, <2>2, ReadsItem
  <2>4. k \in 0..len
    BY <1>1
  <2> QED
    BY <2>3, <2>4
<1> HIDE DEF T
<1>4. len \in T
  <2>1. \A k \in 0..len : k \in T
    BY <1>1, <1>2, <1>3, UpTo
  <2> QED
    BY <1>1, <2>1
<1>5. Ready(S, AfterRunes(TextOf(items)), MeaningOf(items))
  BY <1>1, <1>4 DEF T
<1>6. PICK out \in Texts(S), prev \in Prevs(S) :
        /\ AfterRunes(TextOf(items)) = Unpacking(out, prev)
        /\ prev # <<Slash>> /\ out \o WithoutSlash(prev) = MeaningOf(items)
  BY <1>5 DEF Ready
<1>7. /\ Unpacking(out, prev).valid = TRUE /\ Unpacking(out, prev).out = out
      /\ Unpacking(out, prev).prev = prev
  BY DEF Unpacking
<1>8. Unpack(TextOf(items)) = [valid |-> TRUE, out |-> out \o WithoutSlash(prev)]
  BY <1>6, <1>7, UnpackIs
<1> QED
  BY <1>6, <1>8 DEF UnpackReads

\* What Unpack has read, when it has refused nothing: some items, and the part it has not
\* written yet.
HasRead(S, str, u) ==
  u.valid => \E items \in Seq(Items(S)) : TextOf(items) \o u.prev = str

\* One more rune is read, or refused.
LEMMA ReadsRune ==
  ASSUME NEW S, Slash \in S, NEW str \in Texts(S), NEW rune \in S,
         HasRead(S, str, AfterRunes(str))
  PROVE  HasRead(S, Append(str, rune), AfterRunes(Append(str, rune)))
<1> DEFINE u == AfterRunes(str)
           next == AfterRunes(Append(str, rune))
<1>1. next = UnpackRune(u, rune) /\ u \in Unpackings(S)
  BY AfterRune
<1> HIDE DEF u, next
<1>2. CASE u = Invalid
  <2>1. Invalid.valid = FALSE
    BY DEF Invalid
  <2>2. next = Invalid
    BY <1>1, <1>2, <2>1 DEF UnpackRune
  <2> QED
    BY <2>1, <2>2 DEF HasRead, next
<1>3. CASE u # Invalid
  <2>1. PICK out \in Texts(S), prev \in Prevs(S) : u = Unpacking(out, prev)
    BY <1>1, <1>3 DEF Unpackings
  <2>2. \A o, p : Unpacking(o, p).valid = TRUE /\ Unpacking(o, p).prev = p
    BY DEF Unpacking
  <2>3. PICK items \in Seq(Items(S)) : TextOf(items) \o prev = str
    BY <2>1, <2>2 DEF HasRead, u
  <2>4. RuneGives(out, prev, rune, next)
    <3>1. RuneGives(out, prev, rune, UnpackRune(Unpacking(out, prev), rune))
      BY UnpackRuneDoes, Zenon
    <3> QED
      BY <1>1, <2>1, <3>1, Zenon
  <2>5. TextOf(items) \in Texts(S)
    <3>1. Item(Slash, Once) \in Items(S)
      BY DEF Items, Item
    <3> QED
      BY <3>1, AppendItem
  <2>6. /\ TextOf(items) \o <<rune>> = Append(TextOf(items), rune)
        /\ TextOf(items) \o <<Slash, rune>> = Append(Append(TextOf(items), Slash), rune)
        /\ TextOf(items) \o <<Slash>> = Append(TextOf(items), Slash)
        /\ TextOf(items) \o <<>> = TextOf(items)
    BY <2>5, JoinIsAppend
  <2>7. Invalid.valid = FALSE
    BY DEF Invalid
  <2>8. CASE prev = <<>>
    <3>1. next = IF IsDigit(rune) THEN Invalid ELSE Unpacking(out, <<rune>>)
      BY <2>4, <2>8 DEF RuneGives
    <3>2. TextOf(items) \o <<rune>> = Append(str, rune)
      BY <2>3, <2>6, <2>8
    <3> QED
      BY <2>2, <2>7, <3>1, <3>2 DEF HasRead, next
  <2>9. CASE prev = <<Slash>>
    <3>1. next = IF IsDigit(rune) \/ rune = Slash THEN Unpacking(out, <<Slash, rune>>) ELSE Invalid
      BY <2>4, <2>9 DEF RuneGives
    <3>2. TextOf(items) \o <<Slash, rune>> = Append(str, rune)
      BY <2>3, <2>6, <2>9
    <3> QED
      BY <2>2, <2>7, <3>1, <3>2 DEF HasRead, next
  <2>10. CASE prev \notin {<<>>, <<Slash>>}
    <3>1. PICK c \in S : prev = Escaped(c)
      BY <2>10 DEF Prevs
    <3>2. next = IF IsDigit(rune) THEN Unpacking(out \o Repeat(WithoutSlash(prev), rune), <<>>)
                 ELSE Unpacking(out \o WithoutSlash(prev), <<rune>>)
      BY <2>4, <2>10 DEF RuneGives
    <3>3. Escaped(c) \in Texts(S)
      BY DEF Escaped, Texts
    <3>4. CASE IsDigit(rune)
      <4> DEFINE item == Item(c, rune)
      <4>1. rune # Once
        BY <3>4, RunesAssumption DEF IsDigit
      <4>2. item \in Items(S) /\ item.char = c /\ item.times = rune
        BY <3>4 DEF Items, Item, IsDigit
      <4>3. ItemText(item) = Escaped(c) \o <<rune>>
        BY <4>1, <4>2, ItemIs
      <4> HIDE DEF item
      <4>4. Append(items, item) \in Seq(Items(S))
            /\ TextOf(Append(items, item)) = TextOf(items) \o ItemText(item)
        BY <4>2, AppendItem
      <4>5. TextOf(items) \o (Escaped(c) \o <<rune>>) = Append(TextOf(items) \o Escaped(c), rune)
        BY <2>5, <3>3 DEF Texts
      <4>6. TextOf(Append(items, item)) = Append(str, rune)
        BY <2>3, <3>1, <4>3, <4>4, <4>5, Zenon
      <4>7. Append(str, rune) \o <<>> = Append(str, rune)
        BY JoinIsAppend DEF Texts
      <4>8. next = Unpacking(out \o Repeat(WithoutSlash(prev), rune), <<>>)
        BY <3>2, <3>4
      <4>9. next.prev = <<>>
        BY <2>2, <4>8
      <4>10. TextOf(Append(items, item)) \o next.prev = Append(str, rune)
        BY <4>6, <4>7, <4>9, Zenon
      <4> QED
        BY <4>4, <4>10 DEF HasRead, next
    <3>5. CASE ~IsDigit(rune)
      <4> DEFINE item == Item(c, Once)
      <4>1. item \in Items(S) /\ item.char = c /\ item.times = Once
        BY DEF Items, Item
      <4>2. ItemText(item) = Escaped(c)
        BY <4>1, ItemIs
      <4> HIDE DEF item
      <4>3. Append(items, item) \in Seq(Items(S))
            /\ TextOf(Append(items, item)) = TextOf(items) \o ItemText(item)
        BY <4>1, AppendItem
      <4>4. TextOf(Append(items, item)) = str
        BY <2>3, <3>1, <4>2, <4>3, Zenon
      <4>5. str \o <<rune>> = Append(str, rune)
        BY JoinIsAppend
      <4>6. next = Unpacking(out \o WithoutSlash(prev), <<rune>>)
        BY <3>2, <3>5
      <4>7. next.prev = <<rune>>
        BY <2>2, <4>6
      <4>8. TextOf(Append(items, item)) \o next.prev = Append(str, rune)
        BY <4>4, <4>5, <4>7, Zenon
      <4> QED
        BY <4>3, <4>8 DEF HasRead, next
    <3> QED
      BY <3>4, <3>5
  <2> QED
    BY <2>8, <2>9, <2>10
<1> QED
  BY <1>2, <1>3

\* And Unpack takes nothing else: what it takes is the text of some items over the runes of
\* the string.
THEOREM UnpackAlwaysRefuses ==
  ASSUME NEW S, Slash \in S, NEW str \in Seq(S)
  PROVE  UnpackRefuses(str, Seq(Items(S)))
<1> DEFINE len == Len(str)
           First(k) == SubSeq(str, 1, k)
           T == {k \in 0..len : HasRead(S, First(k), AfterRunes(First(k)))}
<1>1. /\ len \in Nat /\ First(0) = <<>> /\ First(len) = str
      /\ \A k \in 1..len : /\ First(k) = Append(First(k - 1), str[k])
                           /\ First(k - 1) \in Seq(S) /\ str[k] \in S
  BY GrowsTo, Zenon
<1> HIDE DEF len, First
<1>2. 0 \in T
  <2>1. AfterRunes(<<>>) = Unpacking(<<>>, <<>>) /\ TextOf(<<>>) = <<>>
    BY NoItems, AfterNothing
  <2>2. <<>> \in Seq(Items(S)) /\ <<>> \o <<>> = <<>> /\ Unpacking(<<>>, <<>>).prev = <<>>
    BY DEF Unpacking
  <2>3. HasRead(S, <<>>, Unpacking(<<>>, <<>>))
    BY <2>1, <2>2 DEF HasRead
  <2> QED
    BY <1>1, <2>1, <2>3
<1>3. ASSUME NEW k \in 1..len, k - 1 \in T PROVE k \in T
  <2>1. HasRead(S, First(k - 1), AfterRunes(First(k - 1)))
    BY <1>3
  <2>2. First(k - 1) \in Texts(S) /\ str[k] \in S
    BY <1>1 DEF Texts
  <2>3. HasRead(S, First(k), AfterRunes(First(k)))
    BY <1>1, <2>1, <2>2, ReadsRune
  <2>4. k \in 0..len
    BY <1>1
  <2> QED
    BY <2>3, <2>4
<1> HIDE DEF T
<1>4. len \in T
  <2>1. \A k \in 0..len : k \in T
    BY <1>1, <1>2, <1>3, UpTo
  <2> QED
    BY <1>1, <2>1
<1>5. HasRead(S, str, AfterRunes(str))
  BY <1>1, <1>4 DEF T
<1> DEFINE u == AfterRunes(str)
<1>6. u \in Unpackings(S)
  BY AfterRune DEF Texts
<1> HIDE DEF u
<1>7. ASSUME Unpack(str).valid PROVE \E items \in Seq(Items(S)) : TextOf(items) = str
  <2>1. Invalid.valid = FALSE
    BY DEF Invalid
  <2>2. u.valid /\ u.prev # <<Slash>>
    BY <1>7, <2>1, UnpackIs DEF u
  <2>3. u # Invalid
    BY <2>1, <2>2
  <2>4. PICK out \in Texts(S), prev \in Prevs(S) : u = Unpacking(out, prev)
    BY <1>6, <2>3 DEF Unpackings
  <2>5. u.prev = prev
    BY <2>4 DEF Unpacking
  <2>6. PICK items \in Seq(Items(S)) : TextOf(items) \o prev = str
    BY <1>5, <2>2, <2>5 DEF HasRead, u
  <2>7. CASE prev = <<>>
    <3>1. Item(Slash, Once) \in Items(S)
      BY DEF Items, Item
    <3>2. TextOf(items) \in Texts(S)
      BY <3>1, AppendItem
    <3>3. TextOf(items) \o <<>> = TextOf(items)
      BY <3>2, JoinIsAppend
    <3> QED
      BY <2>6, <2>7, <3>3
  <2>8. CASE prev # <<>>
    <3>1. PICK c \in S : prev = Escaped(c)
      BY <2>2, <2>5, <2>8 DEF Prevs
    <3> DEFINE item == Item(c, Once)
    <3>2. item \in Items(S) /\ item.char = c /\ item.times = Once
      BY DEF Items, Item
    <3>3. ItemText(item) = Escaped(c)
      BY <3>2, ItemIs
    <3> HIDE DEF item
    <3>4. Append(items, item) \in Seq(Items(S))
          /\ TextOf(Append(items, item)) = TextOf(items) \o ItemText(item)
      BY <3>2, AppendItem
    <3> QED
      BY <2>6, <3>1, <3>3, <3>4, Zenon
  <2> QED
    BY <2>7, <2>8
<1> QED
  BY <1>7 DEF UnpackRefuses

\* No item is written with nothing.
LEMMA ItemsFit ==
  ASSUME NEW S, Slash \in S, NEW items \in Seq(Items(S))
  PROVE  Len(items) <= Len(TextOf(items))
<1> DEFINE len == Len(items)
           First(k) == SubSeq(items, 1, k)
           T == {k \in 0..len : TextOf(First(k)) \in Texts(S) /\ Len(TextOf(First(k))) >= k}
<1>1. /\ len \in Nat /\ First(0) = <<>> /\ First(len) = items
      /\ \A k \in 1..len : /\ First(k) = Append(First(k - 1), items[k])
                           /\ First(k - 1) \in Seq(Items(S)) /\ items[k] \in Items(S)
  BY GrowsTo, Zenon
<1> HIDE DEF len, First
<1>2. 0 \in T
  <2>1. TextOf(First(0)) = <<>>
    BY <1>1, NoItems
  <2> QED
    BY <1>1, <2>1, JoinTyped
<1>3. ASSUME NEW k \in 1..len, k - 1 \in T PROVE k \in T
  <2> DEFINE s == TextOf(First(k - 1))
             t == ItemText(items[k])
  <2>1. s \in Texts(S) /\ Len(s) >= k - 1
    BY <1>3
  <2>2. TextOf(First(k)) = s \o t
    BY <1>1, AppendItem
  <2>3. t \in Texts(S) /\ (t = Escaped(items[k].char) \/ t = Escaped(items[k].char) \o <<items[k].times>>)
    BY <1>1, ItemIs
  <2>4. Escaped(items[k].char) \in Texts(S) /\ Len(Escaped(items[k].char)) >= 1
    <3>1. items[k].char \in S
      BY <1>1, ItemIs
    <3> QED
      BY <3>1 DEF Escaped, Texts
  <2>5. Len(t) >= 1
    <3>1. CASE t = Escaped(items[k].char)
      BY <2>4, <3>1
    <3>2. CASE t # Escaped(items[k].char)
      <4>1. items[k].times # Once
        BY <1>1, <3>2, ItemIs
      <4>2. items[k].times \in S /\ t = Escaped(items[k].char) \o <<items[k].times>>
        BY <1>1, <4>1, ItemIs
      <4>3. \A e \in Texts(S), d \in S : Len(e \o <<d>>) = Len(e) + 1
        BY DEF Texts
      <4>4. Len(t) = Len(Escaped(items[k].char)) + 1
        BY <2>4, <4>2, <4>3
      <4>5. Len(Escaped(items[k].char)) \in Nat
        BY <2>4 DEF Texts
      <4> QED
        BY <4>4, <4>5
    <3> QED
      BY <3>1, <3>2
  <2> HIDE DEF s, t
  <2>6. s \o t \in Texts(S) /\ Len(s \o t) = Len(s) + Len(t) /\ Len(s) \in Nat /\ Len(t) \in Nat
    BY <2>1, <2>3 DEF Texts
  <2>7. Len(s \o t) >= k
    BY <1>1, <2>1, <2>5, <2>6
  <2>8. k \in 0..len
    BY <1>1
  <2> QED
    BY <2>2, <2>6, <2>7, <2>8
<1> HIDE DEF T
<1>4. len \in T
  <2>1. \A k \in 0..len : k \in T
    BY <1>1, <1>2, <1>3, UpTo
  <2> QED
    BY <1>1, <2>1
<1> QED
  BY <1>1, <1>4 DEF T, len

(**************************************************************************)
(* The queries of MCTools, for every length of the seconds and the days.  *)
(**************************************************************************)

\* The table of a query is one of the events.
TableInv ==
  /\ tool \in {"copy", "env"} \cup Functions
  /\ tool = "query" => input \in SUBSET MCEvents /\ IsFiniteSet(input)

\* A table of the run is a set of its events.
LEMMA TableInvHolds == Spec => []TableInv
<1>1. Init => TableInv
  BY FS_EmptySet DEF Init, TableInv, Functions
<1>2. TableInv /\ [Next]_vars => TableInv'
  <2> SUFFICES ASSUME TableInv, [Next]_vars PROVE TableInv'
    OBVIOUS
  <2>1. CASE tool' = tool /\ input' = input
    BY <2>1 DEF TableInv
  <2>2. CASE Grow
    <3>1. tool' = tool
      BY <2>2 DEF Grow
    <3>2. CASE tool = "query"
      <4>1. PICK e \in MCEvents : input' = input \cup {e}
        BY <2>2, <3>2 DEF Grow
      <4>2. IsFiniteSet(input \cup {e})
        BY <3>2, FS_AddElement DEF TableInv
      <4> HIDE DEF MCEvents
      <4> QED
        BY <3>1, <4>1, <4>2 DEF TableInv
    <3> QED
      BY <3>1, <3>2 DEF TableInv
  <2> QED
    BY <2>1, <2>2 DEF Next, Done, vars
<1> QED
  BY <1>1, <1>2, PTL DEF Spec

\* The events have the fields that the queries name, all numbers.
LEMMA EventNumbers ==
  ASSUME NEW e \in MCEvents
  PROVE  /\ DOMAIN e = {"UserID", "StartDate", "EndDate", "Title"}
         /\ e.StartDate \in Int /\ e.EndDate \in Int /\ e.Title \in Int
<1>1. PICK u \in {u1, u2}, t \in MCStarts, d \in {0, 2} :
        e = [UserID |-> u, StartDate |-> t, EndDate |-> t + d, Title |-> (t + d) % 3]
  BY DEF MCEvents
<1>2. t \in Int /\ d \in Int /\ t + d \in Int /\ (t + d) % 3 \in Int
  BY DEF MCStarts
<1> QED
  BY <1>1, <1>2

\* Every user gets the events of one, two and three days exactly.
THEOREM PeriodsAreExactHolds == Spec => []PeriodsAreExact
<1>1. TableInv => PeriodsAreExact
  <2> SUFFICES ASSUME TableInv, tool = "query",
                      NEW u \in {u1, u2}, NEW d \in 0..3, NEW days \in 1..3
               PROVE  PeriodIsExact(input, u, d, days)
    BY DEF PeriodsAreExact
  <2>1. input \subseteq MCEvents /\ IsFiniteSet(input)
    BY DEF TableInv
  <2>2. DatedEvents(input)
    BY <2>1, EventNumbers DEF DatedEvents
  <2>3. Failed \notin Seq(input)
    <3> HIDE DEF MCEvents
    <3> QED
      BY <2>1, FailedAssumption
  <2>4. d \in Int /\ days \in Nat
    OBVIOUS
  <2> QED
    BY <2>2, <2>3, <2>4, PeriodAlwaysExact
<1> QED
  BY <1>1, TableInvHolds, PTL

\* Multiples of a second are whole seconds.
LEMMA MultiplesAreWhole ==
  ASSUME NEW k \in Int
  PROVE  k * PerSecond \in Int /\ (k * PerSecond) % PerSecond = 0
<1>1. PerSecond \in Int /\ PerSecond > 0
  BY UnitsAssumption
<1>2. (k * PerSecond) % PerSecond = 0
  BY <1>1
<1> QED
  BY <1>1, <1>2

\* What the conditions compare a field with.
MCSamples == {u1, u2} \cup Int

\* A condition with a list of samples.
LEMMA ListOfSamples ==
  ASSUME NEW V, NEW field \in EventFields, NEW type \in {"IN", "NOT IN"}, NEW list \in Seq(V)
  PROVE  Condition(field, type, list) \in Conditions(V)
<1>1. Condition(field, type, list)
        \in [field: EventFields, type: {"IN", "NOT IN"}, sample: Seq(V)]
  BY DEF Condition
<1> QED
  BY <1>1 DEF Conditions

\* The conditions are queries of the storages, and those that compare times compare
\* them with whole seconds.
LEMMA ConditionsAsk ==
  ASSUME NEW c \in MCConds
  PROVE  /\ c \in Conditions(MCSamples)
         /\ (c.type \in {"<", "<=", ">", ">="} /\ c.field \in TimeFields) =>
              /\ c.field \in {"StartDate", "EndDate"}
              /\ c.sample \in Int /\ c.sample % PerSecond = 0
<1>1. /\ 4 * PerSecond \in Int /\ (4 * PerSecond) % PerSecond = 0
      /\ 2 * PerSecond \in Int /\ (2 * PerSecond) % PerSecond = 0
  BY MultiplesAreWhole
<1>2. /\ u1 \in MCSamples /\ 4 * PerSecond \in MCSamples /\ 2 * PerSecond \in MCSamples
      /\ 2 \in MCSamples
      /\ <<u1, u2>> \in Seq(MCSamples) /\ <<u2>> \in Seq(MCSamples)
      /\ <<0>> \in Seq(MCSamples) /\ <<>> \in Seq(MCSamples)
  BY <1>1 DEF MCSamples
<1>3. "UserID" \in EventFields /\ "StartDate" \in EventFields /\ "EndDate" \in EventFields
      /\ "Title" \in EventFields
  BY DEF EventFields, TimeFields, StringFields
<1>4. \A type \in {"=", "!=", "<", "<=", ">", ">="} : type \in Single
  BY DEF Single
<1> DEFINE x == 4 * PerSecond
           y == 2 * PerSecond
<1> HIDE DEF x, y
<1>5. c \in MCConds
  OBVIOUS
<1>6. \/ c = Condition("UserID", "=", u1)
      \/ c = Condition("UserID", "IN", <<u1, u2>>)
      \/ c = Condition("UserID", "NOT IN", <<u2>>)
      \/ c = Condition("Title", "IN", <<0>>)
      \/ c = Condition("StartDate", "<", x)
      \/ c = Condition("StartDate", ">=", y)
      \/ c = Condition("StartDate", ">", y)
      \/ c = Condition("EndDate", "<=", x)
      \/ c = Condition("EndDate", "!=", x)
      \/ c = Condition("Title", "IN", <<>>)
      \/ c = Condition("Title", "<", 2)
  BY <1>5 DEF MCConds, x, y
<1>7. c \in Conditions(MCSamples)
  BY <1>2, <1>3, <1>4, <1>6, OneSample, ListOfSamples DEF x, y
<1>8. x \in Int /\ x % PerSecond = 0 /\ y \in Int /\ y % PerSecond = 0
  BY <1>1 DEF x, y
<1>9. (c.type \in {"<", "<=", ">", ">="} /\ c.field \in TimeFields) =>
        c.field \in {"StartDate", "EndDate"} /\ c.sample \in {x, y}
  <2>1. \/ c.type \in {"=", "!=", "IN", "NOT IN"}
        \/ c.field = "StartDate" /\ c.sample = x
        \/ c.field = "StartDate" /\ c.sample = y
        \/ c.field = "EndDate" /\ c.sample = x
        \/ c.field = "Title"
    <3>1. \A field, type, sample :
            c = Condition(field, type, sample) =>
              c.field = field /\ c.type = type /\ c.sample = sample
      BY DEF Condition
    <3> HIDE DEF TimeFields
    <3>2. /\ c = Condition("UserID", "=", u1) => c.type = "="
          /\ c = Condition("UserID", "IN", <<u1, u2>>) => c.type = "IN"
          /\ c = Condition("UserID", "NOT IN", <<u2>>) => c.type = "NOT IN"
          /\ c = Condition("Title", "IN", <<0>>) => c.type = "IN"
          /\ c = Condition("StartDate", "<", x) => c.field = "StartDate" /\ c.sample = x
          /\ c = Condition("StartDate", ">=", y) => c.field = "StartDate" /\ c.sample = y
          /\ c = Condition("StartDate", ">", y) => c.field = "StartDate" /\ c.sample = y
          /\ c = Condition("EndDate", "<=", x) => c.field = "EndDate" /\ c.sample = x
          /\ c = Condition("EndDate", "!=", x) => c.type = "!="
          /\ c = Condition("Title", "IN", <<>>) => c.type = "IN"
          /\ c = Condition("Title", "<", 2) => c.field = "Title"
      BY <3>1, Zenon
    <3> QED
      BY <1>6, <3>2
  <2> QED
    BY <2>1 DEF TimeFields
<1> QED
  BY <1>7, <1>8, <1>9

\* The lists of at most two conditions of the run are sequences of conditions.
LEMMA ShortLists ==
  ASSUME NEW S, NEW a \in S, NEW b \in S
  PROVE  <<>> \in Seq(S) /\ <<a>> \in Seq(S) /\ <<a, b>> \in Seq(S)
OBVIOUS

\* The orders are by fields the events have.
LEMMA OrdersAreOrders ==
  ASSUME NEW order \in MCOrders
  PROVE  /\ order \in Orders
         /\ \A i \in 1..Len(order) : order[i].field \in {"StartDate", "EndDate", "Title"}
<1> DEFINE S == [field: {"StartDate", "EndDate", "Title"}, direction: {"ASC", "DESC"}]
<1>1. /\ Sort("StartDate", "ASC") \in S /\ Sort("EndDate", "ASC") \in S
      /\ Sort("StartDate", "DESC") \in S /\ Sort("Title", "DESC") \in S
  BY DEF Sort
<1>2. S \subseteq SortFields /\ \A s \in S : s.field \in {"StartDate", "EndDate", "Title"}
  BY DEF SortFields, StringFields, TimeFields
<1> HIDE DEF S
<1>3. \/ order = <<>>
      \/ order = <<Sort("StartDate", "ASC"), Sort("EndDate", "ASC")>>
      \/ order = <<Sort("StartDate", "DESC")>>
      \/ order = <<Sort("Title", "DESC"), Sort("EndDate", "ASC")>>
  BY DEF MCOrders, PeriodSort
<1>4. order \in Seq(S)
  BY <1>1, <1>3, ShortLists
<1>5. order \in Seq(SortFields)
  BY <1>2, <1>4
<1> QED
  BY <1>2, <1>4, <1>5 DEF Orders

\* The two storages find the same events for the queries, and in the same order but for
\* the collation.
THEOREM QueriesAgreeHolds == Spec => []QueriesAgree
<1>1. TableInv => QueriesAgree
  <2> SUFFICES ASSUME TableInv, tool = "query",
                      NEW search \in MCSearches, NEW order \in MCOrders
               PROVE  StoragesAgree(input, search, order)
    BY DEF QueriesAgree
  <2>1. input \subseteq MCEvents /\ IsFiniteSet(input)
    BY DEF TableInv
  <2>2. search \in Seq(MCConds)
    <3> HIDE DEF MCConds
    <3>1. \/ search = <<>>
          \/ \E c \in MCConds : search = <<c>>
          \/ \E c, d \in MCConds : search = <<c, d>>
      BY DEF MCSearches
    <3>2. <<>> \in Seq(MCConds)
      OBVIOUS
    <3> QED
      BY <3>1, <3>2, ShortLists
  <2>3. MCConds \subseteq Conditions(MCSamples)
    BY ConditionsAsk
  <2>4. search \in Seq(Conditions(MCSamples))
    BY <2>2, <2>3
  <2>5. order \in Orders
    BY OrdersAreOrders
  <2>6. \A e \in input : /\ DOMAIN e = {"UserID", "StartDate", "EndDate", "Title"}
                         /\ e.StartDate \in Int /\ e.EndDate \in Int /\ e.Title \in Int
    BY <2>1, EventNumbers
  <2>7. CanAsk(input, search, order)
    <3>1. \A k \in 1..Len(search) : search[k] \in MCConds
      BY <2>2
    <3>2. \A k \in 1..Len(search) :
            (search[k].type \in {"<", "<=", ">", ">="} /\ search[k].field \in TimeFields) =>
              /\ search[k].field \in {"StartDate", "EndDate"}
              /\ search[k].sample \in Int /\ search[k].sample % PerSecond = 0
      BY <3>1, ConditionsAsk
    <3>3. \A e \in input : \A f \in {"StartDate", "EndDate", "Title"} :
            f \in DOMAIN e /\ e[f] \in Int
      BY <2>6
    <3>4. \A i \in 1..Len(order) : order[i].field \in {"StartDate", "EndDate", "Title"}
      BY OrdersAreOrders
    <3> QED
      BY <3>2, <3>3, <3>4 DEF CanAsk
  <2> HIDE DEF MCConds
  <2> QED
    BY <2>1, <2>4, <2>5, <2>7, StoragesAlwaysAgree
<1> QED
  BY <1>1, TableInvHolds, PTL

(**************************************************************************)
(* The structs of MCTools.                                                *)
(**************************************************************************)

\* The strings of the inputs are made of these characters.
MCChars == {"a", "b", "$", "zh"}

SoundFields == {f \in MCFields(OneRule) \cup MCFields(TwoRules) : SoundField(f, MCChars)}

\* The strings of the run are sequences of its characters.
LEMMA StringsAreStrings ==
  /\ MCStrings \subseteq Seq(MCChars)
  /\ <<>> \in Seq(Seq(MCChars)) /\ <<<<"a">>, <<"a", "b">>>> \in Seq(Seq(MCChars))
<1>1. "a" \in MCChars /\ "b" \in MCChars /\ "$" \in MCChars /\ "zh" \in MCChars
  BY DEF MCChars
<1> HIDE DEF MCChars
<1>2. <<>> \in Seq(MCChars) /\ <<"a">> \in Seq(MCChars) /\ <<"a", "b">> \in Seq(MCChars)
  BY <1>1
<1>5. <<"zh">> \in Seq(MCChars) /\ <<"$", "b">> \in Seq(MCChars)
  BY <1>1
<1>6. MCStrings \subseteq Seq(MCChars)
  BY <1>2, <1>5, Zenon DEF MCStrings
<1> DEFINE Strings == Seq(MCChars)
           a == <<"a">>
           ab == <<"a", "b">>
<1>3. a \in Strings /\ ab \in Strings
  BY <1>2
<1> HIDE DEF Strings, a, ab
<1>4. <<>> \in Seq(Strings) /\ <<a, ab>> \in Seq(Strings)
  BY <1>3
<1> QED
  BY <1>4, <1>6 DEF Strings, a, ab

\* The constraints are numbers, or nothing, when they are read as one, and expressions,
\* or nothing, when they are read as those.
LEMMA RulesAreSound ==
  ASSUME NEW r \in MCRules
  PROVE  SoundArg(r)
<1>1. MCArgs # {} /\ \A g \in MCArgs : g.int \in Int \cup {BadArg}
  BY DEF MCArgs
<1>2. (CHOOSE g \in MCArgs : TRUE) \in MCArgs
  BY <1>1
<1>3. r.arg \in MCArgs
  <2> HIDE DEF MCArgs
  <2> QED
    BY <1>2 DEF MCRules
<1> DEFINE langs == {{<<"a">>}, {<<>>, <<"a">>}, {<<"$">>}}
<1>7. \A g \in MCArgs :
         \/ g.regexp = BadArg
         \/ \E lang \in langs, tail \in Tails : g.regexp = Expression(lang, tail)
  <2> DEFINE E1 == Expression({<<"a">>}, "other")
             E2 == Expression({<<>>, <<"a">>}, "dollar")
             E3 == Expression({<<"$">>}, "escaped dollar")
  <2>1. \A e \in {E1, E2, E3} : \E lang \in langs, tail \in Tails : e = Expression(lang, tail)
    <3> HIDE DEF langs
    <3>1. {<<"a">>} \in langs /\ {<<>>, <<"a">>} \in langs /\ {<<"$">>} \in langs
      BY DEF langs
    <3> QED
      BY <3>1, Zenon DEF Tails
  <2> HIDE DEF langs, E1, E2, E3
  <2>2. \A g \in MCArgs : g.regexp \in {E1, E2, E3, BadArg}
    <3> DEFINE Arg(int, ints, strings, e) ==
                 [int |-> int, ints |-> ints, strings |-> strings, regexp |-> e]
               A1 == Arg(1, {1}, {<<"a">>}, E1)
               A2 == Arg(BadArg, {0, 1}, {<<"a">>, <<>>}, E2)
               A3 == Arg(BadArg, BadArg, {<<"a", "b">>}, E3)
               A4 == Arg(BadArg, BadArg, {<<"zh">>}, BadArg)
    <3>1. MCArgs = {A1, A2, A3, A4}
      BY Zenon DEF MCArgs, E1, E2, E3
    <3>2. A1.regexp = E1 /\ A2.regexp = E2 /\ A3.regexp = E3 /\ A4.regexp = BadArg
      OBVIOUS
    <3> HIDE DEF A1, A2, A3, A4
    <3> QED
      BY <3>1, <3>2
  <2> QED
    BY <2>1, <2>2
<1> HIDE DEF langs
<1>4. \A g \in MCArgs : g.regexp \in {BadArg} \cup [lang: langs, tail: Tails]
  <2>1. \A lang \in langs, tail \in Tails : Expression(lang, tail) \in [lang: langs, tail: Tails]
    BY DEF Expression
  <2> QED
    BY <1>7, <2>1
<1>5. r.arg.regexp \in {BadArg} \cup [lang: langs, tail: Tails]
  BY <1>3, <1>4, Zenon
<1>6. r.arg.int \in Int \cup {BadArg}
  BY <1>1, <1>3, Zenon
<1> QED
  BY <1>5, <1>6 DEF SoundArg

\* Its tags are sequences of rules with sound arguments.
LEMMA TagsAreSound ==
  ASSUME NEW tag \in OneRule \cup TwoRules, tag # NoTag
  PROVE  tag \in Seq(MCRules) /\ \A j \in DOMAIN tag : SoundArg(tag[j])
<1>1. tag \in Seq(MCRules)
  <2>1. CASE tag \in OneRule
    <3>1. PICK r \in MCRules : tag = <<r>>
      BY <2>1 DEF OneRule
    <3> HIDE DEF MCRules
    <3> QED
      BY <3>1
  <2>2. CASE tag \in TwoRules
    <3>1. PICK r \in MCRules, s \in MCRules : tag = <<r, s>>
      BY <2>2 DEF TwoRules
    <3> HIDE DEF MCRules
    <3> QED
      BY <3>1
  <2> QED
    BY <2>1, <2>2
<1>2. \A j \in DOMAIN tag : tag[j] \in MCRules
  BY <1>1
<1> QED
  BY <1>1, <1>2, RulesAreSound

\* So its fields are ones that the theorem is about.
LEMMA FieldsAreSound ==
  ASSUME NEW f \in MCFields(OneRule) \cup MCFields(TwoRules)
  PROVE  f \in SoundFields
<1>1. /\ f.kind \in Kinds /\ f.rules \in OneRule \cup TwoRules /\ f.value \in MCValues(f.kind)
  BY DEF MCFields
<1>2. f.rules # NoTag => /\ f.rules \in Seq(MCRules)
                         /\ \A j \in DOMAIN f.rules : SoundArg(f.rules[j])
  BY <1>1, TagsAreSound
<1>3. f.kind = "int" => f.value \in Int
  BY <1>1 DEF MCValues, MCInts
<1>4. f.kind = "ints" => f.value \in Seq(Int)
  <2>1. MCValues("ints") = {<<>>, <<0, 1, 2>>}
    BY DEF MCValues
  <2>2. <<>> \in Seq(Int) /\ <<0, 1, 2>> \in Seq(Int)
    OBVIOUS
  <2> QED
    BY <1>1, <2>1, <2>2, Zenon
<1>5. f.kind = "string" => f.value \in Seq(MCChars)
  <2>1. MCValues("string") = MCStrings
    BY DEF MCValues
  <2> QED
    BY <1>1, <2>1, StringsAreStrings
<1>6. f.kind = "strings" => f.value \in Seq(Seq(MCChars))
  BY <1>1, StringsAreStrings DEF MCValues
<1>7. SoundField(f, MCChars)
  BY <1>1, <1>2, <1>3, <1>4, <1>5, <1>6 DEF SoundField
<1> QED
  BY <1>7 DEF SoundFields

\* The struct of a behaviour is one of these fields.
StructInv ==
  /\ tool \in {"copy", "env"} \cup Functions
  /\ tool = "validate" => input \in Seq(SoundFields)

\* And so are the structs of every reachable state.
LEMMA StructInvHolds == Spec => []StructInv
<1>1. Init => StructInv
  <2> SUFFICES ASSUME Init PROVE StructInv
    OBVIOUS
  <2>1. tool \in {"copy", "env"} \cup Functions
    BY DEF Init
  <2>2. tool = "validate" => input = <<>>
    BY DEF Init, Functions
  <2>3. <<>> \in Seq(SoundFields)
    <3> HIDE DEF SoundFields
    <3> QED
      OBVIOUS
  <2> QED
    BY <2>1, <2>2, <2>3 DEF StructInv
<1>2. StructInv /\ [Next]_vars => StructInv'
  <2> SUFFICES ASSUME StructInv, [Next]_vars PROVE StructInv'
    OBVIOUS
  <2>1. CASE tool' = tool /\ input' = input
    BY <2>1 DEF StructInv
  <2>2. CASE Grow
    <3>1. tool' = tool
      BY <2>2 DEF Grow
    <3>2. CASE tool = "validate"
      <4>1. \E f \in MCFields(OneRule) \cup MCFields(TwoRules) :
               input' = <<f>> \/ input' = Append(input, f)
        BY <2>2, <3>2, Zenon DEF Grow
      <4>2. PICK f \in SoundFields : input' = <<f>> \/ input' = Append(input, f)
        BY <4>1, FieldsAreSound
      <4>3. input \in Seq(SoundFields)
        BY <3>2 DEF StructInv
      <4> HIDE DEF SoundFields
      <4>4. <<f>> \in Seq(SoundFields) /\ Append(input, f) \in Seq(SoundFields)
        BY <4>3
      <4>5. input' \in Seq(SoundFields)
        BY <4>2, <4>4
      <4> QED
        BY <3>1, <4>5 DEF StructInv
    <3> QED
      BY <3>1, <3>2 DEF StructInv
  <2> QED
    BY <2>1, <2>2 DEF Next, Done, vars
<1> QED
  BY <1>1, <1>2, PTL DEF Spec

\* Validate is right about every struct.
THEOREM StructsAreValidatedHolds == Spec => []StructsAreValidated
<1>1. StructInv => StructsAreValidated
  <2> SUFFICES ASSUME StructInv, tool = "validate"
               PROVE  ValidateIsRight(input) /\ NoUnsupportedArgument(input)
    BY DEF StructsAreValidated
  <2>1. input \in Seq(SoundFields)
    BY DEF StructInv
  <2>2. \A i \in DOMAIN input : input[i] \in SoundFields
    BY <2>1
  <2>3. \A i \in DOMAIN input : SoundField(input[i], MCChars)
    BY <2>2 DEF SoundFields
  <2>4. SoundStruct(input, MCChars)
    BY <2>1, <2>3 DEF SoundStruct
  <2> QED
    BY <2>4, ValidateAlwaysRight
<1> QED
  BY <1>1, StructInvHolds, PTL

(**************************************************************************)
(* The texts of MCTools.                                                  *)
(**************************************************************************)
LEMMA ItemsOfRunes == Items(MCRunes) = MCItems /\ Slash \in MCRunes
<1>1. MCRunes \cap (0..9) = {0, 2}
  BY RunesAssumption, MCTextAssumption DEF MCRunes
<1>2. Slash \in MCRunes
  BY DEF MCRunes
<1>3. {Once} \cup {0, 2} = {Once, 0, 2}
  OBVIOUS
<1>4. Items(MCRunes) = [char: MCRunes, times: {Once} \cup {0, 2}]
  BY <1>1, Zenon DEF Items
<1> QED
  BY <1>2, <1>3, <1>4, Zenon DEF MCItems

\* Unpack reads the packed strings of the run.
LEMMA PackedRead ==
  ASSUME NEW items \in MCPacked
  PROVE  UnpackReads(items)
<1>1. PICK m \in 0..2 : items \in [1..m -> MCItems]
  BY DEF MCPacked
<1>2. items \in Seq(MCItems)
  <2> HIDE DEF MCItems
  <2> QED
    BY <1>1
<1>3. items \in Seq(Items(MCRunes))
  BY <1>2, ItemsOfRunes
<1> QED
  BY <1>3, ItemsOfRunes, UnpackAlwaysReads

\* A string of at most three runes is packed with at most three items.
LEMMA ShortRefused ==
  ASSUME NEW str \in Seq(MCRunes), Len(str) <= 3
  PROVE  UnpackRefuses(str, MCPacked \cup [1..3 -> MCItems])
<1> SUFFICES ASSUME Unpack(str).valid
             PROVE  \E items \in MCPacked \cup [1..3 -> MCItems] : TextOf(items) = str
  BY DEF UnpackRefuses
<1>1. PICK items \in Seq(Items(MCRunes)) : TextOf(items) = str
  BY ItemsOfRunes, UnpackAlwaysRefuses DEF UnpackRefuses
<1>2. Len(items) <= Len(str)
  BY <1>1, ItemsOfRunes, ItemsFit
<1>3. items \in Seq(MCItems)
  BY <1>1, ItemsOfRunes
<1>4. Len(items) \in Nat /\ Len(str) \in Nat /\ items \in [1..Len(items) -> MCItems]
  <2> HIDE DEF MCItems, MCRunes
  <2> QED
    BY <1>3
<1>5. Len(items) \in 0..2 \/ Len(items) = 3
  BY <1>2, <1>4
<1>6. items \in MCPacked \cup [1..3 -> MCItems]
  <2>1. CASE Len(items) \in 0..2
    BY <1>4, <2>1 DEF MCPacked
  <2>2. CASE Len(items) = 3
    BY <1>4, <2>2, Zenon
  <2> QED
    BY <1>5, <2>1, <2>2
<1> QED
  BY <1>1, <1>6

\* The words of the run are a text.
LEMMA WordsAreText ==
  ASSUME NEW words \in Seq(MCWords)
  PROVE  IsText(words)
<1>1. \A i \in DOMAIN words : words[i] \in MCWords
  OBVIOUS
<1>2. \A w \in MCWords : w \in {NoWord, Dash} \/ w \in 1..3
  BY DEF MCWords
<1>3. \A w \in 1..3 : w \in DOMAIN LowerCase /\ LowerCase[w] \in Int /\ w \in Int
  BY MCTextAssumption
<1> HIDE DEF MCWords
<1> QED
  BY <1>1, <1>2, <1>3, MCTextAssumption DEF IsText

\* The characters of the lines of MCTools.
MCAddressChars == {1, 2, 3, At, Dot}

\* Its lines are lines, over these characters.
LEMMA LinesAreLines ==
  ASSUME NEW lines \in Seq(MCLines)
  PROVE  IsLines(MCAddressChars, lines)
<1>1. MCEmails \subseteq Seq(MCAddressChars)
  <2> DEFINE C == MCAddressChars
  <2>1. 1 \in C /\ 2 \in C /\ 3 \in C /\ At \in C /\ Dot \in C
    BY DEF MCAddressChars
  <2> HIDE DEF C
  <2>2. /\ <<2, At, 1, Dot, 3>> \in Seq(C) /\ <<At, 2, Dot, 3>> \in Seq(C)
        /\ <<2, Dot, 3>> \in Seq(C) /\ <<2, At, 3>> \in Seq(C)
        /\ <<2, At, 2, Dot, 1>> \in Seq(C)
    BY <2>1
  <2>3. <<2, At, 2, Dot, 3, Dot, 3>> \in Seq(C) /\ <<2, At, 2, Dot, 2, At, 3>> \in Seq(C)
    BY <2>1
  <2> QED
    BY <2>2, <2>3, Zenon DEF MCEmails, C
<1>2. MCLines \subseteq [valid: BOOLEAN, email: {NoEmail} \cup Seq(MCAddressChars)]
  BY <1>1 DEF MCLines
<1>3. \A X, Y : X \subseteq Y => Seq(X) \subseteq Seq(Y)
  OBVIOUS
<1>4. Seq(MCLines) \subseteq Seq([valid: BOOLEAN, email: {NoEmail} \cup Seq(MCAddressChars)])
  BY <1>2, <1>3, Zenon
<1> QED
  BY <1>4, Zenon DEF IsLines

\* And its domains are domains without a dot.
LEMMA DomainsAreDomains ==
  ASSUME NEW domain \in MCDomains
  PROVE  domain \in Seq(MCAddressChars) /\ Dot \notin Range(domain)
<1>1. PICK d \in 1..3 : domain = <<d>>
  BY DEF MCDomains
<1>2. d \in MCAddressChars
  BY DEF MCAddressChars
<1> HIDE DEF MCAddressChars
<1>3. domain \in Seq(MCAddressChars)
  BY <1>1, <1>2
<1>4. Range(<<d>>) = {d}
  BY DEF Range
<1> QED
  BY <1>1, <1>3, <1>4, MCTextAssumption

\* The text of a behaviour is of these runes, words or lines.
TextInv ==
  /\ tool \in {"copy", "env"} \cup Functions
  /\ tool = "unpack" => input \in Seq(MCRunes)
  /\ tool = "words" => input \in Seq(MCWords)
  /\ tool = "domains" => input \in Seq(MCLines)

\* They are in every reachable state.
LEMMA TextInvHolds == Spec => []TextInv
<1>1. Init => TextInv
  <2> SUFFICES ASSUME Init PROVE TextInv
    OBVIOUS
  <2>1. tool \in {"copy", "env"} \cup Functions
    BY DEF Init
  <2>2. tool \in {"unpack", "words", "domains"} => input = <<>>
    BY DEF Init, Functions
  <2>3. \A X : <<>> \in Seq(X)
    OBVIOUS
  <2> QED
    BY <2>1, <2>2, <2>3 DEF TextInv
<1>2. TextInv /\ [Next]_vars => TextInv'
  <2> SUFFICES ASSUME TextInv, [Next]_vars PROVE TextInv'
    OBVIOUS
  <2>1. CASE tool' = tool /\ input' = input
    BY <2>1 DEF TextInv
  <2>2. CASE Grow
    <3>1. tool' = tool
      BY <2>2 DEF Grow
    <3>2. \A X : \A x \in X : input \in Seq(X) => Append(input, x) \in Seq(X)
      OBVIOUS
    <3>3. CASE tool = "unpack"
      <4>1. PICK r \in MCRunes : input' = Append(input, r)
        BY <2>2, <3>3, Zenon DEF Grow
      <4>2. input' \in Seq(MCRunes)
        BY <3>2, <3>3, <4>1, Zenon DEF TextInv
      <4> QED
        BY <3>1, <3>3, <4>2 DEF TextInv
    <3>4. CASE tool = "words"
      <4>1. PICK w \in MCWords : input' = Append(input, w)
        BY <2>2, <3>4, Zenon DEF Grow
      <4>2. input' \in Seq(MCWords)
        BY <3>2, <3>4, <4>1, Zenon DEF TextInv
      <4> QED
        BY <3>1, <3>4, <4>2 DEF TextInv
    <3>5. CASE tool = "domains"
      <4>1. PICK l \in MCLines : input' = Append(input, l)
        BY <2>2, <3>5, Zenon DEF Grow
      <4>2. input' \in Seq(MCLines)
        BY <3>2, <3>5, <4>1, Zenon DEF TextInv
      <4> QED
        BY <3>1, <3>5, <4>2 DEF TextInv
    <3>6. CASE tool \notin {"unpack", "words", "domains"}
      BY <3>1, <3>6 DEF TextInv
    <3> QED
      BY <3>3, <3>4, <3>5, <3>6
  <2> QED
    BY <2>1, <2>2 DEF Next, Done, vars
<1> QED
  BY <1>1, <1>2, PTL DEF Spec

\* The three functions on texts are right about every text.
THEOREM TextsAreRightHolds == Spec => []TextsAreRight
<1>1. TextInv => TextsAreRight
  <2> SUFFICES ASSUME TextInv PROVE TextsAreRight
    OBVIOUS
  <2>1. ASSUME tool = "unpack", Len(input) <= 3
        PROVE  UnpackRefuses(input, MCPacked \cup [1..3 -> MCItems])
    BY <2>1, ShortRefused DEF TextInv
  <2>2. \A items \in MCPacked : UnpackReads(items)
    BY PackedRead
  <2>3. tool = "words" => WordsCounted(input)
    BY WordsAreText, WordsAlwaysCounted DEF TextInv
  <2>4. ASSUME tool = "domains", NEW domain \in MCDomains, NEW cut \in BOOLEAN
        PROVE  DomainsCounted(input, cut, domain)
    <3>1. IsLines(MCAddressChars, input)
      BY <2>4, LinesAreLines DEF TextInv
    <3>2. domain \in Seq(MCAddressChars) /\ Dot \notin Range(domain)
      BY DomainsAreDomains
    <3>3. MCAddressChars \in SUBSET DOMAIN LowerCase /\ Dot \in MCAddressChars
      BY MCTextAssumption DEF MCAddressChars
    <3> QED
      BY <3>1, <3>2, <3>3, DomainsAlwaysCounted
  <2> QED
    BY <2>1, <2>2, <2>3, <2>4, Zenon DEF TextsAreRight
<1> QED
  BY <1>1, TextInvHolds, PTL
===============================================================================
