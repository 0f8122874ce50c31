------------------------------- MODULE FileCopy -------------------------------
(***************************************************************************)
(* hw07: Copy(fromPath, toPath, offset, limit), a small dd.  The size of   *)
(* the source decides how much is copied, but it is asked for by path      *)
(* before the file is opened: another process may change the source in     *)
(* between, and while it is read.  The two paths may name one file, which  *)
(* os.Create has emptied by the time it is read.                           *)
(*                                                                         *)
(* A file is the sequence of its bytes.  The progress bar is left out.     *)
(***************************************************************************)
EXTENDS Integers, Sequences

CONSTANTS
  Paths,        \* the names of files
  Contents,     \* what may be in a file: sequences of bytes
  Offsets, Limits,   \* the values of the flags
  CopyFaults,   \* "create", "write" (the call fails), "writer" (of the source)
  NoPath,       \* the empty string: the flag was not given
  NoFile        \* "there is no such file"

ASSUME PathsAssumption == NoPath \notin Paths
ASSUME ContentsAssumption == Contents \subseteq Seq(Nat) /\ NoFile \notin Contents
ASSUME FlagsAssumption == Offsets \subseteq Int /\ Limits \subseteq Int

VARIABLES
  files,    \* what is on disk
  copy,     \* where Copy is
  args,     \* its arguments
  n,        \* "limit" once it is computed: the bytes still to be copied
  position, \* the position of the source
  original, \* history: the source, as os.Stat saw it
  touched   \* history: another process has changed the source since

copyVars == <<files, copy, args, n, position, original, touched>>

Args == [from: Paths \cup {NoPath}, to: Paths \cup {NoPath}, offset: Offsets, limit: Limits]

Size(file) == Len(file)

CopyInit ==
  /\ files \in [Paths -> Contents \cup {NoFile}]
  /\ copy = "idle"
  /\ args \in Args
  /\ n = 0 /\ position = 0 /\ original = NoFile /\ touched = FALSE

\* validateParams.
ValidParams(a) ==
  a.from # NoPath /\ a.to # NoPath /\ a.offset >= 0 /\ a.limit >= 0

ValidateParams ==
  /\ copy = "idle"
  /\ copy' = IF ValidParams(args) THEN "stat" ELSE "refused"
  /\ UNCHANGED <<files, args, n, position, original, touched>>

\* Mutant: the whole size is available, whatever the offset.
RealLimitOfSize(size, offset, limit) ==
  IF limit = 0 \/ limit > size THEN size ELSE limit

RealLimit(size, offset, limit) ==
  IF limit = 0 \/ limit > size - offset THEN size - offset ELSE limit

\* os.Stat, and the end of Copy when the file cannot be used.
StatOf(file, unusable) ==
  /\ copy = "stat"
  /\ original' = file
  /\ IF unusable
     THEN copy' = "refused" /\ n' = n
     ELSE /\ copy' = "open"
          /\ n' = RealLimit(Size(file), args.offset, args.limit)
  /\ UNCHANGED <<files, args, position, touched>>

Unsupported(file) == file \in {NoFile, <<>>}

\* Mutants: an offset at the end is refused; any offset is taken.
StatRefusesEnd ==
  LET file == files[args.from] IN
  StatOf(file, Unsupported(file) \/ args.offset >= Size(file))

StatAnyOffset == LET file == files[args.from] IN StatOf(file, Unsupported(file))

\* getRealLimitBySourceSizeAndOffset: no such file, unsupported file, offset
\* exceeds file size, or the number of bytes to copy.
Stat ==
  LET file == files[args.from] IN
  StatOf(file, Unsupported(file) \/ args.offset > Size(file))

OpenSource ==
  /\ copy = "open"
  /\ copy' = IF files[args.from] = NoFile THEN "failed" ELSE "create"
  /\ UNCHANGED <<files, args, n, position, original, touched>>

\* Mutant: an offset is not sought.
CreateNoSeek ==
  /\ copy = "create"
  /\ copy' = "copying"
  /\ files' = [files EXCEPT ![args.to] = <<>>]
  /\ position' = 0
  /\ UNCHANGED <<args, n, original, touched>>

\* os.Create makes the file or empties it.  Then Seek: to any offset.
CreateTarget ==
  /\ copy = "create"
  /\ copy' = "copying"
  /\ files' = [files EXCEPT ![args.to] = <<>>]
  /\ position' = args.offset
  /\ UNCHANGED <<args, n, original, touched>>

\* (The source stays open until the process ends.)
CreateFails ==
  /\ "create" \in CopyFaults
  /\ copy = "create"
  /\ copy' = "failed"
  /\ UNCHANGED <<files, args, n, position, original, touched>>

\* io.CopyN: what one Read has got is written, in any portions.
CopyByte ==
  /\ copy = "copying" /\ n > 0
  /\ position < Size(files[args.from])
  /\ files' = [files EXCEPT ![args.to] = Append(@, files[args.from][position + 1])]
  /\ position' = position + 1
  /\ n' = n - 1
  /\ UNCHANGED <<copy, args, original, touched>>

TargetFails ==
  /\ "write" \in CopyFaults
  /\ copy = "copying" /\ n > 0
  /\ copy' = "failed"
  /\ UNCHANGED <<files, args, n, position, original, touched>>

\* The limit is reached, or io.EOF, which is not an error for Copy.
CopyEnds ==
  /\ copy = "copying"
  /\ n = 0 \/ position >= Size(files[args.from])
  /\ copy' = "copied"
  /\ UNCHANGED <<files, args, n, position, original, touched>>

\* Another process rewrites the source in place, or removes it, once.  (It keeps
\* away from the target.)
SourceRemoved ==
  /\ "writer" \in CopyFaults
  /\ copy = "open"
  /\ ~touched /\ args.from # args.to
  /\ files' = [files EXCEPT ![args.from] = NoFile]
  /\ touched' = TRUE
  /\ UNCHANGED <<copy, args, n, position, original>>

SourceChanges(content) ==
  /\ "writer" \in CopyFaults
  /\ copy \in {"open", "create", "copying"}
  /\ ~touched /\ args.from # args.to
  /\ files' = [files EXCEPT ![args.from] = content]
  /\ touched' = TRUE
  /\ UNCHANGED <<copy, args, n, position, original>>

CopyNext ==
  \/ ValidateParams \/ Stat \/ OpenSource \/ CreateTarget \/ CreateFails
  \/ CopyByte \/ TargetFails \/ CopyEnds \/ SourceRemoved
  \/ \E content \in Contents : SourceChanges(content)

CopySpec == CopyInit /\ [][CopyNext]_copyVars

\* CopyNext can go on, or Copy has returned.
CopyReturned == copy \in {"refused", "failed", "copied"}
-----------------------------------------------------------------------------
CopyTypeOK ==
  /\ DOMAIN files = Paths
  /\ \A p \in Paths : files[p] = NoFile \/ files[p] \in Seq(Nat)
  /\ copy \in {"idle", "stat", "open", "create", "copying", "refused", "failed", "copied"}
  /\ args \in Args
  /\ n \in Nat /\ position \in Nat
  /\ touched \in BOOLEAN

\* What the flags ask for: the bytes of the source after the offset, and of them
\* no more than the limit, when there is one.
Asked(file) ==
  LET last == IF args.limit = 0 THEN Size(file) ELSE args.offset + args.limit
  IN SubSeq(file, args.offset + 1, IF last > Size(file) THEN Size(file) ELSE last)

\* Copy that reports no error has copied what was asked for, exactly: whatever
\* the offset and the limit, and whatever was in the target before.  (Not when
\* the two paths are one file: that is emptied, and reported as copied.)
CopiesAsAsked ==
  (copy = "copied" /\ ~touched /\ args.from # args.to) =>
    files[args.to] = Asked(original)

\* Even when another process rewrites the source between the call of Stat and
\* the end, the target gets no more than the size that was seen allows, and
\* less only when the source has become shorter.
CopyIsBounded ==
  (copy = "copied" /\ args.from # args.to) =>
    /\ Size(files[args.to]) <= Size(Asked(original))
    /\ Size(files[args.to]) < Size(Asked(original)) =>
         (touched /\ Size(files[args.from]) < Size(original))

\* Copy refuses the calls without an answer, and those only: a flag is missing or
\* negative, the source is missing or empty, or the offset is past its end.
RefusesOnlyInvalid ==
  /\ copy = "refused" =>
       \/ ~ValidParams(args)
       \/ files[args.from] \in {NoFile, <<>>}
       \/ args.offset > Size(files[args.from])
  /\ copy = "copied" => ValidParams(args) /\ args.offset <= Size(original)

\* Copy answers every call as it should: it refuses the invalid ones, copies the
\* others exactly, and stays within bounds when the source changes under it.
CopyIsRight == CopyTypeOK /\ CopiesAsAsked /\ CopyIsBounded /\ RefusesOnlyInvalid
(***************************************************************************)
(* The inductive invariant.                                                *)
(***************************************************************************)
Selected == copy \in {"open", "create", "copying", "copied"}
Length == RealLimit(Size(original), args.offset, args.limit)

\* Only a valid call gets to the files; what os.Stat has seen has the offset in it, and
\* the source is still that unless another process has changed it.
SourceInv ==
  /\ copy \notin {"idle", "refused"} => ValidParams(args)
  /\ Selected =>
       /\ original \in Seq(Nat) /\ args.offset <= Size(original)
       /\ (args.from # args.to /\ ~touched) => files[args.from] = original
  /\ copy \in {"create", "copying", "copied"} =>
       (args.from # args.to => files[args.from] \in Seq(Nat))

\* The target holds what is between the offset and the position, the rest of the
\* length is still to be copied, and an end before it is that of the source.
TargetInv ==
  /\ copy \in {"open", "create"} => n = Length
  /\ copy \in {"copying", "copied"} => files[args.to] \in Seq(Nat)
  /\ (copy \in {"copying", "copied"} /\ args.from # args.to) =>
       /\ position = args.offset + Size(files[args.to])
       /\ n = Length - Size(files[args.to])
       /\ ~touched => files[args.to] = SubSeq(original, args.offset + 1, position)
  /\ (copy = "copied" /\ args.from # args.to) =>
       n = 0 \/ position >= Size(files[args.from])

CopyInv == CopyTypeOK /\ SourceInv /\ TargetInv /\ RefusesOnlyInvalid
=============================================================================
