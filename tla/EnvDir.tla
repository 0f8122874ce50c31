-------------------------------- MODULE EnvDir --------------------------------
(***************************************************************************)
(* hw08: go-envdir.  ReadDir makes an Environment of the files of a        *)
(* directory, RunCmd changes the process's own environment with it, in the *)
(* random order of a map, and starts the command.                          *)
(*                                                                         *)
(* An entry of the directory is a file with its first line, or what        *)
(* processDirEntry refuses.  The text of a line is left out, except what   *)
(* decides: whether a file is empty, whether its first line is longer than *)
(* the buffer of the scanner, and whether trimming leaves anything of it.  *)
(***************************************************************************)
EXTENDS Integers, FiniteSets

CONSTANTS
  Names,       \* the names of variables and of entries of the directory
  NameWithEq,  \* those of them with a "=" in it
  Values,      \* the values of variables
  Unset,       \* "this variable is not set"
  EnvFaults    \* "remove" (an entry disappears), "start" (the command cannot start)

ASSUME NamesAssumption == NameWithEq \subseteq Names
\* What a name stands for in the directory: nothing, a directory, an empty file, a
\* file whose first line is too long, is nothing but space, or holds a value.
Entry == {"none", "directory", "empty", "too long", "blank"} \cup Values

\* These words, and those of the Environment, are none of the values.
ASSUME ValuesAssumption ==
  Values \cap {"none", "directory", "gone", "empty", "too long", "blank", "remove", "nothing"} = {}
ASSUME UnsetAssumption == Unset \notin Entry

VARIABLES
  dir,       \* the directory
  envPc,     \* where the program is
  todo,      \* the entries ReadDir has not processed, the names processEnv has not
  env,       \* the Environment: a value, "remove", or nothing for a name
  bad,       \* errorsList is not empty
  environ,   \* the environment of the process
  exit,      \* the exit code
  \* History:
  inherited  \* the environment the process was started with

envVars == <<dir, envPc, todo, env, bad, environ, exit, inherited>>

ExitCode == 111
Codes == {0, 1}       \* of the command; -1 when a signal ended it

EnvInit ==
  /\ dir \in [Names -> Entry]
  /\ environ \in [Names -> Values \cup {Unset}]
  /\ \A x \in NameWithEq : environ[x] = Unset
  /\ inherited = environ
  /\ envPc = "start" /\ todo = {} /\ bad = FALSE /\ exit = 0
  /\ env = [x \in Names |-> "nothing"]

\* os.ReadDir lists the entries.
ListDir ==
  /\ envPc = "start"
  /\ envPc' = "reading"
  /\ todo' = {x \in Names : dir[x] # "none"}
  /\ UNCHANGED <<dir, env, bad, environ, exit, inherited>>

EntryDisappears(x) ==
  /\ "remove" \in EnvFaults
  /\ envPc = "reading" /\ x \in todo
  /\ dir' = [dir EXCEPT ![x] = "gone"]
  /\ UNCHANGED <<envPc, todo, env, bad, environ, exit, inherited>>

\* The entries that processDirEntry refuses.  (A name with "=" and an entry that
\* disappeared: entry.Info or os.Open fails.)
Refused(x) == dir[x] \in {"directory", "gone"} \/ x \in NameWithEq

\* Mutant: an empty file and an empty first line are the same.
ValueOfBlank(entry) ==
  IF entry \in {"empty", "blank"} THEN "remove" ELSE entry

\* readEnvValue.  A first line longer than the buffer stops the scanner, and its
\* error is tested, but another err, which is nil, is returned with "".
ValueOf(entry) ==
  IF entry = "empty" THEN "remove"
  ELSE IF entry = "too long" THEN "blank"
  ELSE entry

\* Mutants: the error ends the loop without the rest being looked at, and is lost;
\* the name is not checked.
ProcessDirEntryLost(x) ==
  /\ envPc = "reading" /\ x \in todo
  /\ todo' = todo \ {x}
  /\ bad' = bad
  /\ env' = IF Refused(x) THEN env ELSE [env EXCEPT ![x] = ValueOf(dir[x])]
  /\ UNCHANGED <<dir, envPc, environ, exit, inherited>>

ProcessDirEntryAnyName(x) ==
  /\ envPc = "reading" /\ x \in todo
  /\ todo' = todo \ {x}
  /\ IF dir[x] \in {"directory", "gone"} THEN bad' = TRUE /\ env' = env
     ELSE bad' = bad /\ env' = [env EXCEPT ![x] = ValueOf(dir[x])]
  /\ UNCHANGED <<dir, envPc, environ, exit, inherited>>

\* One turn of ReadDir's loop.
ProcessDirEntry(x) ==
  /\ envPc = "reading" /\ x \in todo
  /\ todo' = todo \ {x}
  /\ IF Refused(x) THEN bad' = TRUE /\ env' = env
     ELSE bad' = bad /\ env' = [env EXCEPT ![x] = ValueOf(dir[x])]
  /\ UNCHANGED <<dir, envPc, environ, exit, inherited>>

\* ReadDir returns, and main ends with 111 or calls RunCmd.
ReadDirReturns ==
  /\ envPc = "reading" /\ todo = {}
  /\ IF bad THEN envPc' = "ended" /\ exit' = ExitCode /\ todo' = todo
     ELSE /\ envPc' = "setting" /\ exit' = exit
          /\ todo' = {x \in Names : env[x] # "nothing"}
  /\ UNCHANGED <<dir, env, bad, environ, inherited>>

\* One turn of processEnv's loop.  os.Setenv refuses a name with "=".
SetVariable(x) ==
  /\ envPc = "setting" /\ x \in todo
  /\ todo' = todo \ {x}
  /\ IF env[x] # "remove" /\ x \in NameWithEq
     THEN envPc' = "setenv failed" /\ exit' = ExitCode /\ environ' = environ
     ELSE /\ UNCHANGED <<envPc, exit>>
          /\ environ' = [environ EXCEPT ![x] = IF env[x] = "remove" THEN Unset ELSE env[x]]
  /\ UNCHANGED <<dir, env, bad, inherited>>

\* command.Env = os.Environ(), and the command is started.
StartCommand ==
  /\ envPc = "setting" /\ todo = {}
  /\ envPc' = "running"
  /\ UNCHANGED <<dir, todo, env, bad, environ, exit, inherited>>

StartFails ==
  /\ "start" \in EnvFaults
  /\ envPc = "setting" /\ todo = {}
  /\ envPc' = "ended" /\ exit' = ExitCode
  /\ UNCHANGED <<dir, todo, env, bad, environ, inherited>>

\* The command ends by itself, or by a signal.  (os.Exit(-1) is 255.)
CommandEnds(code) ==
  /\ envPc = "running"
  /\ envPc' = "ran" /\ exit' = IF code = -1 THEN 255 ELSE code
  /\ UNCHANGED <<dir, todo, env, bad, environ, inherited>>

EnvNext ==
  \/ ListDir \/ ReadDirReturns \/ StartCommand \/ StartFails
  \/ \E x \in Names : EntryDisappears(x) \/ ProcessDirEntry(x) \/ SetVariable(x)
  \/ \E code \in Codes \cup {-1} : CommandEnds(code)

EnvSpec == EnvInit /\ [][EnvNext]_envVars

EnvEnded == envPc \in {"ended", "ran", "setenv failed"}
-----------------------------------------------------------------------------
\* What the directory says of a variable, as the tool's description has it.
Meant(x) ==
  CASE dir[x] = "none" -> inherited[x]
    [] dir[x] = "empty" -> Unset
    [] OTHER -> dir[x]

\* The command sees the variables of the directory and nothing else changed,
\* whichever order the map is walked in.  (A first line that does not fit in the
\* scanner's buffer is the exception: it becomes the empty value.)
CommandSeesDirectory ==
  envPc = "running" =>
    \A x \in Names : dir[x] \notin {"too long", "gone"} => environ[x] = Meant(x)

\* No command runs when an entry of the directory could not be used, also one
\* that disappeared before it was read, and wherever it is in the directory.
NoCommandAfterBadEntry ==
  envPc \in {"running", "ran"} => \A x \in Names : dir[x] = "none" \/ ~Refused(x)

\* processEnv never stops half way: what ReadDir lets through, os.Setenv takes.
SetenvNeverFails == envPc # "setenv failed"

\* The command runs in the environment of the whole directory, or not at all.
CommandRunsAsMeant == CommandSeesDirectory /\ NoCommandAfterBadEntry /\ SetenvNeverFails
(***************************************************************************)
(* The inductive invariant.                                                *)
(***************************************************************************)
EnvTypeOK ==
  /\ dir \in [Names -> Entry \cup {"gone"}]
  /\ envPc \in {"start", "reading", "setting", "running", "ran", "ended", "setenv failed"}
  /\ todo \subseteq Names /\ bad \in BOOLEAN
  /\ env \in [Names -> {"nothing", "remove", "blank"} \cup Values]
  /\ environ \in [Names -> Values \cup {"blank", Unset}]
  /\ inherited \in [Names -> Values \cup {Unset}]

\* What ReadDir has made of an entry it has come to.
Processed(x) ==
  IF dir[x] = "none" THEN env[x] = "nothing"
  ELSE IF Refused(x) THEN bad
  ELSE env[x] = ValueOf(dir[x])

\* ReadDir has processed what is not still to be done, and its entries that are still
\* to be done it has not touched.
ReadInv ==
  /\ envPc = "start" => todo = {} /\ ~bad /\ \A x \in Names : env[x] = "nothing"
  /\ envPc = "reading" =>
       \A x \in Names :
         IF x \in todo THEN dir[x] # "none" /\ env[x] = "nothing" ELSE Processed(x)

\* After ReadDir without an error each entry of the directory was read, and processEnv
\* has set those that are not still to be done and changed no other variable.
SetInv ==
  /\ envPc \in {"start", "reading"} => environ = inherited
  /\ envPc \in {"setting", "running", "ran"} =>
       \A x \in Names :
         /\ dir[x] = "none" \/ ~Refused(x)
         /\ env[x] = (IF dir[x] = "none" THEN "nothing" ELSE ValueOf(dir[x]))
         /\ x \in todo => env[x] # "nothing"
         /\ environ[x] = (IF env[x] = "nothing" \/ x \in todo THEN inherited[x]
                          ELSE IF env[x] = "remove" THEN Unset ELSE env[x])
  /\ envPc \in {"running", "ran"} => todo = {}

EnvInv == EnvTypeOK /\ ReadInv /\ SetInv /\ SetenvNeverFails
=============================================================================
