--------------------------- MODULE CredentialHelper ---------------------------
(***************************************************************************)
(* credential/CredentialHelper.kt: which username and which helper         *)
(* commands a configuration gives, and how execute() asks the commands one *)
(* after the other until it has a username and a password.                 *)
(*                                                                         *)
(* A configuration has each key at up to three places: under the exact     *)
(* url, under protocol and host, and without url.  A helper is a process   *)
(* that reads what it is told and writes lines; a line is the sequence of  *)
(* its parts between "=" signs.                                            *)
(***************************************************************************)
EXTENDS Naturals, Sequences

CONSTANTS
    Users, Passwords,
    Null,            \* Kotlin's null
    Empty,           \* the empty string
    Absent,          \* the configuration has no entry (or the url no such key)
    Helpers,         \* values of credential.helper
    Configurations,  \* the configurations config() may be called with
    Outputs,         \* what a helper process may write
    MaxCommands      \* bound on the commands list

Places == 1 .. 3   \* exactKey, urlKey and the key without url, in this order
Names  == Users \cup {Null, Empty}
Secrets == Passwords \cup {Null, Empty}

ASSUME ValuesAssumption ==
    /\ Null # Empty
    /\ Absent \notin {Null, Empty}
    /\ {Null, Empty, Absent} \cap (Users \cup Passwords \cup Helpers) = {}

\* What execute() answers, a pair, is not null.
ASSUME PairAssumption == Null \notin [first : Names, second : Secrets]

ASSUME ConfigurationsAssumption ==
    Configurations \subseteq
        [username    : [Places -> Names \cup {Absent}],
         helper      : [Places -> Helpers \cup {Null, Absent}],
         useHttpPath : [Places -> BOOLEAN \cup {Absent}]]

ASSUME OutputsAssumption ==
    \A output \in Outputs :
        /\ output \in Seq(Seq({"username", "password", "other"} \cup Users \cup Passwords \cup {Empty}))
        /\ \A i \in DOMAIN output : Len(output[i]) >= 2 =>
             /\ output[i][1] = "username" => output[i][2] \in Users \cup {Empty}
             /\ output[i][1] = "password" => output[i][2] \in Passwords \cup {Empty}

ASSUME BoundAssumption == MaxCommands \in Nat

VARIABLES
    username,  \* CredentialHelper.username
    commands,  \* CredentialHelper.commands
    path,      \* whether CredentialHelper.path is set, and so told to helpers
    running,   \* execute() is in its loop
    user, password,  \* the locals of execute()
    asked,     \* history: what each helper of this execution was told and gave
    result,    \* what execute() returned
    threw      \* the last execute() ended with an exception

vars == <<username, commands, path, running, user, password, asked, result, threw>>

Answers == [told : Names, user : Names, password : Secrets]

TypeOK ==
    /\ username \in Names
    /\ commands \in Seq(Helpers)
    /\ path \in BOOLEAN
    /\ running \in BOOLEAN
    /\ user \in Names
    /\ password \in Secrets
    /\ asked \in Seq(Answers)
    /\ result \in [first : Names, second : Secrets] \cup {Null}
    /\ threw \in BOOLEAN

Init ==
    /\ username = Null
    /\ commands = <<>>
    /\ path = FALSE
    /\ running = FALSE
    /\ user = Null
    /\ password = Null
    /\ asked = <<>>
    /\ result = Null
    /\ threw = FALSE

-----------------------------------------------------------------------------
(* Configuration                                                           *)

\* The first place with an entry decides; without one the default is taken.
MostSpecific(entries, default) ==
    IF \A i \in Places : entries[i] = Absent THEN default
    ELSE entries[CHOOSE i \in Places :
                    /\ entries[i] # Absent
                    /\ \A j \in Places : entries[j] # Absent => i <= j]

\* addCommand: an entry without a value adds nothing.
Command(entry) == IF entry \in Helpers THEN <<entry>> ELSE <<>>

\* configHelper: every place with an entry adds its command.
CommandsOf(entries) == Command(entries[1]) \o Command(entries[2]) \o Command(entries[3])

Config(config) ==
    /\ ~running
    /\ Len(commands) + 3 <= MaxCommands
    /\ username' = IF username = Null THEN MostSpecific(config.username, Null) ELSE username
    /\ commands' = commands \o CommandsOf(config.helper)
    /\ path' = (path \/ MostSpecific(config.useHttpPath, FALSE))
    /\ UNCHANGED <<running, user, password, asked, result, threw>>

SetUsername(name) ==
    /\ ~running
    /\ username' = name
    /\ UNCHANGED <<commands, path, running, user, password, asked, result, threw>>

-----------------------------------------------------------------------------
(* The answers of helpers                                                  *)

\* parseOutput: the last line with the key counts, and of it what stands
\* between the first and the second "=".
LastValue(output, key) ==
    LET lines == {i \in DOMAIN output : Len(output[i]) >= 2 /\ output[i][1] = key}
    IN  IF lines = {} THEN Null
        ELSE output[CHOOSE i \in lines : \A j \in lines : j <= i][2]

IsNullOrEmpty(value) == value \in {Null, Empty}

\* Mutated form of Told: the field of the class instead of the local.
ToldField(name) == IF IsNullOrEmpty(username) THEN Null ELSE username

\* A name that is empty is not written to the helper's standard input.
Told(name) == IF IsNullOrEmpty(name) THEN Null ELSE name

Complete(name, secret) == ~IsNullOrEmpty(name) /\ ~IsNullOrEmpty(secret)

-----------------------------------------------------------------------------
(* execute()                                                               *)

\* Mutated form of Execute: the password of an earlier call is kept.
ExecuteKeepsPassword ==
    /\ ~running
    /\ running' = TRUE
    /\ user' = username
    /\ asked' = <<>>
    /\ result' = Null
    /\ threw' = FALSE
    /\ UNCHANGED <<username, commands, path, password>>

Execute ==
    /\ ~running
    /\ running' = TRUE
    /\ user' = username
    /\ password' = Null
    /\ asked' = <<>>
    /\ result' = Null
    /\ threw' = FALSE
    /\ UNCHANGED <<username, commands, path>>

\* Mutated forms of NextUser and NextPassword: the latest name is taken,
\* the first password is kept.
LatestUser(u) == IF IsNullOrEmpty(u) THEN user ELSE u

FirstPassword(p) == IF IsNullOrEmpty(password) /\ ~IsNullOrEmpty(p) THEN p ELSE password

\* A name given by a helper counts while there is none; the latest password
\* counts.
NextUser(u) == IF ~IsNullOrEmpty(u) /\ user = Null THEN u ELSE user

NextPassword(p) == IF IsNullOrEmpty(p) THEN password ELSE p

\* One turn of the loop.  A command that cannot be started, or writes
\* nothing, gives neither name nor password.
AskNext(output) ==
    /\ running
    /\ Len(asked) < Len(commands)
    /\ LET u == LastValue(output, "username")
           p == LastValue(output, "password")
       IN  /\ user' = NextUser(u)
           /\ password' = NextPassword(p)
           /\ asked' = Append(asked, [told |-> Told(user), user |-> u, password |-> p])
    /\ IF Complete(user', password')
       THEN result' = [first |-> user', second |-> password'] /\ running' = FALSE
       ELSE UNCHANGED <<result, running>>
    /\ UNCHANGED <<username, commands, path, threw>>

\* The command was started, but one of its pipes is not there, cannot be
\* written to, or waiting for it fails: nothing catches the exception.
CommandThrows ==
    /\ running
    /\ Len(asked) < Len(commands)
    /\ running' = FALSE
    /\ threw' = TRUE
    /\ UNCHANGED <<username, commands, path, user, password, asked, result>>

GiveUp ==
    /\ running
    /\ Len(asked) = Len(commands)
    /\ running' = FALSE
    /\ UNCHANGED <<username, commands, path, user, password, asked, result, threw>>

Next ==
    \/ \E config \in Configurations : Config(config)
    \/ \E name \in Names : SetUsername(name)
    \/ Execute
    \/ \E output \in Outputs : AskNext(output)
    \/ CommandThrows
    \/ GiveUp

Spec == Init /\ [][Next]_vars

-----------------------------------------------------------------------------
(* Properties                                                              *)

\* Once a helper was told a username, every later helper of the execution is
\* told the same, whatever names the helpers answer (CredentialHelper.kt:118).
KnownUserIsTold ==
    \A i, j \in DOMAIN asked :
        (i < j /\ asked[i].told # Null) => asked[j].told = asked[i].told

\* A helper that is not told a username names the one its password is for.
Honest(answer) ==
    (answer.told = Null /\ ~IsNullOrEmpty(answer.password)) => ~IsNullOrEmpty(answer.user)

\* If the helpers are honest, the password that is returned comes from a
\* helper that was told the username returned with it, or named it
\* (CredentialHelper.kt:117-126).
PasswordOfKnownUser ==
    (result # Null /\ \A i \in DOMAIN asked : Honest(asked[i])) =>
        \E i \in DOMAIN asked :
            /\ asked[i].password = result.second
            /\ result.first \in {asked[i].told, asked[i].user}

\* The reference: what the first n of some answers amount to, beginning with
\* the name of the configuration.
FirstName(name, answers, n) ==
    LET named == {i \in 1 .. n : ~IsNullOrEmpty(answers[i].user)}
    IN  IF name # Null \/ named = {} THEN name
        ELSE answers[CHOOSE i \in named : \A j \in named : i <= j].user

LastSecret(answers, n) ==
    LET given == {i \in 1 .. n : ~IsNullOrEmpty(answers[i].password)}
    IN  IF given = {} THEN Null
        ELSE answers[CHOOSE i \in given : \A j \in given : j <= i].password

NameAfter(n)   == FirstName(username, asked, n)
SecretAfter(n) == LastSecret(asked, n)

CompleteAfter == {n \in DOMAIN asked : Complete(NameAfter(n), SecretAfter(n))}

\* execute() stops at the first helper after which name and password are
\* known, and returns them; it returns null only when all were asked
\* (CredentialHelper.kt:116-128).
StopsWhenComplete ==
    /\ CompleteAfter \subseteq {Len(asked)}
    /\ result = IF CompleteAfter = {} THEN Null
               ELSE [first |-> NameAfter(Len(asked)), second |-> SecretAfter(Len(asked))]
    /\ result = Null => Len(asked) = Len(commands)

\* An exception leaves nothing behind, and comes only where an answer was still
\* wanted.
ThrowsIncomplete == result = Null /\ CompleteAfter = {}

AnswerIsFirstComplete ==
    [][running /\ ~running' =>
          IF threw' THEN ThrowsIncomplete' ELSE StopsWhenComplete']_vars

-----------------------------------------------------------------------------
(* The inductive strengthening                                             *)

\* The locals against the history, from the start of an execution on.
LocalsState ==
    /\ \A i \in DOMAIN asked : asked[i].told \in {Null, user} \ {Empty}
    /\ user = Null => \A i \in DOMAIN asked : IsNullOrEmpty(asked[i].user)
    /\ user \in Users =>
         \A i \in DOMAIN asked :
            asked[i].told = Null => asked[i].user \in {Null, Empty, user}
    /\ password # Null => \E i \in DOMAIN asked : asked[i].password = password
    /\ result # Null => ~running /\ result = [first |-> user, second |-> password] /\ Complete(user, password)

\* While execute() is in its loop its locals are what the answers so far
\* amount to, and they were never complete.
LoopState ==
    running =>
        /\ user = NameAfter(Len(asked))
        /\ password = SecretAfter(Len(asked))
        /\ CompleteAfter = {}
        /\ result = Null
        /\ ~threw

CredentialInvariant == TypeOK /\ LocalsState /\ LoopState /\ KnownUserIsTold
=============================================================================
