----------------------------- MODULE Credentials -----------------------------
(***************************************************************************)
(* The password of one remote: in sftp.json, in the secret storage         *)
(* (credentialStore.ts), or typed when a connection asks for it             *)
(* (remoteClient.ts, and sshClient.ts for the last host of a chain), and   *)
(* the commands that save, clear and migrate it.                           *)
(***************************************************************************)
EXTENDS Naturals, FiniteSets

CONSTANTS Passwords,  \* what the server may want and a user may type
          Attempts,   \* connections being made, at most one at a time each
          Routes,     \* "direct" and "hop": how they reach the remote
          MaxCommands \* bound: commands run, and changes of the server or the file

CredentialsAssumption ==
  Routes \subseteq {"direct", "hop"} /\ MaxCommands \in Nat /\ "none" \notin Passwords

VARIABLES right,    \* what the server takes
          inFile,   \* the password in sftp.json, or "none"
          inConfig, \* that in the service, which follows the file when it is reloaded
          stored,   \* the secret, or "none"
          attempt,  \* Attempts -> what each connection is doing
          offers,   \* passwords that may be remembered, when the user says so
          migration, \* the command at work, if any
          commands,
          accepted, \* history: passwords the server has taken
          unproven, \* history: a password was offered before it was tried
          lost      \* history: the file's password went away without being kept

vars == <<right, inFile, inConfig, stored, attempt, offers, migration, commands, accepted, unproven, lost>>
files == <<inFile, inConfig>>
history == <<accepted, unproven, lost>>

Maybe == Passwords \cup {"none"}
Attempt == [at : {"idle", "look", "ask", "dial", "failed"}, route : Routes, password : Maybe, typed : BOOLEAN]
Migration == [password : Passwords, at : {"confirm", "store", "remove"}, edited : BOOLEAN]
Idle(route) == [at |-> "idle", route |-> route, password |-> "none", typed |-> FALSE]

TypeOK ==
  /\ right \in Passwords /\ inFile \in Maybe /\ inConfig \in Maybe /\ stored \in Maybe
  /\ attempt \in [Attempts -> Attempt] /\ offers \subseteq Passwords
  /\ migration \subseteq Migration /\ Cardinality(migration) <= 1
  /\ accepted \subseteq Passwords /\ unproven \in BOOLEAN /\ lost \in BOOLEAN

Init ==
  /\ right \in Passwords /\ inFile \in Maybe /\ inConfig = inFile /\ stored = "none"
  /\ attempt \in [Attempts -> {Idle(route) : route \in Routes}]
  /\ offers = {} /\ migration = {} /\ commands = 0
  /\ accepted = {} /\ unproven = FALSE /\ lost = FALSE

Set(a, at, password, typed) ==
  attempt' = [attempt EXCEPT ![a].at = at, ![a].password = password, ![a].typed = typed]

-----------------------------------------------------------------------------
\* A config that has a password is tried with it and with nothing else.
Connect(a) ==
  /\ attempt[a].at \in {"idle", "failed"}
  /\ IF inConfig # "none" THEN Set(a, "dial", inConfig, FALSE) ELSE Set(a, "look", "none", FALSE)
  /\ UNCHANGED <<right, files, stored, offers, migration, commands, history>>

\* getStoredPassword: a storage that cannot be read counts as one without it.
Look(a) ==
  /\ attempt[a].at = "look"
  /\ \/ stored # "none" /\ Set(a, "dial", stored, FALSE)
     \/ Set(a, "ask", "none", FALSE)
  /\ UNCHANGED <<right, files, stored, offers, migration, commands, history>>

\* The last host of a chain offers to remember the password before it is tried.
OfferedAtOnce(a, password) == IF attempt[a].route = "hop" THEN {password} ELSE {}

Type(a, password) ==
  /\ attempt[a].at = "ask"
  /\ Set(a, "dial", password, TRUE)
  /\ offers' = offers \cup OfferedAtOnce(a, password)
  /\ unproven' = (unproven \/ (attempt[a].route = "hop" /\ password \notin accepted))
  /\ UNCHANGED <<right, files, stored, migration, commands, accepted, lost>>

\* The prompt is closed: the connection is not made.
GiveUp(a) ==
  /\ attempt[a].at = "ask"
  /\ Set(a, "idle", "none", FALSE)
  /\ UNCHANGED <<right, files, stored, offers, migration, commands, history>>

Works(a) ==
  /\ attempt[a].at = "dial" /\ attempt[a].password = right
  /\ accepted' = accepted \cup {right}
  /\ offers' = offers \cup (IF attempt[a].typed /\ attempt[a].route = "direct" THEN {right} ELSE {})
  /\ Set(a, "idle", "none", FALSE)
  /\ UNCHANGED <<right, files, stored, migration, commands, unproven, lost>>

\* The saved password is not dropped, and the user is not asked for another.
Refused(a) ==
  /\ attempt[a].at = "dial" /\ attempt[a].password # right
  /\ attempt' = [attempt EXCEPT ![a].at = "failed"]
  /\ UNCHANGED <<right, files, stored, offers, migration, commands, history>>

-----------------------------------------------------------------------------
\* What the command at work has seen is out of date.
Overtaken == {[m EXCEPT !.edited = TRUE] : m \in migration}

\* offerToRememberSecret: the notification is answered whenever the user likes, or closed.
Remember(password) ==
  /\ password \in offers /\ offers' = offers \ {password}
  /\ stored' = password /\ migration' = Overtaken
  /\ UNCHANGED <<right, files, attempt, commands, history>>

Ignore(password) ==
  /\ password \in offers /\ offers' = offers \ {password}
  /\ UNCHANGED <<right, files, stored, attempt, migration, commands, history>>

Count == commands < MaxCommands /\ commands' = commands + 1

\* `SFTP: Save Password` keeps what is typed, tried or not.
SavePassword(password) ==
  /\ Count /\ stored' = password /\ migration' = Overtaken
  /\ UNCHANGED <<right, files, attempt, offers, history>>

\* `SFTP: Clear Password`
ClearPassword ==
  /\ Count /\ stored # "none" /\ stored' = "none" /\ migration' = Overtaken
  /\ UNCHANGED <<right, files, attempt, offers, history>>

\* `SFTP: Migrate Plaintext Password`: for what the service was loaded with.
Migrate ==
  /\ Count /\ migration = {} /\ inConfig # "none"
  /\ migration' = {[password |-> inConfig, at |-> "confirm", edited |-> inFile # inConfig]}
  /\ UNCHANGED <<right, files, stored, attempt, offers, history>>

Confirmed(m) ==
  /\ m.at = "confirm"
  /\ migration' \in {{}, {[m EXCEPT !.at = "store"]}}
  /\ UNCHANGED <<right, files, stored, attempt, offers, commands, history>>

\* Mutant: a storage that fails does not stop it.
StoreFailsGoesOn(m) == {[m EXCEPT !.at = "remove"]}

\* It ends with the password where it was.
StoreFails(m) == {}

Store(m) ==
  /\ m.at = "store"
  /\ \/ stored' = m.password /\ migration' = {[m EXCEPT !.at = "remove"]}
     \/ migration' = StoreFails(m) /\ UNCHANGED stored
  /\ UNCHANGED <<right, files, attempt, offers, commands, history>>

\* removeConfigValue: whatever the file has there now is removed; or the file cannot be written.
Removed(m) ==
  /\ m.at = "remove"
  /\ \/ /\ inFile' = "none"
        /\ lost' = (lost \/ inFile \notin {"none", stored})
     \/ UNCHANGED <<inFile, lost>>
  /\ migration' = {}
  /\ UNCHANGED <<right, inConfig, stored, attempt, offers, commands, accepted, unproven>>

\* The file is edited; the service follows later.
Edit(password) ==
  /\ Count /\ password # inFile
  /\ inFile' = password /\ migration' = Overtaken
  /\ UNCHANGED <<right, inConfig, stored, attempt, offers, history>>

Reload ==
  /\ inConfig # inFile /\ inConfig' = inFile
  /\ UNCHANGED <<right, inFile, stored, attempt, offers, migration, commands, history>>

Next ==
  \/ \E a \in Attempts :
       Connect(a) \/ Look(a) \/ GiveUp(a) \/ Works(a) \/ Refused(a) \/ \E p \in Passwords : Type(a, p)
  \/ \E p \in Passwords : Remember(p) \/ Ignore(p) \/ SavePassword(p)
  \/ ClearPassword \/ Migrate
  \/ \E m \in migration : Confirmed(m) \/ Store(m) \/ Removed(m)
  \/ \E p \in Maybe : Edit(p)
  \/ Reload

Spec == Init /\ [][Next]_vars

-----------------------------------------------------------------------------
\* Only a password that has worked is offered to be remembered (remoteClient.ts:95), unless
\* it was typed for the last host of a chain (sshClient.ts:143): a wrong one that is
\* remembered there fails every connection until it is cleared.
OfferedHasWorked == ~ unproven => offers \subseteq accepted

\* A migration that removes the password from the file has put it in the secret storage,
\* unless the file was edited, or the secret cleared or replaced, since the command took the
\* password from the config the service was loaded with (commandMigratePassword.ts:126).
MigrationKeeps == [][lost' # lost => \E m \in migration : m.edited]_vars
=============================================================================
