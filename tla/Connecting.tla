----------------------------- MODULE Connecting -----------------------------
(* What surrounds a connection, side by side: the host key check, the remembered   *)
(* passwords, the wizard that writes the configuration, and the limit of the        *)
(* descriptors. `part` says which of them moves: they share no state, so a state of *)
(* one is not multiplied by those of the others.                                   *)
EXTENDS Integers, Sequences

CONSTANTS Parts,                             \* those that may move
          Hosts, Verifiers, Keys, Policies, Files, FirstStores, FirstOffers, MaxRebuilds,
          Calls, MaxOpenFds,
          Passwords, Attempts, Routes, MaxCommands,
          Profiling, Passphrases, MaxJumps, MaxBacks

VARIABLES part,
          policy, store, offers, rebuilds, check, forget, fresh, remembered, raced,
          opened, queued, pops, fd,
          right, inFile, inConfig, stored, attempt, offered, migration, commands, accepted,
          unproven, lost,
          isProfile, picked, given, steps, phase, written, secrets, jumps, backs, backed

keyVars == <<policy, store, offers, rebuilds, check, forget, fresh, remembered, raced>>
handleVars == <<opened, queued, pops, fd>>
secretVars == <<right, inFile, inConfig, stored, attempt, offered, migration, commands, accepted,
                unproven, lost>>
setupVars == <<isProfile, picked, given, steps, phase, written, secrets, jumps, backs, backed>>
vars == <<part, keyVars, handleVars, secretVars, setupVars>>

HostKey == INSTANCE HostKeys
Handle == INSTANCE FdLimiter
Secret == INSTANCE Credentials WITH offers <- offered
Setup == INSTANCE Wizard

ASSUME ConnectingAssumption ==
  /\ Parts \subseteq {"hostKey", "handle", "secret", "setup"}
  /\ HostKey!HostKeyAssumption /\ Handle!FdAssumption
  /\ Secret!CredentialsAssumption /\ Setup!WizardAssumption

\* A part that stands still begins in one state.
Some(S) == CHOOSE x \in S : TRUE
Init ==
  /\ part \in Parts
  /\ HostKey!Init /\ (part # "hostKey" => \A h \in Hosts : policy[h] = Some(Policies))
  /\ Handle!Init
  /\ Secret!Init /\ (part # "secret" => /\ right = Some(Passwords) /\ inFile = "none"
                                        /\ \A a \in Attempts : attempt[a].route = Some(Routes))
  /\ Setup!Init /\ (part # "setup" => isProfile = Some(Profiling))

Only(p) == part = p /\ UNCHANGED part
Next ==
  \/ Only("hostKey") /\ HostKey!Next /\ UNCHANGED <<handleVars, secretVars, setupVars>>
  \/ Only("handle") /\ Handle!Next /\ UNCHANGED <<keyVars, secretVars, setupVars>>
  \/ Only("secret") /\ Secret!Next /\ UNCHANGED <<keyVars, handleVars, setupVars>>
  \/ Only("setup") /\ Setup!Next /\ UNCHANGED <<keyVars, handleVars, secretVars>>

Spec == Init /\ [][Next]_vars

-----------------------------------------------------------------------------
\* No variable leaves its type.
TypeOK ==
  CASE part = "hostKey" -> HostKey!TypeOK
    [] part = "handle" -> Handle!TypeOK
    [] part = "secret" -> Secret!TypeOK
    [] part = "setup" -> Setup!TypeOK

\* What is remembered, or let pass, has been proven: a host key against the files
\* (hostKeyVerifier.ts, hostKeyStore.ts), a password against the server
\* (remoteClient.ts:95); and no second key of a type silences the warnings for a host. Not of
\* keys stored on a look that no longer held (hostKeyVerifier.ts:174), nor of a password typed
\* for the last host of a chain (sshClient.ts:143): there it does not hold.
OnlyProvenIsTrusted == HostKey!Vouched /\ HostKey!OneKeyPerType /\ Secret!OfferedHasWorked

\* What the user entrusted to the extension is still somewhere: the host keys it stored,
\* also after another host is forgotten, unless a rewrite raced with storing one
\* (hostKeyStore.ts:460), and the password that the migration took out of the file, unless
\* file or secret changed since the command read it (commandMigratePassword.ts:126).
NothingEntrustedIsLost == []HostKey!StoredKeysStay /\ Secret!MigrationKeeps

\* No variable leaves its type; the descriptor counter counts what it should once the
\* answers are in, refused requests among them, and a request that was put off has one to
\* wait for unless one was refused (sshClient.ts:281).
HandlesAccounted == TypeOK /\ Handle!CounterAccounts /\ Handle!SomebodyReleases

\* The config the wizard writes holds the answers to the questions of its plan, all of
\* them unless Back was pressed behind a jump, and nothing else but the policy for host keys,
\* the key or agent of the server for "ftp", and "concurrency" after such a Back, whatever
\* was jumped to and gone back over (configWizard.ts).
WizardWritesThePlan == Setup!PlanIsAnswered /\ Setup!OnlyPlannedIsWritten
=============================================================================
