------------------------------- MODULE Wizard -------------------------------
(***************************************************************************)
(* The configuration wizard (configWizard.ts): questions that depend on    *)
(* earlier answers, asked by a runner with a Back button and a review that *)
(* jumps to a question (multiStepInput.ts), and the config made of the     *)
(* answers.                                                                *)
(***************************************************************************)
EXTENDS Naturals, Sequences, SequencesExt

CONSTANTS Profiling, \* whether it adds a profile, whose answers start from the base config
          Passphrases, \* the answers considered for the passphrase of a key
          MaxJumps,  \* bound: jumps out of the review
          MaxBacks   \* bound

WizardAssumption ==
  /\ Profiling \subseteq BOOLEAN /\ Passphrases \subseteq {"none", "prompt", "enter"}
  /\ MaxJumps \in Nat /\ MaxBacks \in Nat

\* A question is <<whose, key>>: of the server, of the jump host, or of neither.
Server(key) == <<"server", key>>
Hop(key) == <<"hop", key>>
General(key) == <<"general", key>>
Generals(keys) == [i \in DOMAIN keys |-> General(keys[i])]
Review == General("review")

VARIABLES isProfile,
          picked,  \* the answers that decide on other questions
          given,   \* the questions that have an answer
          steps,   \* those asked and not taken back, the last one on screen
          phase,   \* "asking", "done", "unstored", "cancelled" or "failed"
          written, \* the options of the config that was written, each by its question
          secrets, \* whose passphrases were put in secret storage
          jumps, backs,
          backed   \* history: Back was pressed after a jump

vars == <<isProfile, picked, given, steps, phase, written, secrets, jumps, backs, backed>>

Sides == {"server", "hop"}
Auth == [method : {"password", "key", "agent", "unset"}, passphrase : {"none", "prompt", "enter", "unset"}]
Picks == [protocol : {"sftp", "ftp", "unset"}, server : Auth, hop : Auth, advanced : BOOLEAN,
          mode : {"auto", "stream", "unset"}, hopEnabled : BOOLEAN]

\* The config has been written; "unstored" when the wizard then broke off.
Wrote == phase \in {"done", "unstored"}

TypeOK ==
  /\ picked \in Picks /\ phase \in {"asking", "done", "unstored", "cancelled", "failed"}
  /\ steps # <<>> /\ secrets \subseteq Sides
  /\ Wrote => written \subseteq given \cup {General("strictHostKeyChecking")}

-----------------------------------------------------------------------------
Question(whose, key) == <<whose, key>>
AuthPlan(whose) ==
  CASE picked[whose].method = "key" -> <<Question(whose, "privateKeyPath"), Question(whose, "passphrase")>>
    [] picked[whose].method = "agent" -> <<Question(whose, "agent")>>
    [] OTHER -> <<>>

HostPlan(whose) == [i \in 1..3 |-> Question(whose, <<"host", "port", "username">>[i])]
SideAuth(whose) == <<Question(whose, "authMethod")>> \o AuthPlan(whose)
When(condition, plan) == IF condition THEN plan ELSE <<>>
Sftp == picked.protocol = "sftp"

\* computeStepPlan
Plan ==
  <<General("protocol")>> \o HostPlan("server") \o When(Sftp, SideAuth("server"))
  \o Generals(<<"remotePath", "uploadOnSave", "advancedGate">>)
  \o When(picked.advanced,
       Generals(<<"ignore", "syncOption", "transferMode">>)
       \o When(picked.mode = "stream", <<General("concurrency")>>)
       \o When(Sftp, Generals(<<"strictHostKeyChecking", "hopGate">>)
                     \o When(picked.hopEnabled, HostPlan("hop") \o SideAuth("hop"))))
  \o When(~ isProfile, <<General("name")>>) \o <<Review>>

-----------------------------------------------------------------------------
Naming == IF isProfile THEN Review ELSE General("name")
AfterAuth(whose) == IF whose = "server" THEN General("remotePath") ELSE Naming
AfterTransfer == IF Sftp THEN General("strictHostKeyChecking") ELSE Naming

\* Mutant: the number of parallel transfers is not asked for "stream" either.
AfterModeAny(mode) == AfterTransfer

AfterMode(mode) == IF mode = "stream" THEN General("concurrency") ELSE AfterTransfer

\* The next question in a chain that no answer changes.
Following ==
  [General |-> [remotePath |-> "uploadOnSave", uploadOnSave |-> "advancedGate", ignore |-> "syncOption",
                syncOption |-> "transferMode", strictHostKeyChecking |-> "hopGate"],
   Sided |-> [host |-> "port", port |-> "username", privateKeyPath |-> "passphrase"]]

Now == Last(steps)
Ask(next) == steps' = Append(steps, next)
Kept == UNCHANGED <<isProfile, phase, written, secrets, jumps, backs, backed>>

\* Questions whose answers decide nothing.
AnswerGeneral ==
  /\ phase = "asking" /\ Now[1] = "general" /\ Now[2] \in DOMAIN Following.General
  /\ given' = given \cup {Now} /\ Ask(General(Following.General[Now[2]]))
  /\ UNCHANGED picked /\ Kept

AnswerSided ==
  /\ phase = "asking" /\ Now[1] \in Sides /\ Now[2] \in DOMAIN Following.Sided
  /\ given' = given \cup {Now} /\ Ask(Question(Now[1], Following.Sided[Now[2]]))
  /\ UNCHANGED picked /\ Kept

AnswerProtocol(protocol) ==
  /\ phase = "asking" /\ Now = General("protocol")
  /\ picked' = [picked EXCEPT !.protocol = protocol]
  /\ given' = given \cup {Now} /\ Ask(Server("host"))
  /\ Kept

AnswerUsername ==
  /\ phase = "asking" /\ Now[2] = "username"
  /\ given' = given \cup {Now}
  /\ Ask(IF Sftp \/ Now[1] = "hop" THEN Question(Now[1], "authMethod") ELSE General("remotePath"))
  /\ UNCHANGED picked /\ Kept

AnswerAuthMethod(method) ==
  /\ phase = "asking" /\ Now[2] = "authMethod"
  /\ picked' = [picked EXCEPT ![Now[1]].method = method]
  /\ given' = given \cup {Now}
  /\ Ask(CASE method = "key" -> Question(Now[1], "privateKeyPath")
           [] method = "agent" -> Question(Now[1], "agent")
           [] OTHER -> AfterAuth(Now[1]))
  /\ Kept

\* An agent that was found, or a box of its own to name one in.
AnswerAgent ==
  /\ phase = "asking" /\ Now[2] = "agent"
  /\ \/ given' = given \cup {Now} /\ Ask(AfterAuth(Now[1]))
     \/ Ask(Question(Now[1], "agentManual")) /\ UNCHANGED given
  /\ UNCHANGED picked /\ Kept

AnswerAgentManual ==
  /\ phase = "asking" /\ Now[2] = "agentManual"
  /\ given' = given \cup {Question(Now[1], "agent")} /\ Ask(AfterAuth(Now[1]))
  /\ UNCHANGED picked /\ Kept

AnswerPassphrase(choice) ==
  /\ phase = "asking" /\ Now[2] = "passphrase"
  /\ picked' = [picked EXCEPT ![Now[1]].passphrase = choice]
  /\ LET value == Question(Now[1], "passphraseValue") IN
       /\ given' = (given \cup {Now}) \ (IF choice = "enter" THEN {} ELSE {value})
       /\ Ask(IF choice = "enter" THEN value ELSE AfterAuth(Now[1]))
  /\ Kept

AnswerPassphraseValue ==
  /\ phase = "asking" /\ Now[2] = "passphraseValue"
  /\ given' = given \cup {Now} /\ Ask(AfterAuth(Now[1]))
  /\ UNCHANGED picked /\ Kept

AnswerAdvanced(yes) ==
  /\ phase = "asking" /\ Now = General("advancedGate")
  /\ picked' = [picked EXCEPT !.advanced = yes]
  /\ given' = given \cup {Now} /\ Ask(IF yes THEN General("ignore") ELSE Naming)
  /\ Kept

\* "auto" drops the number of parallel transfers.
Forgotten(mode) == IF mode = "auto" THEN {General("concurrency")} ELSE {}

AnswerMode(mode) ==
  /\ phase = "asking" /\ Now = General("transferMode")
  /\ picked' = [picked EXCEPT !.mode = mode]
  /\ given' = (given \cup {Now}) \ Forgotten(mode) /\ Ask(AfterMode(mode))
  /\ Kept

AnswerConcurrency ==
  /\ phase = "asking" /\ Now = General("concurrency")
  /\ given' = given \cup {Now} /\ Ask(AfterTransfer)
  /\ UNCHANGED picked /\ Kept

AnswerHopGate(yes) ==
  /\ phase = "asking" /\ Now = General("hopGate")
  /\ picked' = [picked EXCEPT !.hopEnabled = yes]
  /\ given' = given \cup {Now} /\ Ask(IF yes THEN Hop("host") ELSE Naming)
  /\ Kept

AnswerName ==
  /\ phase = "asking" /\ Now = General("name")
  /\ given' = given \cup {Now} /\ Ask(Review)
  /\ UNCHANGED picked /\ Kept

-----------------------------------------------------------------------------
\* The step before is asked again; there is no Back at the first one.
Back ==
  /\ phase = "asking" /\ Len(steps) > 1 /\ backs < MaxBacks
  /\ backs' = backs + 1
  /\ steps' = Front(steps)
  /\ backed' = (backed \/ jumps > 0)
  /\ UNCHANGED <<isProfile, picked, given, phase, written, secrets, jumps>>

\* Escape ends the wizard and nothing is written.
Cancel ==
  /\ phase = "asking" /\ phase' = "cancelled"
  /\ UNCHANGED <<isProfile, picked, given, steps, written, secrets, jumps, backs, backed>>

\* The review leads back to a question, from which the chain goes on.
Jump ==
  /\ phase = "asking" /\ Now = Review /\ jumps < MaxJumps
  /\ jumps' = jumps + 1
  /\ \E to \in {Server("host"), General("remotePath"), General("uploadOnSave"), General("advancedGate")}
                \cup (IF picked.advanced /\ picked.hopEnabled THEN {Hop("host")} ELSE {})
                \cup (IF isProfile THEN {} ELSE {General("name")}) :
       Ask(to)
  /\ UNCHANGED <<isProfile, picked, given, phase, written, secrets, backs, backed>>

\* buildHostAuthConfig; an answer that is missing leaves its option out.
HostAuthConfig(whose) ==
  {q \in given : q[1] = whose /\ q[2] \in {"host", "port", "username"}}
  \cup (CASE picked[whose].method = "key" ->
               {Question(whose, "privateKeyPath")}
               \cup (IF picked[whose].passphrase \in {"prompt", "enter"} THEN {Question(whose, "passphrase")} ELSE {})
          [] picked[whose].method = "agent" -> {Question(whose, "agent")} \cap given
          [] OTHER -> {})

WithHop == picked.advanced /\ Sftp /\ picked.hopEnabled

\* buildConfigFromState
BuildConfig ==
  HostAuthConfig("server")
  \cup ({General(key) : key \in {"name", "protocol", "remotePath", "uploadOnSave"}} \cap given)
  \cup (IF Sftp /\ (isProfile => General("strictHostKeyChecking") \in given)
        THEN {General("strictHostKeyChecking")} ELSE {})
  \cup (IF picked.advanced
        THEN {General(key) : key \in {"ignore", "syncOption", "transferMode", "concurrency"}} \cap given ELSE {})
  \cup (IF WithHop THEN HostAuthConfig("hop") ELSE {})

\* collectPendingSecrets
PendingSecrets ==
  {whose \in IF picked.advanced /\ picked.hopEnabled THEN Sides ELSE {"server"} :
     picked[whose].method = "key" /\ picked[whose].passphrase = "enter"
     /\ Question(whose, "passphraseValue") \in given}

\* A key whose path was never asked for: path.resolve of nothing throws, and the wizard ends.
NoKeyPath ==
  \E whose \in IF WithHop THEN Sides ELSE {"server"} :
    picked[whose].method = "key" /\ Question(whose, "privateKeyPath") \notin given

\* The passphrase of a jump host of which the config has nothing, since the protocol became
\* "ftp": reading config.hop.host throws before any is stored.
NoHopToName == "hop" \in PendingSecrets /\ ~ WithHop

\* The review is confirmed, the config written and the passphrases stored.
Finish ==
  /\ phase = "asking" /\ Now = Review /\ ~ NoKeyPath
  /\ phase' = (IF NoHopToName THEN "unstored" ELSE "done")
  /\ written' = BuildConfig /\ secrets' = (IF NoHopToName THEN secrets ELSE secrets \cup PendingSecrets)
  /\ UNCHANGED <<isProfile, picked, given, steps, jumps, backs, backed>>

Fails ==
  /\ phase = "asking" /\ Now = Review /\ NoKeyPath
  /\ phase' = "failed"
  /\ UNCHANGED <<isProfile, picked, given, steps, written, secrets, jumps, backs, backed>>

\* The connection test failed and the user goes back to the review, as a run of its own.
Retry ==
  /\ phase = "done" /\ jumps < MaxJumps
  /\ phase' = "asking" /\ steps' = <<Review>> /\ jumps' = jumps + 1
  /\ UNCHANGED <<isProfile, picked, given, written, secrets, backs, backed>>

-----------------------------------------------------------------------------
NoAuth == [method |-> "unset", passphrase |-> "unset"]
NoPicks == [protocol |-> "unset", server |-> NoAuth, hop |-> NoAuth, advanced |-> FALSE,
            mode |-> "unset", hopEnabled |-> FALSE]

\* wizardStateFromBase: the answers of a profile are those of a base config that uses a key.
FromBase == [NoPicks EXCEPT !.protocol = "sftp", !.server = [method |-> "key", passphrase |-> "prompt"]]
GivenByBase ==
  {General(key) : key \in {"protocol", "remotePath", "uploadOnSave", "name"}}
  \cup {Server(key) : key \in {"host", "port", "username", "authMethod", "privateKeyPath", "passphrase"}}

Init ==
  /\ isProfile \in Profiling
  /\ picked = (IF isProfile THEN FromBase ELSE NoPicks)
  /\ given = (IF isProfile THEN GivenByBase ELSE {})
  /\ steps = <<General("protocol")>> /\ phase = "asking" /\ written = {} /\ secrets = {}
  /\ jumps = 0 /\ backs = 0 /\ backed = FALSE

Next ==
  \/ AnswerGeneral \/ AnswerSided \/ AnswerUsername \/ AnswerAgent \/ AnswerAgentManual
  \/ AnswerPassphraseValue \/ AnswerConcurrency \/ AnswerName
  \/ \E protocol \in {"sftp", "ftp"} : AnswerProtocol(protocol)
  \/ \E method \in {"password", "key", "agent"} : AnswerAuthMethod(method)
  \/ \E choice \in Passphrases : AnswerPassphrase(choice)
  \/ \E yes \in BOOLEAN : AnswerAdvanced(yes) \/ AnswerHopGate(yes)
  \/ \E mode \in {"auto", "stream"} : AnswerMode(mode)
  \/ Back \/ Cancel \/ Jump \/ Finish \/ Fails \/ Retry

Spec == Init /\ [][Next]_vars

-----------------------------------------------------------------------------
Planned == ToSet(Plan) \ {Review}

\* The chain of questions and the plan that numbers them agree: who confirms the review has
\* answered every question of the plan. A Back from a question that was jumped to returns to
\* the review early.
PlanIsAnswered == Wrote /\ ~ backed => Planned \subseteq given

\* "the chain then continues forward through every step after it ... until review is reached
\* again" (configWizard.ts:784): so the review always follows a complete chain.
ReviewFollowsPlan == phase = "done" => Planned \subseteq given

\* What is written answers a question of the plan, so that no option is left from an answer
\* taken back; the policy for host keys is written whatever the answer to "advanced options"
\* became, and the key or the agent of the server for "ftp" too; and who goes Back behind a
\* jump may answer "concurrency" again after "auto" has done away with the question.
Leftover == {q \in written : q \notin Planned /\ q # General("name")}
OnlyPlannedIsWritten ==
  Wrote => Leftover \subseteq {General("strictHostKeyChecking")}
                      \cup (IF Sftp THEN {} ELSE {Server("privateKeyPath"), Server("passphrase"), Server("agent")})
                      \cup (IF backed THEN {General("concurrency")} ELSE {})
=============================================================================
