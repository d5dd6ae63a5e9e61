------------------------------ MODULE Settings ------------------------------
(***************************************************************************)
(* What the environment of a deployment makes of the server: config.ts     *)
(* refuses to start or fixes which authentication doors are open and which *)
(* classifiers may see a thought.  An environment is a record of the class *)
(* of each variable's trimmed value; an unset one is "blank".              *)
(***************************************************************************)
EXTENDS Integers, Sequences, SequencesExt

CONSTANT MaxSubjects   \* of a legacy list of OAuth subjects

ASSUME SubjectsAssumption == MaxSubjects \in Nat

-----------------------------------------------------------------------------
(* The readers. *)

\* parsePositiveIntegerSetting: digits of a number, something else, or nothing.
IntegerRefused(raw, max) == raw.class # "blank" /\ ~(raw.class = "digits" /\ raw.n \in 1..max)
IntegerSetting(raw, fallback) == IF raw.class = "blank" THEN fallback ELSE raw.n

\* parseBooleanSetting, whose default is false for every switch of these.
SwitchRefused(raw) == raw \notin {"blank", "true", "false"}
On(raw) == raw = "true"

\* An entry of a list of subjects: an id, or "blank", or one with a control character of the first or
\* the second block.
Distinct(list) == \A i, j \in DOMAIN list : list[i] = list[j] => i = j
SubjectsRefused(list) ==
  Len(list) > MaxSubjects \/ ~Distinct(list) \/ ToSet(list) \cap {"blank", "control"} # {}

\* The importer of subject-admin reads the same lists by the rule of stored subjects.
ImportRefused(allowed, services) ==
  \/ allowed = <<>>
  \/ \E list \in {allowed, services} :
       Len(list) > MaxSubjects \/ ~Distinct(list) \/ ToSet(list) \cap {"blank", "control", "c1"} # {}

\* import_subjects fills an empty table: services that are not allowed gain nothing.
Imported(allowed, services) ==
  [subject \in ToSet(allowed) |-> IF subject \in ToSet(services) THEN "service" ELSE "user"]

-----------------------------------------------------------------------------
(* The doors. *)

TrustRoot == {"issuer", "jwks", "audience"}

StaticDoor(env) == env.key # "blank"
NativeDoor(env) == On(env.native)
OAuthDoor(env) == \A url \in TrustRoot : env.auth0[url] # "blank"

DoorsRefused(env) ==
  \/ SwitchRefused(env.native)
  \/ env.key = "short"
  \/ env.principal = "long" \/ (env.principal # "blank" /\ ~StaticDoor(env))
  \/ ~OAuthDoor(env) /\ \E url \in TrustRoot : env.auth0[url] # "blank"
  \/ \E list \in {env.services, env.allowed} : SubjectsRefused(list) \/ (list # <<>> /\ ~OAuthDoor(env))
  \/ ~StaticDoor(env) /\ ~NativeDoor(env) /\ ~OAuthDoor(env)
  \/ OAuthDoor(env) /\ \E url \in TrustRoot : env.auth0[url] # "https"

-----------------------------------------------------------------------------
(* The classifiers and the notification of their degradation. *)

Endpoint(e) == e.base /\ e.model

PrimaryEnabled(env) == On(env.primary) /\ Endpoint(env.chat)
\* Seeded fault: an endpoint that is configured is used, whatever the policy says.
FallbackConfigured(env) == Endpoint(env.fallback)
FallbackEnabled(env) == env.policy # "off" /\ Endpoint(env.fallback)

\* A channel with all it needs to deliver.
Complete(env, channel) ==
  CASE channel = "pushover" -> env.pushover.app /\ env.pushover.user
    [] channel = "ntfy"     -> /\ env.ntfy.topic
                               /\ env.ntfy.url \in {"blank", "plain"}
                               /\ env.ntfy.token \in {"blank", "bearer"}

\* Empty entries of the list are dropped before it is checked: the positions of the others.
Channels(env) == {i \in DOMAIN env.channels : env.channels[i] # "blank"}

MetadataRefused(env) ==
  \/ SwitchRefused(env.primary)
  \/ On(env.primary) /\ ~Endpoint(env.chat)
  \/ env.policy \notin {"off", "alert", "allow"}
  \/ \E i \in Channels(env) : env.channels[i] \notin {"pushover", "ntfy"} \/ ~Complete(env, env.channels[i])
  \/ \E i, j \in Channels(env) : i # j /\ env.channels[i] = env.channels[j]
  \/ env.policy = "alert" /\ Channels(env) = {}

-----------------------------------------------------------------------------
(* What an operator may rely on. *)

\* A server that starts has every door whose settings were given, at least one, and over https alone;
\* what it starts with can be imported and what could be imported also starts, except for the control
\* characters of the second block, which only the importer refuses.
DoorsMeanWhatTheySay(env) ==
  /\ ~DoorsRefused(env) =>
       /\ StaticDoor(env) \/ NativeDoor(env) \/ OAuthDoor(env)
       /\ env.key # "blank" => env.key = "long"
       /\ env.native # "blank" => env.native = IF NativeDoor(env) THEN "true" ELSE "false"
       /\ \A url \in TrustRoot : env.auth0[url] # "blank" => OAuthDoor(env) /\ env.auth0[url] = "https"
       /\ env.principal # "blank" => StaticDoor(env)
       /\ \A list \in {env.allowed, env.services} :
            list # <<>> => OAuthDoor(env) /\ Cardinality(ToSet(list)) = Len(list)
  /\ (~ImportRefused(env.allowed, env.services)) =>
       /\ ~SubjectsRefused(env.allowed) /\ ~SubjectsRefused(env.services)
       /\ DOMAIN Imported(env.allowed, env.services) = ToSet(env.allowed)
  /\ (~DoorsRefused(env) /\ env.allowed # <<>> /\ "c1" \notin ToSet(env.allowed) \cup ToSet(env.services)) =>
       ~ImportRefused(env.allowed, env.services)

\* Under a server that starts no thought reaches the fallback unless an operator asked for it, nor under
\* "alert" without a channel that can tell; a switch that is on is not quietly without an endpoint.
FallbackIsAsked(env) ==
  ~MetadataRefused(env) =>
    /\ FallbackEnabled(env) =>
         \/ env.policy = "allow"
         \/ env.policy = "alert" /\ \E c \in {"pushover", "ntfy"} : c \in ToSet(env.channels) /\ Complete(env, c)
    /\ env.primary = "true" => PrimaryEnabled(env)
    /\ \A c \in ToSet(env.channels) \ {"blank"} : Complete(env, c)

\* A number is the one written or the default, and a delay fits a timer.
NumberIsAsWritten(raw, fallback, max) ==
  ~IntegerRefused(raw, max) =>
    /\ IntegerSetting(raw, fallback) = IF raw.class = "blank" THEN fallback ELSE raw.n
    /\ IntegerSetting(raw, fallback) \in 1..(IF fallback > max THEN fallback ELSE max)
=============================================================================
