----------------------------- MODULE ModelRoles -----------------------------
(***************************************************************************)
(* Which model answers for which role: the configuration file and the      *)
(* older variables of the environment are read once, merged, resolved and  *)
(* published when the application starts (core/model_access).  A model is  *)
(* what it is able to do, the time it may take, where it comes from, and   *)
(* the models named as its fallbacks: the start examines those like the    *)
(* model itself, no run ever asks them.                                    *)
(***************************************************************************)
EXTENDS Naturals, Sequences, FiniteSets, SequencesExt, FiniteSetsExt

CONSTANTS
  FileModels,   \* names of the models of the file
  FileAble,     \* their capabilities
  Files,        \* the "roles" of the files that may be read: role -> binding
  Settings      \* the environments the process may have

Optional == {"compression", "video_vision"}
Needed == {"main", "structured", "small", "structured_fast", "memory"}
Roles == Needed \cup Optional

\* what a model may be able to do; legacy_capabilities declares all of it
Abilities == {"text", "images", "streaming", "tools", "tool_choice"}

\* Bindings (RoleBinding): a model or another role, and the names of fallbacks
ByModel(name, spare) == [by |-> "model", name |-> name, fallback |-> spare]
ByRole(role, spare) == [by |-> "inherit", name |-> role, fallback |-> spare]
Off == [by |-> "off", name |-> "none", fallback |-> {}]
\* neither or both of a model and a role, a switched off role with a fallback, or a model the
\* file does not describe: an error whoever reads it
Unclear == [by |-> "both", name |-> "none", fallback |-> {}]
\* in place of a model: an error was raised
Refused == [by |-> "refused", name |-> "none", fallback |-> {}]

\* the fallbacks a binding may name; "none" is the name of no model
Spares == SUBSET (FileModels \cup {"none"})

\* a file binds some of the roles; its models do not have the names of the environment's
ASSUME RolesAssumption ==
  /\ FileAble \in [FileModels -> SUBSET Abilities]
  /\ FileModels \cap (Roles \cup {"none"}) = {}
  /\ \A f \in Files :
       /\ DOMAIN f \subseteq Roles
       /\ f \in [DOMAIN f -> {Off, Unclear}
                               \cup {ByModel(name, spare) : name \in FileModels, spare \in Spares}
                               \cup {ByRole(role, spare) : role \in Roles, spare \in Spares}]
  /\ \A s \in Settings :
       /\ s.structured \in Nat /\ s.compression \in Nat
       /\ s.compress \in BOOLEAN /\ s.vision \in BOOLEAN
       /\ s.identity \in [Roles -> {"none", "part", "whole"}]

VARIABLES
  file,        \* the roles of the file MODEL_CONFIG_PATH names, none without a file
  settings,    \* os.environ
  secrets,     \* the credential the file refers to is set
  started,     \* "no", "yes", "refused": whether initialize was called, or raised
  published    \* _published

rolesVars == <<file, settings, secrets, started, published>>

RolesInit ==
  /\ file \in Files
  /\ settings \in Settings
  /\ secrets \in BOOLEAN
  /\ started = "no" /\ published = <<>>

-----------------------------------------------------------------------------
\* REQUIRED
Required ==
  [main |-> {"text", "tools", "streaming"}, small |-> {"text"},
   structured |-> {"text", "tools", "tool_choice"},
   structured_fast |-> {"text", "tools", "tool_choice"},
   memory |-> {"text", "tools"}, compression |-> {"text"},
   video_vision |-> {"text", "images"}]

\* validate_capabilities
Able(role, profile, streaming) ==
  Required[role] \cup (IF streaming THEN {"streaming"} ELSE {}) \subseteq profile.able

\* STRUCTURED_TIMEOUT_MS, and the one of compression before it
OwnTimeout(role) ==
  CASE role \in {"memory", "structured_fast"} -> settings.structured
    [] role = "compression" ->
         IF settings.compression > 0 THEN settings.compression ELSE settings.structured
    [] OTHER -> 0

-----------------------------------------------------------------------------
\* The environment (EnvConfigRepository.configuration)

\* the roles that had their own variables and take a standard endpoint lack nothing else
Identity(role) == settings.identity[role]

EnvModel(role) ==
  [from |-> <<"env", role>>, able |-> Abilities, fallback |-> {},
   timeout |-> IF role = "structured" THEN settings.structured ELSE OwnTimeout(role)]

FileModel(name) ==
  [from |-> <<"file", name>>, able |-> FileAble[name], fallback |-> {}, timeout |-> 0]

\* what a name stands for; the environment's models have the names of their roles
ModelOf(name) == IF name \in FileModels THEN FileModel(name) ELSE EnvModel(name)

\* CONTEXT_COMPRESSION_ENABLED, off by default, and VIDEO_VISION_ENABLED, on by default
Disabled(role) ==
  \/ role = "compression" /\ ~settings.compress
  \/ role = "video_vision" /\ ~settings.vision

Incomplete(roles) ==
  \E r \in Roles \ DOMAIN roles : ~Disabled(r) /\ Identity(r) = "part"

\* a role the file does not name is off, or has the model of its variables
Configured(roles) ==
  [r \in DOMAIN roles \cup {q \in Roles : Disabled(q) \/ Identity(q) = "whole"} |->
     IF r \in DOMAIN roles THEN roles[r] ELSE IF Disabled(r) THEN Off ELSE ByModel(r, {})]

\* INHERIT
Inherit ==
  [structured_fast |-> <<"small">>,
   memory |-> <<"structured_fast", "structured", "small", "main">>,
   compression |-> <<"memory", "structured_fast", "structured", "small", "main">>,
   video_vision |-> <<"main">>]

\* the first of a role's candidates
FirstOf(role, places) == Inherit[role][Min(places)]

FaultyParents(roles, explicit, role) ==
  {n \in DOMAIN Inherit[role] :
     Inherit[role][n] \in DOMAIN roles /\ roles[Inherit[role][n]] # Off}

\* the places of the candidates a role may borrow its model from; memory does not borrow a
\* borrowed one
Parents(roles, explicit, role) ==
  {n \in DOMAIN Inherit[role] :
     LET c == Inherit[role][n] IN
     c \in DOMAIN roles /\ roles[c] # Off /\ (role = "memory" => c \in explicit)}

Borrow(roles, explicit, role) ==
  IF role \in DOMAIN roles \/ Parents(roles, explicit, role) = {} THEN roles
  ELSE [r \in DOMAIN roles \cup {role} |->
          IF r \in DOMAIN roles THEN roles[r]
          ELSE ByRole(FirstOf(role, Parents(roles, explicit, role)), {})]

Merged(roles) ==
  LET configured == Configured(roles)
      explicit == DOMAIN configured
  IN
  Borrow(Borrow(Borrow(Borrow(configured, explicit, "structured_fast"),
                       explicit, "memory"),
                explicit, "compression"),
         explicit, "video_vision")

-----------------------------------------------------------------------------
\* Resolution (resolve)

FaultyInherited(role, parent, spare, own) ==
  LET borrowed == [parent EXCEPT !.fallback = IF spare # {} THEN spare ELSE parent.fallback] IN
  IF OwnTimeout(role) > 0 THEN [borrowed EXCEPT !.timeout = OwnTimeout(role)] ELSE borrowed

\* the parent's model, with the role's own fallbacks when it names some, and its own time when
\* the role is not one of the file's
Inherited(role, parent, spare, own) ==
  LET borrowed == [parent EXCEPT !.fallback = IF spare # {} THEN spare ELSE parent.fallback] IN
  IF role \in own /\ OwnTimeout(role) > 0
    THEN [borrowed EXCEPT !.timeout = OwnTimeout(role)]
    ELSE borrowed

\* a fallback is a model of the file that can do the work of the role
Stands(role, name) == name \in FileModels /\ Able(role, FileModel(name), FALSE)

\* an enabled role needs its capabilities, of its model and of every fallback; one that is
\* needed may not be disabled
Fit(role, profile) ==
  IF profile = Off THEN role \in Optional
  ELSE Able(role, profile, FALSE) /\ \A name \in profile.fallback : Stands(role, name)

\* the model of a binding, Refused after an error, when "below" tells those of the roles it
\* may inherit from
ModelFor(role, binding, own, below) ==
  LET parent == IF binding.name \in DOMAIN below THEN below[binding.name] ELSE Refused IN
  CASE binding.by = "off" -> Off
    [] binding.by = "model" -> [ModelOf(binding.name) EXCEPT !.fallback = binding.fallback]
    [] binding.by = "inherit" /\ parent \notin {Refused, Off} ->
         Inherited(role, parent, binding.fallback, own)
    [] OTHER -> Refused

FaultyChecked(role, profile) ==
  IF profile # Refused /\ (profile = Off \/ Able(role, profile, FALSE)) THEN profile ELSE Refused

Checked(role, profile) ==
  IF profile # Refused /\ Fit(role, profile) THEN profile ELSE Refused

\* visit
Visit(roles, own, below) ==
  [role \in DOMAIN roles |-> Checked(role, ModelFor(role, roles[role], own, below))]

\* A chain of seven bindings has met every role; a longer one has met a role twice.
Resolve(roles, own) ==
  LET one == Visit(roles, own, [role \in DOMAIN roles |-> Refused])
      two == Visit(roles, own, one)
      three == Visit(roles, own, two)
      four == Visit(roles, own, three)
      five == Visit(roles, own, four)
      six == Visit(roles, own, five)
  IN Visit(roles, own, six)

Resolves(models) == \A role \in DOMAIN models : models[role] # Refused

\* FileConfigRepository.load and EnvConfigRepository.load: the file has to resolve by
\* itself before the environment may add roles to it.
Load == Resolve(Merged(file), Roles \ DOMAIN file)
Loads == Resolves(Resolve(file, {})) /\ ~Incomplete(file) /\ Resolves(Load)

\* SecretResolver.resolve
HasSecret(profile) == profile.from[1] = "env" \/ secrets

\* initialize: the roles every run needs are there and their credentials are set
Initialize ==
  /\ started = "no"
  /\ IF Loads /\ \A role \in Needed : role \in DOMAIN Load /\ HasSecret(Load[role])
       THEN started' = "yes" /\ published' = Load
       ELSE started' = "refused" /\ UNCHANGED published
  /\ UNCHANGED <<file, settings, secrets>>

\* ModelFactory.get builds a model
Gets(role, streaming) ==
  /\ role \in DOMAIN published /\ published[role] # Off
  /\ Able(role, published[role], streaming)
  /\ HasSecret(published[role])

RolesNext == Initialize

-----------------------------------------------------------------------------
InFile(role) == role \in DOMAIN file
InVariables(role) == Identity(role) = "whole"

\* the roles a role of the file leads to by inheritance, itself included
Chain(role) ==
  {r \in Roles : \A S \in SUBSET Roles :
     /\ role \in S
     /\ \A q \in S \cap DOMAIN file : file[q].by = "inherit" => file[q].name \in S
     => r \in S}

\* the models a binding of the file names, as its own or as fallbacks
Suggested(binding) ==
  (IF binding.by = "model" THEN {binding.name} ELSE {}) \cup (binding.fallback \cap FileModels)

\* A role the file names has the model its chain of inheritance ends in, exactly as the
\* file describes it, whatever the environment says, and the fallbacks its binding names, or
\* those of another role of the chain when it names none.
FileIsObeyed ==
  started = "yes" => \A role \in DOMAIN file :
    \/ published[role] = Off /\ file[role] = Off
    \/ \E r, q \in Chain(role) :
         /\ file[r].by = "model"
         /\ published[role] = [FileModel(file[r].name) EXCEPT !.fallback = file[q].fallback]
         /\ file[role].fallback # {} => file[q].fallback = file[role].fallback

\* A role of neither the file nor the variables has the model and the fallbacks of the first
\* of its candidates that is, in however many steps they were borrowed, within its own time
\* limit if it has one.
BorrowedOnce ==
  started = "yes" => \A role \in DOMAIN published :
    ~InFile(role) /\ ~InVariables(role) /\ published[role] # Off =>
      LET places == {n \in DOMAIN Inherit[role] :
                       InFile(Inherit[role][n]) \/ InVariables(Inherit[role][n])}
          owner == published[FirstOf(role, places)]
      IN
      /\ published[role].from = owner.from /\ published[role].fallback = owner.fallback
      /\ published[role].timeout = IF OwnTimeout(role) > 0 THEN OwnTimeout(role) ELSE owner.timeout

\* After a start that succeeded no request for the model of a needed role fails, main can
\* stream its answer, and whatever stands in for a model can do its work.
ModelsAreThere ==
  started = "yes" => \A role \in Needed :
    Gets(role, role = "main") /\ \A name \in published[role].fallback : Stands(role, name)

\* A complete configuration starts: whole identities of main, structured and small, or a
\* file that resolves and names every needed role, unless an identity is incomplete, the
\* file's credential is not set, or a role the file does not name would borrow a model, or a
\* fallback, that cannot do its work; video_vision, on by default, is such a role too.
CompleteStarts ==
  started = "refused" =>
    \/ \E role \in Roles : Identity(role) = "part"
    \/ ~Resolves(Resolve(file, {}))
    \/ DOMAIN file # {} /\ ~secrets
    \/ \E role, r \in Roles :
         /\ ~InFile(role) /\ InFile(r)
         /\ \E name \in Suggested(file[r]) : ~Able(role, FileModel(name), FALSE)
    \/ ~(Needed \subseteq DOMAIN file) /\ \E role \in {"main", "structured", "small"} : ~InVariables(role)

ConfigResolves == FileIsObeyed /\ BorrowedOnce /\ ModelsAreThere /\ CompleteStarts
=============================================================================
