------------------------------ MODULE Options ------------------------------
(***************************************************************************)
(* How a setting gets from the application to the Rust session: the client *)
(* options (client-options.js), the configuration of the load balancing    *)
(* policies (policies/load-balancing.js), the execution profiles           *)
(* (execution-profile.ts) and the options of one execution                 *)
(* (execution-options.js, query-options.js).                               *)
(*                                                                         *)
(* The application may build several clients from one options object.  The *)
(* objects they then share are on heaps: the profiles, the arrays of       *)
(* profiles and the LoadBalancingConfigs.  A setting is a string, or       *)
(* "undefined"; a key an object does not have is "absent".                 *)
(***************************************************************************)
EXTENDS Naturals, Sequences, SequencesExt, FiniteSets, TLC

CONSTANTS
    Users,          \* the application's client options objects
    UserPolicies,   \* the load balancing policies they use, by name
    UserConfigs,    \* the LoadBalancingConfigs of those, by number
    UserProfiles,   \* the ExecutionProfiles of the application, by number
    UserArrays,     \* its arrays of profiles, by number
    UserQueries,    \* the options it executes queries with
    HostNames,
    MaxClients, MaxExecutions

VARIABLES profiles, arrays, configs, clients, executions

optionsVars == <<profiles, arrays, configs, clients, executions>>

OptionsInit ==
    /\ profiles = UserProfiles /\ arrays = UserArrays /\ configs = UserConfigs
    /\ clients = <<>> /\ executions = <<>>

--------------------------------------------------------------------------
(* client-options.js: extend() and its validators                          *)

\* The checks in the order they are made, each of one setting.
PoliciesChecks ==
    <<"policies", "loadBalancing", "reconnection", "retry", "addressResolution",
      "timestampGeneration">>
ProtocolChecks == <<"protocolOptions", "maxVersion">>
SocketChecks == <<"socketOptions", "readTimeout", "coalescingThreshold">>
EncodingChecks == <<"encoding.map", "encoding.set">>
LogLevelChecks == <<"logLevel">>
ApplicationChecks == <<"applicationName", "applicationVersion", "id">>

ChecksBeforeAuth ==
    <<"contactPoints", "contactPoint", "queryOptions", "requestTracker", "metrics">>
    \o PoliciesChecks \o ProtocolChecks \o SocketChecks
ChecksAfterAuth == EncodingChecks \o LogLevelChecks \o <<"profiles">> \o ApplicationChecks

FirstBad(checks, user) ==
    LET bad == SelectSeq(checks, LAMBDA check : check \in user.bad)
    IN IF bad = <<>> THEN "none" ELSE bad[1]

\* The credentials are looked at only when there is no auth provider.
AuthError(user) ==
    CASE user.provider = "none" -> IF user.credentials = "invalid" THEN "credentials" ELSE "none"
      [] user.provider = "not a provider" -> "authProvider"
      [] OTHER -> "none"

ExtendError(user) ==
    LET errors == <<FirstBad(ChecksBeforeAuth, user), AuthError(user),
                    FirstBad(ChecksAfterAuth, user)>>
        found  == SelectSeq(errors, LAMBDA e : e # "none")
    IN IF found = <<>> THEN "none" ELSE found[1]

\* utils.deepExtend() of the defaults: a key set to undefined replaces them too.
DeepExtend(defaults, given) ==
    [o \in DOMAIN given |-> IF given[o] = "absent" THEN defaults[o] ELSE given[o]]

DefaultQueryOptions ==
    [consistency |-> "undefined", serialConsistency |-> "undefined", readTimeout |-> "12000",
     fetchSize |-> "5000", isIdempotent |-> "undefined", retry |-> "RetryPolicy"]

--------------------------------------------------------------------------
(* policies/load-balancing.js: getRustConfiguration()                      *)

NewConfig(dc, allow) == [tokenAware |-> FALSE, dc |-> dc, allow |-> allow]

\* What one answers with: an object of its own, or a LoadBalancingConfig (at # 0).
Config(heap, at, value) == [error |-> FALSE, heap |-> heap, at |-> at, value |-> value]

\* A wrapper writes to the object its child answered with, whichever it is.
Written(r, value) ==
    [r EXCEPT !.value = value,
              !.heap = IF r.at = 0 THEN @ ELSE [@ EXCEPT ![r.at] = value]]

\* (fault) The outer list replaces the one of the child.
AllowedBy_Outer(allow, childs) == <<allow>>

\* The hosts both lists have, when the child's configuration has one.
AllowedBy(allow, childs) == IF childs = <<>> THEN <<allow>> ELSE <<allow \cap childs[1]>>

RECURSIVE GetRustConfiguration(_, _)
GetRustConfiguration(name, heap) ==
    LET policy == UserPolicies[name]
        child  == GetRustConfiguration(policy.child, heap)
    IN CASE policy.kind = "RoundRobin" -> Config(heap, 0, NewConfig("", <<>>))
         [] policy.kind = "DCAware" -> Config(heap, 0, NewConfig(policy.dc, <<>>))
         [] policy.kind = "Default" -> Config(heap, policy.config, heap[policy.config])
         [] policy.kind = "unsupported" ->
                [Config(heap, 0, NewConfig("", <<>>)) EXCEPT !.error = TRUE]
         [] policy.kind = "TokenAware" ->
                Written(child, [child.value EXCEPT !.tokenAware = TRUE])
         [] policy.kind = "AllowList" ->
                Written(child, [child.value EXCEPT !.allow = AllowedBy(policy.allow, @)])

--------------------------------------------------------------------------
(* client-options.js: setRustOptions()                                     *)

\* The credentials win over the provider.
RustCredentials(user) ==
    IF user.credentials # "none" THEN user.credentials
    ELSE IF user.provider = "PlainText" THEN "provider's" ELSE "none"

\* normalizeSslOptions()
SslError(ssl) == ssl.badKey \/ ssl.cert # ssl.key \/ (ssl.pfx /\ ssl.cert)

RustError(user, lbError) ==
    CASE user.credentials = "none" /\ user.provider = "custom" -> "authProvider"
      [] lbError -> "loadBalancing"
      [] user.retry = "custom" -> "retry"
      [] user.translator \notin {"absent", "AddressTranslator", "Mapping"} -> "addressResolution"
      [] user.ssl # <<>> /\ SslError(user.ssl[1]) -> "sslOptions"
      [] user.unsupported # {} -> "not supported"
      [] OTHER -> "none"

RustOptions(user, lb) ==
    [credentials |-> RustCredentials(user), lb |-> lb,
     retry |-> IF user.retry = "absent" THEN "RetryPolicy" ELSE user.retry,
     mapping |-> user.translator = "Mapping", ssl |-> user.ssl]

--------------------------------------------------------------------------
(* execution-profile.ts: ProfileManager                                    *)

Named(heap, array, name) == SelectSeq(array, LAMBDA p : heap[p].name = name)

\* v1 || v2
Or(v1, v2) == IF v1 \in {"undefined", "null"} THEN v2 ELSE v1

EmptyProfile(name) ==
    [name |-> name, consistency |-> "undefined", serialConsistency |-> "undefined",
     readTimeout |-> "undefined", retry |-> "undefined", loadBalancing |-> "undefined"]

\* (fault) A default profile is pushed even when the array has one.
DefaultProfile_Always(heap, array) == 0

\* The first profile named default, 0 when one has to be made.
DefaultProfile(heap, array) ==
    LET defaults == Named(heap, array, "default") IN IF defaults = <<>> THEN 0 ELSE defaults[1]

\* The constructor: the default profile gets the policies of the client and is
\* pushed to the array of the options; the others get its load balancing.
ProfileManager(user, heap, array) ==
    LET found  == DefaultProfile(heap, array)
        heap1  == IF found # 0 THEN heap ELSE Append(heap, EmptyProfile("default"))
        list   == IF found # 0 THEN array ELSE Append(array, Len(heap1))
        at     == IF found # 0 THEN found ELSE Len(heap1)
        heap2  == [heap1 EXCEPT ![at].loadBalancing = Or(@, user.loadBalancing),
                                ![at].retry = Or(@, IF user.retry = "absent" THEN "RetryPolicy"
                                                    ELSE user.retry)]
    IN [array |-> list,
        heap  |-> [p \in DOMAIN heap2 |->
                      IF p \notin ToSet(list) THEN heap2[p]
                      ELSE [heap2[p] EXCEPT !.loadBalancing = Or(@, heap2[at].loadBalancing)]]]

Failed(user, error) == [user |-> user, state |-> "failed", error |-> error]

\* new Client(options): extend(), setRustOptions(), then the ProfileManager.
NewClient(u) ==
    LET user  == Users[u]
        lb    == GetRustConfiguration(user.loadBalancing, configs)
        error == RustError(user, lb.error)
        at    == IF user.array = 0 THEN Len(arrays) + 1 ELSE user.array
        made  == ProfileManager(user, profiles,
                                IF user.array = 0 THEN <<>> ELSE arrays[user.array])
        names == {made.heap[p].name : p \in ToSet(made.array)}
    IN /\ Len(clients) < MaxClients
       /\ IF ExtendError(user) # "none"
          THEN /\ clients' = Append(clients, Failed(u, ExtendError(user)))
               /\ UNCHANGED <<profiles, arrays, configs>>
          ELSE IF error # "none"
          THEN /\ clients' = Append(clients, Failed(u, error))
               /\ configs' = IF error = "authProvider" THEN configs ELSE lb.heap
               /\ UNCHANGED <<profiles, arrays>>
          ELSE /\ configs' = lb.heap
               /\ profiles' = made.heap
               /\ arrays' = IF user.array = 0 THEN Append(arrays, made.array)
                            ELSE [arrays EXCEPT ![at] = made.array]
               /\ clients' = Append(clients,
                     [user |-> u, state |-> "made", error |-> "none",
                      rust |-> RustOptions(user, lb),
                      query |-> DeepExtend(DefaultQueryOptions,
                                           [user.query EXCEPT !.retry = user.retry]),
                      map |-> [n \in names |-> Last(Named(made.heap, made.array, n))]])
       /\ UNCHANGED executions

\* connect(): the session is created from the options objects as they are now.
ConnectClient(k) ==
    /\ clients[k].state = "made"
    /\ clients' = [clients EXCEPT ![k].state = "connected",
                       ![k].rust.lb.value = IF clients[k].rust.lb.at = 0 THEN @
                                            ELSE configs[clients[k].rust.lb.at]]
    /\ UNCHANGED <<profiles, arrays, configs, executions>>

--------------------------------------------------------------------------
(* execution-options.js, query-options.js                                  *)

\* (fault) The value is tested for being truthy.
IfUndefined_Falsy(v1, v2) == IF v1 \in {"undefined", "0", "false", "null"} THEN v2 ELSE v1

IfUndefined(v1, v2) == IF v1 # "undefined" THEN v1 ELSE v2

\* The options a profile has a say in, and all those of an execution.
OfProfile == {"consistency", "serialConsistency", "readTimeout", "retry"}
OfExecution == OfProfile \cup {"fetchSize", "isIdempotent"}

\* The getters: the query's own setting, the profile's, the client's.
Resolved(o, query, profile, defaults) ==
    IF o \in OfProfile
    THEN IfUndefined(query[o], IfUndefined(profile[o], defaults[o]))
    ELSE IfUndefined(query[o], defaults[o])

\* client.createOptions(): the profile is looked up, and the wrapper for Rust is made
\* at once and kept.
CreateOptions(k, query) ==
    LET name == IF query.profile = "undefined" THEN "default" ELSE query.profile
        known == name \in DOMAIN clients[k].map
        profile == profiles[clients[k].map[name]]
    IN /\ clients[k].state # "failed"
       /\ Len(executions) < MaxExecutions
       /\ executions' = Append(executions,
             IF ~known THEN [client |-> k, query |-> query, error |-> TRUE]
             ELSE [client |-> k, query |-> query, error |-> FALSE,
                   loadBalancing |-> profile.loadBalancing,
                   wrapped |-> [o \in OfExecution |->
                                   Resolved(o, query, profile, clients[k].query)]])
       /\ UNCHANGED <<profiles, arrays, configs, clients>>

OptionsNext ==
    \/ \E u \in DOMAIN Users : NewClient(u)
    \/ \E k \in DOMAIN clients :
          ConnectClient(k) \/ \E query \in UserQueries : CreateOptions(k, query)
OptionsSpec == OptionsInit /\ [][OptionsNext]_optionsVars

--------------------------------------------------------------------------
(* Properties                                                              *)

\* The profile as the application wrote it; the last one of a name counts.
WrittenProfile(user, name) ==
    LET array == IF user.array = 0 THEN <<>> ELSE UserArrays[user.array]
        named == Named(UserProfiles, array, name)
    IN IF named = <<>> THEN EmptyProfile(name) ELSE UserProfiles[Last(named)]
IsWritten(user, name) ==
    name = "default" \/
    (user.array # 0 /\ Named(UserProfiles, UserArrays[user.array], name) # <<>>)

FirstDefined(settings) ==
    LET defined == SelectSeq(settings, LAMBDA v : v # "undefined")
    IN IF defined = <<>> THEN "undefined" ELSE defined[1]

UserOf(k) == Users[clients[k].user]
GivenBy(user) == DeepExtend(DefaultQueryOptions, [user.query EXCEPT !.retry = user.retry])
NameOf(e) == FirstDefined(<<e.query.profile, "default">>)
ProfileOf(e) == WrittenProfile(UserOf(e.client), NameOf(e))
DefaultOf(e) == WrittenProfile(UserOf(e.client), "default")

\* The clients that were made with the array of profiles of client k.  The first
\* of them fills the default profile in with its own policies.
WithProfilesOf(k) ==
    {k} \cup {j \in DOMAIN clients : /\ clients[j].state # "failed"
                                    /\ UserOf(j).array = UserOf(k).array
                                    /\ UserOf(k).array # 0}

\* Whose option a setting is that neither the query nor a profile has.
FilledBy(e, o) ==
    IF o = "retry" /\ NameOf(e) = "default" THEN WithProfilesOf(e.client) ELSE {e.client}

\* "when any of the options is not specified the Client will the use the ones
\* defined in the default profile" (execution-profile.ts:47): a setting is the
\* query's, the profile's, the default profile's or the client's.
IsDocumented(e, o) ==
    \E k \in FilledBy(e, o) : e.wrapped[o] = FirstDefined(
        <<e.query[o]>>
        \o (IF o \in OfProfile THEN <<ProfileOf(e)[o], DefaultOf(e)[o]>> ELSE <<>>)
        \o <<GivenBy(UserOf(k))[o]>>)

\* A setting the documentation takes from the default profile, the getters of
\* DefaultExecutionOptions from the client.
OnlyOfTheDefault(e, o) ==
    /\ o \in OfProfile /\ e.query[o] = "undefined"
    /\ ProfileOf(e)[o] = "undefined" /\ DefaultOf(e)[o] # "undefined"

\* What the documentation of ExecutionProfile says of every setting: see
\* IsDocumented.
DefaultProfileFillsIn ==
    \A i \in DOMAIN executions : ~executions[i].error =>
        \A o \in OfExecution : IsDocumented(executions[i], o)

(***************************************************************************)
(* However many clients were made from an options object before, and so    *)
(* changed its array of profiles and the profiles in it, an execution gets *)
(* the settings the application wrote, in the order of IsDocumented, where *)
(* 0, false and null are settings; of those that only the default profile  *)
(* has nothing is said here.  Its load balancing is the profile's, else    *)
(* the default profile's, else that of a client that shares the profiles.  *)
(* Only an unknown profile is an error.                                    *)
(***************************************************************************)
SettingsAreTheWritten ==
    \A i \in DOMAIN executions :
        LET e == executions[i]
        IN /\ e.error <=> ~IsWritten(UserOf(e.client), NameOf(e))
           /\ ~e.error =>
                 /\ \A o \in OfExecution : OnlyOfTheDefault(e, o) \/ IsDocumented(e, o)
                 /\ \E k \in WithProfilesOf(e.client) :
                       e.loadBalancing = FirstDefined(
                           <<ProfileOf(e).loadBalancing, DefaultOf(e).loadBalancing,
                             UserOf(k).loadBalancing>>)

RECURSIVE Permits(_, _)
Permits(name, host) ==
    LET policy == UserPolicies[name]
    IN CASE policy.kind = "AllowList" -> host \in policy.allow /\ Permits(policy.child, host)
         [] policy.kind = "TokenAware" -> Permits(policy.child, host)
         [] policy.kind = "Default" -> LET allow == UserConfigs[policy.config].allow
                                       IN allow = <<>> \/ host \in allow[1]
         [] OTHER -> TRUE

RECURSIVE IsTokenAware(_)
IsTokenAware(name) ==
    LET policy == UserPolicies[name]
    IN CASE policy.kind = "TokenAware" -> TRUE
         [] policy.kind = "AllowList" -> IsTokenAware(policy.child)
         [] policy.kind = "Default" -> UserConfigs[policy.config].tokenAware
         [] OTHER -> FALSE

RECURSIVE ConfigOf(_)
ConfigOf(name) ==
    LET policy == UserPolicies[name]
    IN IF policy.kind \in {"AllowList", "TokenAware"} THEN ConfigOf(policy.child) ELSE policy.config

\* The policies, the one of client k and those of other clients, whose wrappers
\* write to the LoadBalancingConfig that the policy of k wraps.
PoliciesAround(k) ==
    LET mine == UserOf(k).loadBalancing
    IN {mine} \cup {UserOf(j).loadBalancing : j \in {i \in DOMAIN clients :
           /\ ConfigOf(UserOf(i).loadBalancing) = ConfigOf(mine)
           /\ ConfigOf(mine) # 0}}

(***************************************************************************)
(* The session of a connected client was configured with what its policy   *)
(* means, although the wrappers write to the configuration object of the   *)
(* policy they wrap, which policies of other clients may wrap too: no host *)
(* is permitted that one of its own allow lists does not have, and one     *)
(* that is in every allow list around the shared configuration is; it is   *)
(* token aware if it has a TokenAwarePolicy, and only if one is around     *)
(* that configuration; the credentials are those of the options or of the  *)
(* provider.  Without sharing this is exactly the policy.                  *)
(***************************************************************************)
SessionHasThePolicy ==
    \A k \in DOMAIN clients : clients[k].state = "connected" =>
        LET user   == UserOf(k)
            lb     == clients[k].rust.lb.value
            around == PoliciesAround(k)
        IN /\ \A host \in HostNames :
                 LET permitted == lb.allow = <<>> \/ host \in lb.allow[1]
                 IN /\ permitted => Permits(user.loadBalancing, host)
                    /\ (\A name \in around : Permits(name, host)) => permitted
           /\ IsTokenAware(user.loadBalancing) => lb.tokenAware
           /\ lb.tokenAware => \E name \in around : IsTokenAware(name)
           /\ clients[k].rust.credentials = "none" =>
                 user.credentials = "none" /\ user.provider \in {"none", "NoAuth"}
=============================================================================
