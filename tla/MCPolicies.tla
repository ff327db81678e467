----------------------------- MODULE MCPolicies -----------------------------
(***************************************************************************)
(* The parts that prepare the work of a client, for TLC: the two policies  *)
(* with state of their own, the options of clients and of executions, the  *)
(* asynchronous helpers, the address resolver and the cache of hosts.      *)
(* None calls into another, so a behaviour is that of one part.            *)
(***************************************************************************)
EXTENDS MonotonicTimestamp, Reconnection, ClusterCache

CONSTANTS
    MaxClients, MaxExecutions,                                    \* Options
    Helpers, MaxCount, MaxLimit,                                  \* AsyncHelpers
    RefreshCalls, MaxIndex, MaxResolutions, MaxHandedOut          \* AddressResolver

VARIABLES
    part,
    profiles, arrays, configs, clients, executions,               \* Options
    job, frame,                                                   \* AsyncHelpers
    addresses, next, refreshing, caller, asked, handedOut, wrapped   \* AddressResolver

--------------------------------------------------------------------------
(* The applications' options                                               *)

Hosts == {"h1", "h2", "h3"}

Policy(kind) == [kind |-> kind, child |-> "none", allow |-> {}, dc |-> "", config |-> 0]
Over(kind, child) == [Policy(kind) EXCEPT !.child = child]
Allowing(allow, child) == [Over("AllowList", child) EXCEPT !.allow = allow]

\* Chains of wrappers, around an object of their own or a LoadBalancingConfig.
SamplePolicies == [
    dflt |-> [Policy("Default") EXCEPT !.config = 1],
    aware |-> Over("TokenAware", "dc"), dc |-> [Policy("DCAware") EXCEPT !.dc = "dc1"],
    both |-> Allowing({"h1", "h2"}, "inner"), inner |-> Allowing({"h2", "h3"}, "aware"),
    owned |-> Over("TokenAware", "narrow"), narrow |-> Allowing({"h1", "h2"}, "base"),
    base |-> [Policy("Default") EXCEPT !.config = 2], wide |-> Allowing(Hosts, "base"),
    rr |-> Policy("RoundRobin"), custom |-> Over("TokenAware", "legacy"),
    legacy |-> Policy("unsupported")]

SampleConfigs == <<
    [tokenAware |-> TRUE, dc |-> "", allow |-> <<>>],
    [tokenAware |-> FALSE, dc |-> "dc2", allow |-> <<{"h2", "h3"}>>]>>

Profile(name, consistency, timeout, retry, lb) ==
    [name |-> name, consistency |-> consistency, serialConsistency |-> "undefined",
     readTimeout |-> timeout, retry |-> retry, loadBalancing |-> lb]

SampleProfiles == <<
    Profile("oltp", "quorum", "0", "undefined", "rr"),
    Profile("olap", "undefined", "undefined", "FallthroughRetryPolicy", "undefined"),
    Profile("default", "one", "undefined", "undefined", "dc"),
    Profile("olap", "two", "undefined", "undefined", "undefined"),
    Profile("olap", "four", "undefined", "undefined", "undefined"),
    Profile("bulk", "undefined", "0", "undefined", "undefined")>>

\* The second array has two profiles of one name.
SampleArrays == << <<1, 2>>, <<5, 3, 6, 4>> >>

NoSettings == [consistency |-> "absent", serialConsistency |-> "absent", readTimeout |-> "absent",
               fetchSize |-> "absent", isIdempotent |-> "absent", retry |-> "absent"]

Application(lb) ==
    [bad |-> {}, credentials |-> "none", provider |-> "none", loadBalancing |-> lb,
     retry |-> "absent", translator |-> "absent", ssl |-> <<>>, unsupported |-> {},
     array |-> 0, query |-> NoSettings]

Ssl(cert, key, pfx) == <<[cert |-> cert, key |-> key, pfx |-> pfx, badKey |-> FALSE]>>

SampleUsers == <<
    Application("dflt"),
    [Application("both") EXCEPT !.array = 1, !.retry = "FallthroughRetryPolicy",
                                !.query.consistency = "three", !.credentials = "ok"],
    [Application("owned") EXCEPT !.array = 2, !.provider = "PlainText",
                                 !.translator = "Mapping", !.ssl = Ssl(TRUE, TRUE, FALSE),
                                 !.query = [NoSettings EXCEPT !.fetchSize = "0",
                                               !.isIdempotent = "true"]],
    [Application("aware") EXCEPT !.query.fetchSize = "undefined", !.provider = "NoAuth"],
    [Application("rr") EXCEPT !.credentials = "invalid"],
    [Application("rr") EXCEPT !.bad = {"logLevel", "policies"}],
    [Application("rr") EXCEPT !.provider = "not a provider", !.bad = {"id"}],
    Application("custom"),
    [Application("narrow") EXCEPT !.ssl = Ssl(TRUE, FALSE, FALSE)],
    \* Three that share a LoadBalancingConfig with the third and the ninth.
    Application("base"), Application("narrow"), Application("wide"),
    \* One that shares the array of profiles of the second, with other policies.
    [Application("rr") EXCEPT !.array = 1],
    [Application("rr") EXCEPT !.provider = "custom"],
    [Application("rr") EXCEPT !.retry = "custom"],
    [Application("rr") EXCEPT !.translator = "EC2"],
    [Application("rr") EXCEPT !.unsupported = {"cloud"}]>>

Unset == [o \in DOMAIN NoSettings \cup {"profile"} |-> "undefined"]
SampleQueries == {
    Unset, [Unset EXCEPT !.profile = "oltp"], [Unset EXCEPT !.profile = "olap", !.consistency = "all"],
    [Unset EXCEPT !.profile = "gone"], [Unset EXCEPT !.profile = "bulk"],
    [Unset EXCEPT !.fetchSize = "0", !.isIdempotent = "false", !.readTimeout = "0"],
    [Unset EXCEPT !.profile = "default", !.retry = "RetryPolicy", !.serialConsistency = "null"]}

\* Every jitter the code can draw.
AllPercents == 0..30

AllHelpers == {"each", "mapEach", "parallel", "times", "eachSeries", "mapSeries", "timesSeries",
               "series", "timesLimit", "whilst", "promiseTimes"}
SampleAnswers == {<<>>, <<"a">>, <<"a", "b">>, <<"b", "c", "d">>}

--------------------------------------------------------------------------
Settings == INSTANCE Options WITH
    Users <- SampleUsers, UserPolicies <- SamplePolicies, UserConfigs <- SampleConfigs,
    UserProfiles <- SampleProfiles, UserArrays <- SampleArrays, UserQueries <- SampleQueries,
    HostNames <- Hosts
Async == INSTANCE AsyncHelpers
Resolver == INSTANCE AddressResolver WITH Answers <- SampleAnswers, index <- next

optionsPart == <<profiles, arrays, configs, clients, executions>>
helpersPart == <<job, frame>>
resolverPart == <<addresses, next, refreshing, caller, asked, handedOut, wrapped>>
policiesPart == <<vars, scheduleVars, cacheVars>>

IdleAddress == CHOOSE a \in Addresses : TRUE
IdleTopology == CHOOSE t \in Topologies : TRUE
OptionsIdle == profiles = 0 /\ arrays = 0 /\ configs = 0 /\ clients = 0 /\ executions = 0
HelpersIdle == job = 0 /\ frame = 0
ResolverIdle == /\ addresses = 0 /\ next = 0 /\ refreshing = 0 /\ caller = 0
                /\ asked = 0 /\ handedOut = 0 /\ wrapped = 0

MCInit ==
    /\ part \in {"timestamps", "schedule", "options", "helpers", "resolver", "hosts"}
    /\ Init /\ ScheduleInit /\ CacheInit
    /\ part # "schedule" => startWithNoDelay
    /\ part # "hosts" => current = IdleAddress /\ state[current].topology = IdleTopology
    /\ IF part = "options" THEN Settings!OptionsInit ELSE OptionsIdle
    /\ IF part = "helpers" THEN Async!HelperInit ELSE HelpersIdle
    /\ IF part = "resolver" THEN Resolver!ResolverInit ELSE ResolverIdle

MCNext ==
    /\ UNCHANGED part
    /\ \/ /\ \/ part = "timestamps" /\ Next /\ UNCHANGED <<scheduleVars, cacheVars>>
             \/ part = "schedule" /\ ScheduleNext /\ UNCHANGED <<vars, cacheVars>>
             \/ part = "hosts" /\ CacheNext /\ UNCHANGED <<vars, scheduleVars>>
          /\ UNCHANGED <<optionsPart, helpersPart, resolverPart>>
       \/ part = "options" /\ Settings!OptionsNext /\ UNCHANGED <<policiesPart, helpersPart, resolverPart>>
       \/ part = "helpers" /\ Async!HelperNext /\ UNCHANGED <<policiesPart, optionsPart, resolverPart>>
       \/ part = "resolver" /\ Resolver!ResolverNext /\ UNCHANGED <<policiesPart, optionsPart, helpersPart>>

MCSpec == MCInit /\ [][MCNext]_<<part, policiesPart, optionsPart, helpersPart, resolverPart>>

\* Executions get the settings the application wrote, and sessions the policy it
\* chose, whatever was made of the same objects before (lib/execution-options.js,
\* lib/execution-profile.ts, lib/client-options.js, lib/policies/load-balancing.js):
\* see Options.
SettingsReachTheSession ==
    part = "options" => Settings!SettingsAreTheWritten /\ Settings!SessionHasThePolicy

\* "when any of the options is not specified the Client will the use the ones
\* defined in the default profile" (lib/execution-profile.ts:47-48): see Options.
DefaultProfileFillsIn == part = "options" => Settings!DefaultProfileFillsIn

\* The helpers call back once, at the right time, and concurrent refreshes share one
\* resolution (lib/utils.js:523-1005): see AsyncHelpers and AddressResolver.
CallersAreAnsweredOnce ==
    /\ part = "helpers" => Async!HelpersCallBackOnce
    /\ part = "resolver" => Resolver!RefreshIsShared
=============================================================================
