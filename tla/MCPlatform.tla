----------------------------- MODULE MCPlatform -----------------------------
(* PlatformControl for TLC: requests that pass, that share a target, and   *)
(* that fail one check each.                                               *)
EXTENDS PlatformControl

Control(id, kind, target, value) ==
    [id |-> id, kind |-> kind, target |-> target, value |-> value,
     mandatory |-> TRUE, mutating |-> TRUE, filled |-> TRUE, authority |-> TRUE,
     act |-> "actuator", check |-> "verifier"]
Prefetch == Control("prefetch", "hardware_prefetch", "msr", "on")
Governor == Control("governor", "governor", "cpufreq", "on")
Clock == [Control("clock", "clock_source", "msr", "on") EXCEPT !.mutating = FALSE,
                                                               !.mandatory = FALSE]

GoodRequest == <<Prefetch, Clock, Governor>>
\* Two controls of one target, in agreement or not, and a third that may fail.
SharedTarget(v) == <<Prefetch, [Governor EXCEPT !.target = "msr", !.value = v],
                     Control("turbo", "governor", "cpufreq", "on")>>
BadRequests ==
    {<<Prefetch, [Governor EXCEPT !.mandatory = FALSE]>>,
     <<Prefetch, [Governor EXCEPT !.authority = FALSE]>>,
     <<Prefetch, [Governor EXCEPT !.act = "verifier"]>>,
     <<[Prefetch EXCEPT !.filled = FALSE], Governor>>,
     <<Prefetch, [Governor EXCEPT !.id = "prefetch"]>>,
     <<Governor>>, << >>}

MCKinds == {"hardware_prefetch", "governor"}
Capabilities == [kind \in MCKinds \cup {"clock_source"} |->
                    IF kind = "clock_source" THEN "read_only"
                    ELSE "external_authority_required"]
Unresolved == [Capabilities EXCEPT !["hardware_prefetch"] = "mapping_unresolved"]

Priors == UNION {[ids -> Prior] : ids \in SUBSET {"prefetch", "governor"}}
TurboSeen(p) == [id \in DOMAIN p \cup {"turbo"} |->
                    IF id = "turbo" THEN [value |-> "off", fresh |-> FALSE] ELSE p[id]]
GoodPriors == {p \in Priors : /\ DOMAIN p = {"prefetch", "governor"}
                              /\ \A id \in DOMAIN p : p[id].fresh /\ p[id].value = "off"}

Call(controlsOf, prior) ==
    [controls |-> controlsOf, bound |-> TRUE, sound |-> TRUE, prior |-> prior,
     capability |-> Capabilities, mode |-> "authorized_apply", actuator |-> TRUE,
     context |-> TRUE]
GoodCalls == {Call(GoodRequest, p) : p \in GoodPriors}

MCCalls ==
    {Call(GoodRequest, p) : p \in Priors}
    \cup {Call(SharedTarget(v), TurboSeen(p)) : v \in Values, p \in Priors}
    \cup {Call(r, p) : r \in BadRequests, p \in GoodPriors}
    \cup {[c EXCEPT !.bound = FALSE] : c \in GoodCalls}
    \cup {[c EXCEPT !.sound = FALSE] : c \in GoodCalls}
    \cup {[c EXCEPT !.capability = Unresolved] : c \in GoodCalls}
    \cup {[c EXCEPT !.mode = "dry_run"] : c \in GoodCalls}
    \cup {[c EXCEPT !.actuator = FALSE] : c \in GoodCalls}
    \cup {[c EXCEPT !.context = FALSE] : c \in GoodCalls}
=============================================================================
