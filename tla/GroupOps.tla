------------------------------- MODULE GroupOps -------------------------------
(***************************************************************************)
(* The data of a group_t (src/skal/worker.cpp): its subscribers_, a set of *)
(* pairs <<subscriber, filter>>.  The map of a subscriber is never left    *)
(* empty by the code, so the pairs say all there is to say.                *)
(***************************************************************************)
CONSTANTS
    NoFilter,   \* the empty filter string
    BadFilter,  \* the filters that are not a regular expression
    Matches     \* pairs <<filter, action>>: std::regex_match() accepts

\* group_t::subscribe: a filter that is no regex is logged and ignored.
Subscribe(subscribers, name, filter) ==
    IF filter \in BadFilter THEN subscribers
                            ELSE subscribers \cup {<<name, filter>>}

\* group_t::unsubscribe: the empty filter removes every subscription.
Unsubscribe(subscribers, name, filter) ==
    IF filter = NoFilter THEN {s \in subscribers : s[1] # name}
                         ELSE subscribers \ {<<name, filter>>}

\* The subscriptions group_t::process forwards a message to.
Matching(subscribers, action) ==
    {s \in subscribers : s[2] = NoFilter \/ <<s[2], action>> \in Matches}
===============================================================================
