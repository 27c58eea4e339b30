------------------------------ MODULE RateLimits ------------------------------
(***************************************************************************)
(* The fixed windows that limit the two routes anyone may call: the        *)
(* recommendation of a sign-in provider, by client and for the whole       *)
(* installation, and the verification of a fingerprint, by client.  A      *)
(* request runs one statement on one connection: it reads the clock, takes *)
(* and updates its own rows one after the other, deletes rows that were    *)
(* idle for a day when it began, and commits.                              *)
(***************************************************************************)
EXTENDS Integers, FiniteSets

CONSTANTS
    Clients,      \* client identities: an address, an IPv6 /64, or "unattributed"
    Checks,       \* connections of the web front's pool
    ClientLimit, GlobalLimit, VerifyLimit, \* the maxima of a window
    RateWindow,   \* its length
    IdleDay,      \* how long a row outlives its window
    MaxCount,     \* the largest integer of a column
    MaxRateTime,  \* bound: length of a behaviour
    MaxRequests   \* bound: requests in a behaviour

ASSUME RateAssumption ==
    /\ {ClientLimit, GlobalLimit, VerifyLimit} \subseteq 1..(MaxCount - 1)
    /\ RateWindow \in Nat \ {0}
    /\ {IdleDay, MaxCount, MaxRateTime, MaxRequests} \subseteq Nat
    /\ "no check" \notin Checks

VARIABLES
    rateClock,
    requests,  \* requests so far
    row,       \* key -> the committed row
    holder,    \* key -> the check that has its row locked
    draft,     \* key -> what the holder wrote
    check,     \* connection -> the statement it runs, or the last decision
    granted,   \* history: key -> requests accepted in the row's window
    ended      \* history: key -> the end of the last window that ran its course since
               \* the row was pruned while it was renewed, or 0

rateVars == <<rateClock, requests, row, holder, draft, check, granted, ended>>

Global == [surface |-> "recommendation", who |-> "installation"]
ClientKey(surface, client) == [surface |-> surface, who |-> client]
KeysOf(surface, client) ==
    {ClientKey(surface, client)} \cup (IF surface = "recommendation" THEN {Global} ELSE {})
Surfaces == {"recommendation", "verification"}
Keys == UNION {KeysOf(s, c) : s \in Surfaces, c \in Clients}

Maximum(k) == IF k = Global THEN GlobalLimit
              ELSE IF k.surface = "verification" THEN VerifyLimit
              ELSE ClientLimit

\* An absent row is one whose window ended at the beginning of time.
NoWindow == [count |-> 0, start |-> 0, expires |-> 0]
NoCheck == "no check"
NoStatement == [pc |-> "idle", keys |-> {}, at |-> 0, doomed |-> {}, full |-> {}, retry |-> 0]

RateInit ==
    /\ rateClock = 1
    /\ requests = 0
    /\ row = [k \in Keys |-> NoWindow]
    /\ holder = [k \in Keys |-> NoCheck]
    /\ draft = [k \in Keys |-> NoWindow]
    /\ check = [x \in Checks |-> NoStatement]
    /\ granted = [k \in Keys |-> 0]
    /\ ended = [k \in Keys |-> 0]

\* Rows of the same table that expired more than a day ago.
IdleRows(surface) ==
    {k \in Keys : k.surface = surface /\ row[k] # NoWindow /\ row[k].expires < rateClock - IdleDay}

\* Mutant: a request that finds its window full starts another one.
Consumed_Restart(r, at) ==
    IF r.expires <= at \/ r.count >= ClientLimit
    THEN [count |-> 1, start |-> at, expires |-> at + RateWindow]
    ELSE [r EXCEPT !.count = r.count + 1]

\* The row after one more request observed at that time.
Consumed(r, at) ==
    IF r.expires <= at THEN [count |-> 1, start |-> at, expires |-> at + RateWindow]
    ELSE [r EXCEPT !.count = IF r.count = MaxCount THEN r.count ELSE r.count + 1]

-----------------------------------------------------------------------------
(* One statement.                                                          *)

observe(x, surface, client) ==
    /\ check[x].pc = "idle"
    /\ requests < MaxRequests
    /\ requests' = requests + 1
    /\ check' = [check EXCEPT ![x] =
           [pc |-> "running", keys |-> KeysOf(surface, client), at |-> rateClock,
            doomed |-> IdleRows(surface) \ KeysOf(surface, client), full |-> {}, retry |-> 0]]
    /\ UNCHANGED <<rateClock, row, holder, draft, granted, ended>>

\* The client's row first, then the installation's; a row another statement has
\* written is waited for.
upsert(x, k) ==
    /\ check[x].pc = "running"
    /\ k \in check[x].keys
    /\ holder[k] = NoCheck
    /\ k = Global => \A o \in check[x].keys \ {Global} : holder[o] = x
    /\ holder' = [holder EXCEPT ![k] = x]
    /\ draft' = [draft EXCEPT ![k] = Consumed(row[k], check[x].at)]
    /\ UNCHANGED <<rateClock, requests, row, check, granted, ended>>

Full(x) == {k \in check[x].keys : draft[k].count > Maximum(k)}
\* How long the caller is told to wait: for the last of the full windows.
Longest(x, keys) ==
    CHOOSE n \in {draft[k].expires - check[x].at : k \in keys} :
        \A k \in keys : draft[k].expires - check[x].at <= n

\* Idle rows are deleted, renewed or not since the statement began, once nobody
\* holds them; the statement commits and the route decides.
decideLimit(x) ==
    LET full == Full(x)
        renewed == {k \in check[x].keys : row[k].expires <= check[x].at}
    IN /\ check[x].pc = "running"
       /\ \A k \in check[x].keys : holder[k] = x
       /\ \A k \in check[x].doomed : holder[k] = NoCheck
       /\ row' = [k \in Keys |-> IF k \in check[x].keys THEN draft[k]
                                 ELSE IF k \in check[x].doomed THEN NoWindow ELSE row[k]]
       /\ holder' = [k \in Keys |-> IF k \in check[x].keys THEN NoCheck ELSE holder[k]]
       /\ granted' = [k \in Keys |->
              IF k \in check[x].keys
              THEN (IF k \in renewed THEN 0 ELSE granted[k]) + (IF full = {} THEN 1 ELSE 0)
              ELSE IF k \in check[x].doomed THEN 0 ELSE granted[k]]
       /\ ended' = [k \in Keys |->
              IF row[k] = NoWindow \/ k \notin renewed \cup check[x].doomed THEN ended[k]
              ELSE IF k \in renewed \/ row[k].expires < check[x].at - IdleDay THEN row[k].expires
              ELSE 0]
       /\ check' = [check EXCEPT ![x] =
              [NoStatement EXCEPT !.at = check[x].at,
                           !.full = {draft[k].expires : k \in full},
                           !.retry = Longest(x, IF full = {} THEN check[x].keys ELSE full)]]
       /\ draft' = [k \in Keys |-> IF k \in check[x].keys THEN NoWindow ELSE draft[k]]
       /\ UNCHANGED <<rateClock, requests>>

\* The connection fails, or the database ends one of two statements that wait
\* for each other: a row idle for a day is renewed while it is pruned.
abortCheck(x) ==
    /\ check[x].pc = "running"
    /\ holder' = [k \in Keys |-> IF holder[k] = x THEN NoCheck ELSE holder[k]]
    /\ draft' = [k \in Keys |-> IF holder[k] = x THEN NoWindow ELSE draft[k]]
    /\ check' = [check EXCEPT ![x] = NoStatement]
    /\ UNCHANGED <<rateClock, requests, row, granted, ended>>

\* No statement runs for a day.
rateTick ==
    /\ rateClock < MaxRateTime
    /\ \A x \in Checks : check[x].pc = "running" => rateClock < check[x].at + IdleDay
    /\ rateClock' = rateClock + 1
    /\ UNCHANGED <<requests, row, holder, draft, check, granted, ended>>

RateNext ==
    \/ \E x \in Checks :
         \/ \E surface \in Surfaces, client \in Clients : observe(x, surface, client)
         \/ \E k \in Keys : upsert(x, k)
         \/ decideLimit(x)
         \/ abortCheck(x)
    \/ rateTick

RateSpec == RateInit /\ [][RateNext]_rateVars

-----------------------------------------------------------------------------
(* Properties.                                                             *)

\* However the statements interleave, no window accepts more than its maximum;
\* a window begins no earlier than the end of the one before (a row that was
\* renewed while it was pruned starts afresh); and a caller that is denied is
\* not asked to come back before every window it met full is over.
RatesKept ==
    /\ \A k \in Keys :
         /\ granted[k] <= Maximum(k)
         /\ row[k] # NoWindow => row[k].start >= ended[k]
    /\ \A x \in Checks : \A e \in check[x].full : check[x].at + check[x].retry >= e
=============================================================================
