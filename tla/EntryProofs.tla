--------------------------- MODULE EntryProofs ---------------------------
(***************************************************************************)
(* What stands between the outside and the engine, for any number of       *)
(* clients, connections, calls and restarts, any clocks and any policies:  *)
(* the limits of the callers (RateLimits), the signed calls of the web     *)
(* front (ServiceFront), and what a participant is shown of a request and  *)
(* until when (ParticipantAccess).                                         *)
(***************************************************************************)
EXTENDS ServiceFront, ParticipantAccess, TLAPS

-----------------------------------------------------------------------------
(* RateLimits.                                                             *)

Windows == [count : Nat, start : Nat, expires : Nat]
Statements == [pc : {"idle", "running"}, keys : SUBSET Keys, at : Nat, doomed : SUBSET Keys,
               full : SUBSET Nat, retry : Int]

RatesTyped ==
  /\ rateClock \in Nat
  /\ row \in [Keys -> Windows] /\ draft \in [Keys -> Windows]
  /\ holder \in [Keys -> Checks \cup {NoCheck}]
  /\ check \in [Checks -> Statements]
  /\ granted \in [Keys -> Nat] /\ ended \in [Keys -> Nat]

Running(x) == check[x].pc = "running"

\* A running statement is not a day old, and what it will delete is not what it counts.
StatementStands(x) ==
  /\ check[x].at <= rateClock
  /\ Running(x) => /\ rateClock <= check[x].at + IdleDay
                   /\ check[x].keys \cap check[x].doomed = {}
                   /\ \E s \in Surfaces, c \in Clients : check[x].keys = KeysOf(s, c)
  /\ \A e \in check[x].full : check[x].at + check[x].retry >= e

\* What was accepted was counted, and whoever will start the next window observed a time
\* after the last one.
WindowStands(k) ==
  /\ granted[k] <= row[k].count /\ granted[k] <= Maximum(k)
  /\ row[k] # NoWindow => row[k].start >= ended[k]
  /\ ended[k] <= rateClock
  /\ row[k] = NoWindow => \A x \in Checks : Running(x) /\ k \in check[x].keys => check[x].at >= ended[k]
  /\ holder[k] # NoCheck => /\ Running(holder[k]) /\ k \in check[holder[k]].keys
                            /\ draft[k] = Consumed(row[k], check[holder[k]].at)

RateInv == RatesTyped /\ (\A x \in Checks : StatementStands(x)) /\ (\A k \in Keys : WindowStands(k))

\* The maxima are at least one and below the saturation of the column.
LEMMA MaximumFits ==
  ASSUME NEW k
  PROVE  Maximum(k) \in Nat /\ 1 <= Maximum(k) /\ Maximum(k) < MaxCount /\ MaxCount \in Nat
<1>1. MaxCount \in Nat
  BY RateAssumption, Zenon
<1>2. ClientLimit \in 1..(MaxCount - 1) /\ GlobalLimit \in 1..(MaxCount - 1) /\ VerifyLimit \in 1..(MaxCount - 1)
  BY RateAssumption
<1>3. PICK n : n = Maximum(k)
  OBVIOUS
<1>4. n \in 1..(MaxCount - 1)
  BY <1>2, <1>3 DEF Maximum
<1>5. n \in Nat /\ 1 <= n /\ n < MaxCount
  BY <1>1, <1>4
<1> QED
  BY <1>1, <1>3, <1>5

\* One more request is one more in the count, until the column saturates.
LEMMA Consumes ==
  ASSUME NEW r \in Windows, NEW at \in Nat
  PROVE  /\ Consumed(r, at) \in Windows /\ Consumed(r, at).count >= 1
         /\ r.expires <= at => Consumed(r, at).count = 1 /\ Consumed(r, at).start = at
         /\ ~(r.expires <= at) => /\ Consumed(r, at).start = r.start
                                  /\ Consumed(r, at).count >= r.count
                                  /\ r.count # MaxCount => Consumed(r, at).count = r.count + 1
                                  /\ r.count = MaxCount => Consumed(r, at).count = MaxCount
<1>1. RateWindow \in Nat /\ MaxCount \in Nat /\ MaxCount > 1 /\ r.count \in Nat /\ r.start \in Nat /\ r.expires \in Nat
  <2>1. RateWindow \in Nat
    BY RateAssumption, Zenon
  <2>2. MaxCount \in Nat /\ MaxCount > 1
    <3>1. PICK n \in Nat : 1 <= n /\ n < MaxCount /\ MaxCount \in Nat
      BY MaximumFits
    <3> QED
      BY <3>1
  <2> QED
    BY <2>1, <2>2 DEF Windows
<1>2. CASE r.expires <= at
  <2>1. Consumed(r, at) = [count |-> 1, start |-> at, expires |-> at + RateWindow]
    BY <1>2 DEF Consumed
  <2>2. at + RateWindow \in Nat
    BY <1>1
  <2> QED
    BY <1>2, <2>1, <2>2 DEF Windows
<1>3. CASE ~(r.expires <= at)
  <2>1. PICK n : n = IF r.count = MaxCount THEN r.count ELSE r.count + 1
    OBVIOUS
  <2>2. n \in Nat /\ n >= 1 /\ n >= r.count
    BY <1>1, <2>1
  <2>3. Consumed(r, at) = [r EXCEPT !.count = n]
    BY <1>3, <2>1 DEF Consumed
  <2>4. Consumed(r, at) \in Windows /\ Consumed(r, at).count = n /\ Consumed(r, at).start = r.start
    BY <2>2, <2>3 DEF Windows
  <2> QED
    BY <1>3, <2>1, <2>2, <2>4
<1> QED
  BY <1>2, <1>3

\* The wait a caller is told covers every window of the keys it is told of.
LEMMA LongestCovers ==
  ASSUME RatesTyped, NEW x \in Checks, NEW s \in Surfaces, NEW c \in Clients, NEW keys,
         keys # {}, keys \subseteq KeysOf(s, c), keys \subseteq Keys
  PROVE  Longest(x, keys) \in Int /\ \A k \in keys : check[x].at + Longest(x, keys) >= draft[k].expires
<1>1. \A k \in keys : draft[k].expires \in Nat
  BY DEF RatesTyped, Windows
<1>2. check[x].at \in Nat
  BY DEF RatesTyped, Statements
<1>3. PICK W : W = {draft[k].expires - check[x].at : k \in keys}
  OBVIOUS
<1>4. \E n \in W : \A k \in keys : draft[k].expires - check[x].at <= n
  <2>1. PICK a : a = ClientKey(s, c)
    OBVIOUS
  <2>2. keys \subseteq {a, Global}
    BY <2>1 DEF KeysOf
  <2>3. CASE a \in keys /\ Global \in keys
    <3>1. PICK p, q : p = draft[a].expires - check[x].at /\ q = draft[Global].expires - check[x].at
      OBVIOUS
    <3>2. p \in Int /\ q \in Int /\ p \in W /\ q \in W
      BY <1>1, <1>2, <1>3, <2>3, <3>1
    <3>3. \A k \in keys : draft[k].expires - check[x].at \in {p, q}
      BY <2>2, <3>1
    <3>4. CASE p <= q
      BY <3>2, <3>3, <3>4
    <3>5. CASE q <= p
      BY <3>2, <3>3, <3>5
    <3> QED
      BY <3>2, <3>4, <3>5
  <2>4. CASE a \notin keys \/ Global \notin keys
    <3>1. PICK b \in keys : keys = {b}
      BY <2>2, <2>4
    <3>2. PICK p : p = draft[b].expires - check[x].at
      OBVIOUS
    <3>3. p \in Int /\ p \in W
      BY <1>1, <1>2, <1>3, <3>1, <3>2
    <3> QED
      BY <3>1, <3>2, <3>3
  <2> QED
    BY <2>3, <2>4
<1>5. Longest(x, keys) \in W /\ \A k \in keys : draft[k].expires - check[x].at <= Longest(x, keys)
  <2>1. Longest(x, keys) = CHOOSE n \in W : \A k \in keys : draft[k].expires - check[x].at <= n
    BY <1>3 DEF Longest
  <2> QED
    BY <1>4, <2>1
<1>6. Longest(x, keys) \in Int
  BY <1>1, <1>2, <1>3, <1>5
<1> QED
  BY <1>1, <1>2, <1>5, <1>6

\* No row, no statement.
LEMMA InitRates ==
  ASSUME RateInit
  PROVE  RateInv
<1>1. NoWindow \in Windows /\ NoWindow.count = 0 /\ NoStatement \in Statements /\ NoStatement.pc = "idle"
      /\ NoStatement.at = 0 /\ NoStatement.full = {}
  BY DEF NoWindow, Windows, NoStatement, Statements
<1>2. RatesTyped
  BY <1>1 DEF RateInit, RatesTyped
<1>3. \A x \in Checks : check[x].pc = "idle" /\ check[x].at = 0 /\ check[x].full = {}
  BY <1>1 DEF RateInit
<1>4. \A x \in Checks : StatementStands(x)
  BY <1>3 DEF RateInit, StatementStands, Running
<1>5. ASSUME NEW k \in Keys
      PROVE  WindowStands(k)
  <2>1. row[k] = NoWindow /\ granted[k] = 0 /\ ended[k] = 0 /\ holder[k] = NoCheck
    BY DEF RateInit
  <2> QED
    BY <1>1, <1>3, <2>1, MaximumFits DEF RateInit, WindowStands, Running
<1> QED
  BY <1>2, <1>4, <1>5 DEF RateInv

\* A statement begins.
LEMMA Observes ==
  ASSUME RateInv, NEW x \in Checks, NEW s \in Surfaces, NEW c \in Clients, observe(x, s, c)
  PROVE  RateInv'
<1>1. RatesTyped /\ rateClock \in Nat /\ IdleDay \in Nat
  BY RateAssumption DEF RateInv, RatesTyped
<1>2. PICK keys : keys = KeysOf(s, c)
  OBVIOUS
<1>3. PICK doomed : doomed = IdleRows(s) \ keys
  OBVIOUS
<1>4. keys \subseteq Keys /\ doomed \subseteq Keys /\ keys \cap doomed = {}
  BY <1>2, <1>3 DEF Keys, IdleRows
<1>5. PICK new : new = [pc |-> "running", keys |-> keys, at |-> rateClock, doomed |-> doomed, full |-> {}, retry |-> 0]
  OBVIOUS
<1>6. /\ new \in Statements /\ new.pc = "running" /\ new.at = rateClock /\ new.full = {}
      /\ new.keys = keys /\ new.doomed = doomed
  BY <1>1, <1>4, <1>5 DEF Statements
<1>7. /\ check' = [check EXCEPT ![x] = new] /\ check[x].pc = "idle"
      /\ UNCHANGED <<rateClock, row, holder, draft, granted, ended>>
  BY <1>2, <1>3, <1>5 DEF observe
<1>8. check' \in [Checks -> Statements] /\ check'[x] = new /\ \A y \in Checks \ {x} : check'[y] = check[y]
  BY <1>1, <1>6, <1>7 DEF RatesTyped
<1>9. RatesTyped'
  BY <1>1, <1>7, <1>8 DEF RatesTyped
<1>10. StatementStands(x)'
  BY <1>1, <1>2, <1>4, <1>6, <1>7, <1>8 DEF StatementStands, Running
<1>11. ASSUME NEW y \in Checks \ {x}
       PROVE  StatementStands(y)'
  BY <1>7, <1>8 DEF RateInv, StatementStands, Running
<1>12. ASSUME NEW k \in Keys
       PROVE  WindowStands(k)'
  <2>1. WindowStands(k) /\ holder[k] \in Checks \cup {NoCheck}
    BY <1>1 DEF RateInv, RatesTyped
  <2>2. holder[k] # NoCheck => holder[k] \in Checks \ {x}
    BY <1>7, <2>1 DEF WindowStands, Running
  <2>3. \A y \in Checks : Running(y)' /\ k \in check'[y].keys => y = x \/ (Running(y) /\ k \in check[y].keys /\ check'[y] = check[y])
    BY <1>8 DEF Running
  <2>4. row[k] = NoWindow => \A y \in Checks : Running(y)' /\ k \in check'[y].keys => check'[y].at >= ended[k]
    BY <1>6, <1>8, <2>1, <2>3 DEF WindowStands
  <2> QED
    BY <1>7, <1>8, <2>1, <2>2, <2>4 DEF WindowStands, Running
<1> QED
  BY <1>9, <1>10, <1>11, <1>12 DEF RateInv

\* A row is locked and counted.
LEMMA Upserts ==
  ASSUME RateInv, NEW x \in Checks, NEW k \in Keys, upsert(x, k)
  PROVE  RateInv'
<1>1. RatesTyped /\ WindowStands(k) /\ row[k] \in Windows /\ check[x].at \in Nat
  BY DEF RateInv, RatesTyped, Statements
<1>2. /\ check[x].pc = "running" /\ k \in check[x].keys /\ holder[k] = NoCheck
      /\ holder' = [holder EXCEPT ![k] = x]
      /\ draft' = [draft EXCEPT ![k] = Consumed(row[k], check[x].at)]
      /\ UNCHANGED <<rateClock, row, check, granted, ended>>
  BY DEF upsert
<1>3. Consumed(row[k], check[x].at) \in Windows /\ x # NoCheck
  BY <1>1, Consumes, RateAssumption DEF NoCheck
<1>4. RatesTyped'
  BY <1>1, <1>2, <1>3 DEF RatesTyped
<1>5. /\ holder'[k] = x /\ draft'[k] = Consumed(row[k], check[x].at)
      /\ \A j \in Keys \ {k} : holder'[j] = holder[j] /\ draft'[j] = draft[j]
  BY <1>1, <1>2 DEF RatesTyped
<1>6. \A y \in Checks : StatementStands(y)'
  BY <1>2 DEF RateInv, StatementStands, Running
<1>7. WindowStands(k)'
  BY <1>1, <1>2, <1>5 DEF WindowStands, Running
<1>8. ASSUME NEW j \in Keys \ {k}
      PROVE  WindowStands(j)'
  BY <1>2, <1>5 DEF RateInv, WindowStands, Running
<1> QED
  BY <1>4, <1>6, <1>7, <1>8 DEF RateInv

\* A statement fails and its locks go.
LEMMA Fails ==
  ASSUME RateInv, NEW x \in Checks, abortCheck(x)
  PROVE  RateInv'
<1>1. RatesTyped
  BY DEF RateInv
<1>2. /\ holder' = [k \in Keys |-> IF holder[k] = x THEN NoCheck ELSE holder[k]]
      /\ draft' = [k \in Keys |-> IF holder[k] = x THEN NoWindow ELSE draft[k]]
      /\ check' = [check EXCEPT ![x] = NoStatement]
      /\ UNCHANGED <<rateClock, row, granted, ended>>
  BY DEF abortCheck
<1>3. NoWindow \in Windows /\ NoStatement \in Statements /\ NoStatement.pc = "idle"
      /\ NoStatement.at = 0 /\ NoStatement.full = {}
  BY DEF NoWindow, Windows, NoStatement, Statements
<1>4. RatesTyped'
  BY <1>1, <1>2, <1>3 DEF RatesTyped
<1>5. check'[x] = NoStatement /\ \A y \in Checks \ {x} : check'[y] = check[y]
  BY <1>1, <1>2 DEF RatesTyped
<1>6. ASSUME NEW y \in Checks
      PROVE  StatementStands(y)'
  <2>1. CASE y = x
    BY <1>1, <1>2, <1>3, <1>5, <2>1 DEF StatementStands, Running, RatesTyped
  <2>2. CASE y # x
    BY <1>2, <1>5, <2>2 DEF RateInv, StatementStands, Running
  <2> QED
    BY <2>1, <2>2
<1>7. ASSUME NEW k \in Keys
      PROVE  WindowStands(k)'
  <2>1. WindowStands(k) /\ holder[k] \in Checks \cup {NoCheck}
    BY <1>1 DEF RateInv, RatesTyped
  <2>2. holder'[k] # NoCheck => holder'[k] = holder[k] /\ holder[k] \in Checks \ {x} /\ draft'[k] = draft[k]
    BY <1>2, <2>1
  <2>3. \A y \in Checks : Running(y)' => Running(y) /\ check'[y] = check[y]
    BY <1>3, <1>5 DEF Running
  <2> QED
    BY <1>2, <1>5, <2>1, <2>2, <2>3 DEF WindowStands, Running
<1> QED
  BY <1>4, <1>6, <1>7 DEF RateInv

\* The clock goes on while no statement is a day old.
LEMMA Ticks ==
  ASSUME RateInv, rateTick
  PROVE  RateInv'
<1>1. /\ RatesTyped /\ rateClock' = rateClock + 1 /\ rateClock \in Nat /\ IdleDay \in Nat
      /\ \A x \in Checks : check[x].pc = "running" => rateClock < check[x].at + IdleDay
      /\ UNCHANGED <<row, holder, draft, check, granted, ended>>
  BY RateAssumption DEF RateInv, RatesTyped, rateTick
<1>2. RatesTyped'
  BY <1>1 DEF RatesTyped
<1>3. ASSUME NEW x \in Checks
      PROVE  StatementStands(x)'
  <2>1. StatementStands(x) /\ check[x].at \in Nat
    BY <1>1 DEF RateInv, RatesTyped, Statements
  <2> QED
    BY <1>1, <2>1 DEF StatementStands, Running
<1>4. ASSUME NEW k \in Keys
      PROVE  WindowStands(k)'
  <2>1. WindowStands(k) /\ ended[k] \in Nat
    BY <1>1 DEF RateInv, RatesTyped
  <2> QED
    BY <1>1, <2>1 DEF WindowStands, Running
<1> QED
  BY <1>2, <1>3, <1>4 DEF RateInv

\* A statement commits: what it counted stands, what was idle is gone.
LEMMA Decides ==
  ASSUME RateInv, NEW x \in Checks, decideLimit(x)
  PROVE  RateInv'
<1>1. RatesTyped /\ StatementStands(x) /\ rateClock \in Nat /\ IdleDay \in Nat
  BY RateAssumption DEF RateInv, RatesTyped
<1>2. PICK old : old = check[x]
  OBVIOUS
<1>3. PICK full : full = Full(x)
  OBVIOUS
<1>4. PICK renewed : renewed = {k \in old.keys : row[k].expires <= old.at}
  OBVIOUS
<1>5. PICK told : told = IF full = {} THEN old.keys ELSE full
  OBVIOUS
<1>6. PICK new : new = [NoStatement EXCEPT !.at = old.at, !.full = {draft[k].expires : k \in full}, !.retry = Longest(x, told)]
  OBVIOUS
<1>7. /\ old.pc = "running" /\ \A k \in old.keys : holder[k] = x
      /\ \A k \in old.doomed : holder[k] = NoCheck
      /\ row' = [k \in Keys |-> IF k \in old.keys THEN draft[k]
                                ELSE IF k \in old.doomed THEN NoWindow ELSE row[k]]
      /\ holder' = [k \in Keys |-> IF k \in old.keys THEN NoCheck ELSE holder[k]]
      /\ granted' = [k \in Keys |->
              IF k \in old.keys
              THEN (IF k \in renewed THEN 0 ELSE granted[k]) + (IF full = {} THEN 1 ELSE 0)
              ELSE IF k \in old.doomed THEN 0 ELSE granted[k]]
      /\ ended' = [k \in Keys |->
              IF row[k] = NoWindow \/ k \notin renewed \cup old.doomed THEN ended[k]
              ELSE IF k \in renewed \/ row[k].expires < old.at - IdleDay THEN row[k].expires
              ELSE 0]
      /\ check' = [check EXCEPT ![x] = new]
      /\ draft' = [k \in Keys |-> IF k \in old.keys THEN NoWindow ELSE draft[k]]
      /\ rateClock' = rateClock
  BY <1>2, <1>3, <1>4, <1>5, <1>6 DEF decideLimit
<1>8. /\ old \in Statements /\ old.at \in Nat /\ old.keys \subseteq Keys /\ old.doomed \subseteq Keys
      /\ old.at <= rateClock /\ rateClock <= old.at + IdleDay /\ old.keys \cap old.doomed = {}
  BY <1>1, <1>2, <1>7 DEF RatesTyped, Statements, StatementStands, Running
<1>9. PICK s \in Surfaces, c \in Clients : old.keys = KeysOf(s, c)
  BY <1>1, <1>2, <1>7 DEF StatementStands, Running
<1>10. told # {} /\ told \subseteq old.keys /\ full \subseteq old.keys
  <2>1. old.keys # {}
    BY <1>9 DEF KeysOf
  <2>2. full \subseteq old.keys
    BY <1>2, <1>3 DEF Full
  <2> QED
    BY <1>5, <2>1, <2>2
<1>11. Longest(x, told) \in Int /\ \A k \in told : old.at + Longest(x, told) >= draft[k].expires
  BY <1>1, <1>2, <1>8, <1>9, <1>10, LongestCovers
<1>12. /\ new \in Statements /\ new.pc = "idle" /\ new.at = old.at
       /\ new.full = {draft[k].expires : k \in full} /\ new.retry = Longest(x, told)
  <2>1. {draft[k].expires : k \in full} \in SUBSET Nat
    BY <1>1, <1>8, <1>10 DEF RatesTyped, Windows
  <2>2. NoStatement \in Statements /\ NoStatement.pc = "idle"
    BY DEF NoStatement, Statements
  <2> QED
    BY <1>6, <1>8, <1>11, <2>1, <2>2 DEF Statements
<1>13. check' \in [Checks -> Statements] /\ check'[x] = new /\ \A y \in Checks \ {x} : check'[y] = check[y]
  BY <1>1, <1>7, <1>12 DEF RatesTyped
<1>14. NoWindow \in Windows /\ NoWindow.count = 0 /\ NoWindow.expires = 0
  BY DEF NoWindow, Windows
<1>15. RatesTyped'
  <2>1. row' \in [Keys -> Windows] /\ draft' \in [Keys -> Windows]
    BY <1>1, <1>7, <1>14 DEF RatesTyped
  <2>2. holder' \in [Keys -> Checks \cup {NoCheck}]
    BY <1>1, <1>7 DEF RatesTyped
  <2>3. ASSUME NEW k \in Keys PROVE granted'[k] \in Nat
    <3>1. granted[k] \in Nat
      BY <1>1 DEF RatesTyped
    <3> QED
      BY <1>7, <3>1
  <2>4. ASSUME NEW k \in Keys PROVE ended'[k] \in Nat
    BY <1>1, <1>7 DEF RatesTyped, Windows
  <2>5. granted' \in [Keys -> Nat] /\ ended' \in [Keys -> Nat]
    BY <1>7, <2>3, <2>4
  <2> QED
    BY <1>1, <1>7, <1>13, <2>1, <2>2, <2>5 DEF RatesTyped
<1>16. ASSUME NEW y \in Checks
       PROVE  StatementStands(y)'
  <2>1. CASE y = x
    <3>1. \A e \in new.full : new.at + new.retry >= e
      BY <1>5, <1>11, <1>12
    <3> QED
      BY <1>7, <1>8, <1>12, <1>13, <2>1, <3>1 DEF StatementStands, Running
  <2>2. CASE y # x
    BY <1>7, <1>13, <2>2 DEF RateInv, StatementStands, Running
  <2> QED
    BY <2>1, <2>2
<1>17. \A y \in Checks : Running(y)' => Running(y) /\ y # x /\ check'[y] = check[y]
  BY <1>12, <1>13 DEF Running
<1>18. ASSUME NEW k \in Keys
       PROVE  WindowStands(k)'
  <2>1. /\ WindowStands(k) /\ row[k] \in Windows /\ granted[k] \in Nat /\ ended[k] \in Nat
        /\ row[k].count \in Nat /\ row[k].expires \in Nat /\ row[k].start \in Nat
        /\ holder[k] \in Checks \cup {NoCheck}
    BY <1>1 DEF RateInv, RatesTyped, Windows
  <2>2. Maximum(k) \in Nat /\ 1 <= Maximum(k) /\ Maximum(k) < MaxCount /\ MaxCount \in Nat
    BY MaximumFits
  <2>3. CASE k \in old.keys
    <3>1. /\ row'[k] = draft[k] /\ holder'[k] = NoCheck /\ k \notin old.doomed
          /\ granted'[k] = (IF k \in renewed THEN 0 ELSE granted[k]) + (IF full = {} THEN 1 ELSE 0)
      BY <1>7, <1>8, <2>3
    <3>2. draft[k] = Consumed(row[k], old.at)
      <4>1. holder[k] = x /\ x # NoCheck
        BY <1>7, <2>3, RateAssumption DEF NoCheck
      <4> QED
        BY <1>2, <2>1, <4>1 DEF WindowStands
    <3>8. /\ Consumed(row[k], old.at) \in Windows /\ Consumed(row[k], old.at).count >= 1
          /\ row[k].expires <= old.at => Consumed(row[k], old.at).count = 1 /\ Consumed(row[k], old.at).start = old.at
          /\ ~(row[k].expires <= old.at) =>
               /\ Consumed(row[k], old.at).start = row[k].start
               /\ Consumed(row[k], old.at).count >= row[k].count
               /\ row[k].count # MaxCount => Consumed(row[k], old.at).count = row[k].count + 1
               /\ row[k].count = MaxCount => Consumed(row[k], old.at).count = MaxCount
      <4>1. row[k] \in Windows /\ old.at \in Nat
        BY <1>8, <2>1
      <4> QED
        BY <4>1, Consumes, Zenon
    <3>3. draft[k] \in Windows /\ draft[k].count >= 1 /\ draft[k].count \in Nat /\ draft[k].start \in Nat
      BY <3>2, <3>8 DEF Windows
    <3>4. row'[k] # NoWindow
      BY <1>14, <3>1, <3>3
    <3>5. full = {} => draft[k].count <= Maximum(k)
      BY <1>2, <1>3, <2>2, <2>3, <3>3 DEF Full
    <3>6. CASE k \in renewed
      <4>1. row[k].expires <= old.at
        BY <1>4, <3>6
      <4>2. draft[k].count = 1 /\ draft[k].start = old.at
        BY <3>2, <3>8, <4>1
      <4>3. ended'[k] <= old.at
        <5>1. CASE row[k] = NoWindow
          <6>1. ended'[k] = ended[k]
            BY <1>7, <5>1
          <6> QED
            BY <1>2, <1>7, <2>1, <2>3, <5>1, <6>1 DEF WindowStands, Running
        <5>2. CASE row[k] # NoWindow
          BY <1>7, <3>6, <4>1, <5>2
        <5> QED
          BY <5>1, <5>2
      <4>4. granted'[k] \in {0, 1}
        <5>1. CASE full = {}
          BY <3>1, <3>6, <5>1
        <5>2. CASE full # {}
          BY <3>1, <3>6, <5>2
        <5> QED
          BY <5>1, <5>2
      <4>5. ended'[k] \in Nat /\ ended'[k] <= rateClock
        <5>1. ended'[k] \in Nat
          BY <1>15 DEF RatesTyped
        <5> QED
          BY <1>1, <1>8, <4>3, <5>1
      <4> QED
        BY <1>7, <2>2, <3>1, <3>4, <4>2, <4>3, <4>4, <4>5 DEF WindowStands
    <3>7. CASE k \notin renewed
      <4>1. ~(row[k].expires <= old.at)
        BY <1>4, <2>3, <3>7
      <4>2. /\ draft[k].start = row[k].start /\ draft[k].count >= row[k].count
            /\ row[k].count # MaxCount => draft[k].count = row[k].count + 1
            /\ row[k].count = MaxCount => draft[k].count = MaxCount
        BY <3>2, <3>8, <4>1
      <4>3. ended'[k] = ended[k]
        BY <1>7, <3>1, <3>7
      <4>4. row[k] # NoWindow
        BY <1>8, <1>14, <4>1
      <4>5. granted'[k] <= draft[k].count /\ granted'[k] <= Maximum(k)
        <5>1. CASE full = {}
          BY <2>1, <2>2, <3>1, <3>3, <3>5, <3>7, <4>2, <5>1 DEF WindowStands
        <5>2. CASE full # {}
          BY <2>1, <2>2, <3>1, <3>3, <3>7, <4>2, <5>2 DEF WindowStands
        <5> QED
          BY <5>1, <5>2
      <4> QED
        BY <1>7, <2>1, <3>1, <3>4, <4>2, <4>3, <4>4, <4>5 DEF WindowStands
    <3> QED
      BY <3>6, <3>7
  <2>4. CASE k \notin old.keys /\ k \in old.doomed
    <3>1. /\ row'[k] = NoWindow /\ granted'[k] = 0 /\ holder'[k] = NoCheck /\ k \notin renewed
      BY <1>4, <1>7, <2>4
    <3>2. \/ row[k] = NoWindow /\ ended'[k] = ended[k]
          \/ row[k].expires < old.at - IdleDay /\ ended'[k] = row[k].expires
          \/ ended'[k] = 0
      <4>1. ended'[k] = IF row[k] = NoWindow \/ k \notin renewed \cup old.doomed THEN ended[k]
                        ELSE IF k \in renewed \/ row[k].expires < old.at - IdleDay THEN row[k].expires
                        ELSE 0
        BY <1>7
      <4> QED
        BY <2>4, <3>1, <4>1
    <3>3. ended'[k] <= rateClock
      BY <1>1, <1>8, <2>1, <3>2 DEF WindowStands
    <3>4. ASSUME NEW y \in Checks, Running(y)', k \in check'[y].keys
          PROVE  check'[y].at >= ended'[k]
      <4>1. Running(y) /\ k \in check[y].keys /\ check'[y] = check[y] /\ check[y].at \in Nat
        BY <1>1, <1>17, <3>4 DEF RatesTyped, Statements
      <4>2. rateClock <= check[y].at + IdleDay
        BY <4>1 DEF RateInv, StatementStands
      <4>3. row[k] = NoWindow => check[y].at >= ended[k]
        BY <2>1, <4>1 DEF WindowStands
      <4> QED
        BY <1>1, <1>8, <2>1, <3>2, <4>1, <4>2, <4>3
    <3> QED
      BY <1>7, <1>14, <2>2, <3>1, <3>3, <3>4 DEF WindowStands
  <2>5. CASE k \notin old.keys /\ k \notin old.doomed
    <3>1. /\ row'[k] = row[k] /\ granted'[k] = granted[k] /\ holder'[k] = holder[k] /\ draft'[k] = draft[k]
          /\ ended'[k] = ended[k]
      BY <1>4, <1>7, <2>5
    <3>2. holder[k] # NoCheck => holder[k] \in Checks \ {x}
      BY <1>2, <2>1, <2>5 DEF WindowStands
    <3> QED
      BY <1>7, <1>13, <1>17, <2>1, <3>1, <3>2 DEF WindowStands, Running
  <2> QED
    BY <2>3, <2>4, <2>5
<1> QED
  BY <1>15, <1>16, <1>18 DEF RateInv

\* RateInv is inductive.
LEMMA RateStep ==
  ASSUME RateInv, [RateNext]_rateVars
  PROVE  RateInv'
<1>1. CASE UNCHANGED rateVars
  BY <1>1 DEF rateVars, RateInv, RatesTyped, StatementStands, WindowStands, Running
<1>2. CASE RateNext
  BY <1>2, Observes, Upserts, Decides, Fails, Ticks DEF RateNext
<1> QED
  BY <1>1, <1>2

\* However statements interleave, no window accepts more than its maximum, windows do not overlap,
\* and a denied caller is told to wait long enough: for any number of clients and connections.
THEOREM RatesAreKept == RateSpec => []RatesKept
<1>1. RateInv => RatesKept
  BY DEF RateInv, StatementStands, WindowStands, RatesKept
<1> QED
  BY <1>1, InitRates, RateStep, PTL DEF RateSpec

-----------------------------------------------------------------------------
(* ServiceFront.                                                           *)

CallRows == [pc : {"idle", "sent", "forwarded", "answered"}, sentAt : Nat, answer : Answers]
Stages == {"arrived", "admitted", "verified", "claimed", "done"}
SignedRows == [id : Nat, copy : Nat, call : FrontCalls, timestamp : Nat, waits : BOOLEAN,
               stage : Stages, late : BOOLEAN]

FrontTyped ==
  /\ frontClock \in Nat /\ frontOffset \in Int /\ databaseOffset \in Int
  /\ frontCall \in [FrontCalls -> CallRows]
  /\ signed \subseteq SignedRows
  /\ nextRequest \in Nat /\ repeats \in Nat
  /\ seenServiceRequests \subseteq [id : Nat, until : Nat]
  /\ replayRows \subseteq FrontCalls
  /\ ranInTime \in [FrontCalls -> Nat] /\ ranLate \in [FrontCalls -> Nat]

\* What a caller was told is true, and was not said too early.
CallStands(c) ==
  /\ frontCall[c].sentAt <= frontClock
  /\ frontCall[c].answer = "ok" => ranInTime[c] > 0 \/ ranLate[c] > 0
  /\ /\ frontCall[c].answer \in {"unauthorized", "replayed"}
     /\ c \notin repeated
     /\ frontOffset \in (-ClockTolerance)..ClockTolerance
     => frontClock - frontCall[c].sentAt > SignedWindow

\* A request was signed for a call under way; the only one of its call has met neither its
\* own id nor its own row.
RequestStands(r) ==
  /\ frontCall[r.call].pc \in {"forwarded", "answered"}
  /\ frontCall[r.call].sentAt <= r.timestamp /\ r.timestamp <= frontClock
  /\ r.id < nextRequest
  /\ r.call \notin repeated /\ r.stage \in {"arrived", "admitted", "verified"} => r.call \notin replayRows
  /\ r.call \notin repeated /\ r.stage = "arrived" => \A s \in seenServiceRequests : s.id # r.id
  /\ \A q \in signed : /\ q.id = r.id => q.call = r.call
                       /\ q.call = r.call /\ r.call \notin repeated => q = r

SeenStand == \A s \in seenServiceRequests : s.id < nextRequest

\* The row of a call was taken in time, and is there until its assertion runs out.
Early(r) == r.stage = "claimed" /\ ~r.late
Taken(c) == c \in replayRows \/ RowExpired(c)

RunStands(c) ==
  /\ ranInTime[c] <= 1
  /\ ranInTime[c] > 0 => Taken(c) /\ frontCall[c].pc # "idle"
  /\ c \in replayRows => frontCall[c].pc \in {"forwarded", "answered"}
  /\ \A r \in signed : Early(r) /\ r.call = c =>
       /\ ranInTime[c] = 0 /\ Taken(c)
       /\ \A q \in signed : Early(q) /\ q.call = c => q = r

FrontInv ==
  /\ FrontTyped
  /\ \A c \in FrontCalls : CallStands(c)
  /\ \A r \in signed : RequestStands(r)
  /\ SeenStand
  /\ \A c \in FrontCalls : RunStands(c)

\* Calls go on: one that was sent keeps its assertion.
CallsGoOn ==
  /\ frontCall' \in [FrontCalls -> CallRows]
  /\ \A c \in FrontCalls : frontCall[c].pc # "idle" =>
       frontCall'[c].sentAt = frontCall[c].sentAt /\ frontCall'[c].pc # "idle"
  /\ \A c \in FrontCalls : frontCall[c].pc \in {"forwarded", "answered"} =>
       frontCall'[c].pc \in {"forwarded", "answered"}

\* What ranInTime stays taken: rows go only when they have run out.
LEMMA RunsKept ==
  ASSUME FrontInv, CallsGoOn, UNCHANGED <<frontOffset, databaseOffset, ranInTime>>,
         frontClock' \in Nat, frontClock' >= frontClock,
         replayRows' \subseteq replayRows, \A c \in replayRows : c \in replayRows' \/ RowExpired(c),
         \A q \in signed' : Early(q) => q \in signed
  PROVE  \A c \in FrontCalls : RunStands(c)'
<1>1. FrontTyped /\ AssertionLife \in Nat
  BY FrontAssumption DEF FrontInv
<1>2. ASSUME NEW c \in FrontCalls, Taken(c), frontCall[c].pc # "idle"
      PROVE  Taken(c)'
  <2>1. frontCall'[c].sentAt = frontCall[c].sentAt /\ frontCall[c].sentAt \in Nat
    BY <1>1, <1>2 DEF CallsGoOn, FrontTyped, CallRows
  <2>2. frontClock \in Nat /\ frontOffset \in Int /\ databaseOffset \in Int
    BY <1>1 DEF FrontTyped
  <2>3. RowExpired(c) => RowExpired(c)'
    BY <1>1, <2>1, <2>2 DEF RowExpired, ExpiresAt, IssuedAt
  <2> QED
    BY <1>2, <2>3 DEF Taken
<1>3. ASSUME NEW c \in FrontCalls
      PROVE  RunStands(c)'
  <2>1. RunStands(c)
    BY DEF FrontInv
  <2>2. \A r \in signed : r.call = c => frontCall[c].pc # "idle"
    BY DEF FrontInv, RequestStands
  <2>3. ranInTime'[c] > 0 => Taken(c)' /\ frontCall'[c].pc # "idle"
    BY <1>2, <2>1 DEF RunStands, CallsGoOn
  <2>4. ASSUME NEW r \in signed', Early(r), r.call = c
        PROVE  ranInTime'[c] = 0 /\ Taken(c)' /\ \A q \in signed' : Early(q) /\ q.call = c => q = r
    BY <1>2, <2>1, <2>2, <2>4 DEF RunStands
  <2> QED
    BY <2>1, <2>3, <2>4 DEF RunStands, Early, CallsGoOn
<1> QED
  BY <1>3

\* An answer that was given stays true.
LEMMA AnswerKept ==
  ASSUME FrontInv, NEW c \in FrontCalls, frontCall'[c] = frontCall[c], frontOffset' = frontOffset,
         frontClock' \in Nat, frontClock' >= frontClock, ranInTime'[c] >= ranInTime[c], ranInTime'[c] \in Nat,
         ranLate[c] > 0 => ranLate'[c] > 0, repeated \subseteq repeated'
  PROVE  CallStands(c)'
<1>1. /\ CallStands(c) /\ frontClock \in Nat /\ frontCall[c].sentAt \in Nat /\ SignedWindow \in Nat
      /\ ranInTime[c] \in Nat
  BY FrontAssumption DEF FrontInv, FrontTyped, CallRows
<1> QED
  BY <1>1 DEF CallStands

\* An answer that accuses nobody and promises nothing.
LEMMA PlainAnswer ==
  ASSUME FrontInv, NEW c \in FrontCalls, frontCall'[c].sentAt <= frontClock', frontCall'[c].answer \notin {"ok", "unauthorized", "replayed"}
  PROVE  CallStands(c)'
BY DEF CallStands

\* The answer of a request reaches its own call only.
LEMMA Replies ==
  ASSUME FrontInv, NEW r \in signed, NEW answer \in Answers, Reply(r, answer)
  PROVE  /\ CallsGoOn /\ frontCall'[r.call].sentAt = frontCall[r.call].sentAt
         /\ \A c \in FrontCalls \ {r.call} : frontCall'[c] = frontCall[c]
         /\ frontCall'[r.call] = frontCall[r.call] \/ frontCall'[r.call].answer = answer
<1>1. frontCall \in [FrontCalls -> CallRows] /\ r.call \in FrontCalls
  BY DEF FrontInv, FrontTyped, SignedRows
<1>2. CASE frontCall' = frontCall
  BY <1>1, <1>2 DEF CallsGoOn
<1>3. CASE frontCall' = Answered(r.call, answer) /\ frontCall[r.call].pc = "forwarded"
  <2>1. PICK new : new = [frontCall[r.call] EXCEPT !.pc = "answered", !.answer = answer]
    OBVIOUS
  <2>2. new \in CallRows /\ new.pc = "answered" /\ new.answer = answer /\ new.sentAt = frontCall[r.call].sentAt
    BY <1>1, <2>1 DEF CallRows
  <2>3. frontCall' = [frontCall EXCEPT ![r.call] = new]
    BY <1>1, <1>3, <2>1 DEF Answered
  <2> QED
    BY <1>1, <1>3, <2>2, <2>3 DEF CallsGoOn
<1> QED
  BY <1>2, <1>3 DEF Reply

\* One request moves on in the engine.
RequestMoves(r, new) ==
  /\ new \in SignedRows /\ new.id = r.id /\ new.call = r.call /\ new.timestamp = r.timestamp
  /\ new.stage # "arrived" /\ signed' = (signed \ {r}) \cup {new}
  /\ new.stage \in {"admitted", "verified"} => r.stage \in {"arrived", "admitted"}
  /\ seenServiceRequests' \subseteq [id : Nat, until : Nat]
  /\ \A s \in seenServiceRequests' : s \in seenServiceRequests \/ s.id = r.id
  /\ replayRows' \subseteq replayRows \cup {r.call}
  /\ r.call \in replayRows' \ replayRows => new.stage = "claimed"
  /\ CallsGoOn
  /\ UNCHANGED <<frontClock, frontOffset, databaseOffset, nextRequest, repeated, repeats>>

\* The others are about other ids, or about a call that was repeated.
LEMMA MovesStand ==
  ASSUME FrontInv, NEW r \in signed, NEW new, RequestMoves(r, new), ranInTime' \in [FrontCalls -> Nat],
         ranLate' \in [FrontCalls -> Nat]
  PROVE  FrontTyped' /\ (\A q \in signed' : RequestStands(q)') /\ SeenStand'
<1>1. FrontTyped /\ RequestStands(r) /\ r \in SignedRows /\ r.call \in FrontCalls /\ r.stage \in Stages
  BY DEF FrontInv, FrontTyped, SignedRows
<1>2. FrontTyped'
  BY <1>1 DEF FrontTyped, RequestMoves, CallsGoOn
<1>3. SeenStand'
  BY <1>1 DEF FrontInv, SeenStand, RequestMoves, RequestStands
<1>4. \A q \in signed' : q = new \/ (q \in signed /\ q # r)
  BY DEF RequestMoves
<1>5. \A q \in signed : q # r => (q.id = r.id => q.call = r.call) /\ ~(q.call = r.call /\ r.call \notin repeated)
  BY <1>1 DEF RequestStands
<1>6. ASSUME NEW q \in signed', q = new
      PROVE  RequestStands(q)'
  <2>1. \A p \in signed' : (p.id = q.id => p.call = q.call) /\ (p.call = q.call /\ q.call \notin repeated' => p = q)
    BY <1>4, <1>5, <1>6 DEF RequestMoves
  <2>2. frontCall[r.call].pc # "idle"
    BY <1>1 DEF RequestStands
  <2>3. frontCall'[q.call].pc \in {"forwarded", "answered"} /\ frontCall'[q.call].sentAt = frontCall[r.call].sentAt
    BY <1>1, <1>6, <2>2 DEF RequestMoves, RequestStands, CallsGoOn
  <2>4. q.call \notin repeated' /\ q.stage \in {"arrived", "admitted", "verified"} => q.call \notin replayRows'
    BY <1>1, <1>6 DEF RequestMoves, RequestStands
  <2> QED
    BY <1>1, <1>6, <2>1, <2>3, <2>4 DEF RequestMoves, RequestStands
<1>7. ASSUME NEW q \in signed', q \in signed, q # r
      PROVE  RequestStands(q)'
  <2>1. RequestStands(q) /\ q.call \in FrontCalls
    BY <1>1, <1>7 DEF FrontInv, FrontTyped, SignedRows
  <2>2. q.call = r.call => q.call \in repeated
    BY <1>5, <1>7
  <2>3. q.id = r.id => q.call = r.call
    BY <1>5, <1>7
  <2>4. \A p \in signed' : (p.id = q.id => p.call = q.call) /\ (p.call = q.call /\ q.call \notin repeated' => p = q)
    <3>1. ASSUME NEW p \in signed', p = new
          PROVE  (p.id = q.id => p.call = q.call) /\ (p.call = q.call /\ q.call \notin repeated' => p = q)
      BY <2>2, <2>3, <3>1 DEF RequestMoves
    <3>2. ASSUME NEW p \in signed', p \in signed
          PROVE  (p.id = q.id => p.call = q.call) /\ (p.call = q.call /\ q.call \notin repeated' => p = q)
      BY <2>1, <3>2 DEF RequestMoves, RequestStands
    <3> QED
      BY <1>4, <3>1, <3>2
  <2>5. frontCall'[q.call].pc \in {"forwarded", "answered"} /\ frontCall'[q.call].sentAt = frontCall[q.call].sentAt
    BY <2>1 DEF RequestMoves, RequestStands, CallsGoOn
  <2>6. q.call \notin repeated' /\ q.stage \in {"arrived", "admitted", "verified"} => q.call \notin replayRows'
    BY <2>1, <2>2 DEF RequestMoves, RequestStands
  <2>7. q.call \notin repeated' /\ q.stage = "arrived" => \A s \in seenServiceRequests' : s.id # q.id
    BY <2>1, <2>2, <2>3 DEF RequestMoves, RequestStands
  <2> QED
    BY <2>1, <2>4, <2>5, <2>6, <2>7 DEF RequestMoves, RequestStands
<1> QED
  BY <1>2, <1>3, <1>4, <1>6, <1>7

\* A request at another stage is the same request.
LEMMA AtStage ==
  ASSUME NEW r \in SignedRows, NEW stage \in Stages, NEW new, new = [r EXCEPT !.stage = stage]
  PROVE  /\ new \in SignedRows /\ new.id = r.id /\ new.call = r.call /\ new.timestamp = r.timestamp
         /\ new.stage = stage /\ new.late = r.late
BY DEF SignedRows

\* No call, no request.
LEMMA InitFront ==
  ASSUME FrontInit
  PROVE  FrontInv
<1>1. FrontTyped
  BY FrontAssumption DEF FrontInit, FrontTyped, CallRows, Answers
<1>2. \A c \in FrontCalls : frontCall[c].sentAt = 0 /\ frontCall[c].answer = "none" /\ ranInTime[c] = 0
  BY DEF FrontInit
<1>3. \A c \in FrontCalls : CallStands(c) /\ RunStands(c)
  BY <1>2 DEF FrontInit, CallStands, RunStands
<1> QED
  BY <1>1, <1>3 DEF FrontInit, FrontInv, SeenStand

\* Only calls move.
LEMMA CallsOnly ==
  ASSUME FrontInv, CallsGoOn, \A c \in FrontCalls : CallStands(c)',
         UNCHANGED <<frontClock, frontOffset, databaseOffset, signed, nextRequest,
                     seenServiceRequests, replayRows, ranInTime, ranLate, repeated, repeats>>
  PROVE  FrontInv'
<1>1. FrontTyped /\ frontClock \in Nat
  BY DEF FrontInv, FrontTyped
<1>2. FrontTyped'
  BY <1>1 DEF FrontTyped, CallsGoOn
<1>3. ASSUME NEW r \in signed
      PROVE  RequestStands(r)'
  <2>1. RequestStands(r) /\ r.call \in FrontCalls
    BY <1>1 DEF FrontInv, FrontTyped, SignedRows
  <2> QED
    BY <2>1 DEF RequestStands, CallsGoOn
<1>4. \A c \in FrontCalls : RunStands(c)'
  BY <1>1, RunsKept
<1> QED
  BY <1>2, <1>3, <1>4 DEF FrontInv, SeenStand

\* The front calls, and gives up.
LEMMA FrontCallsOrGivesUp ==
  ASSUME FrontInv, NEW c \in FrontCalls, requestEngineAction(c) \/ giveUp(c)
  PROVE  FrontInv'
<1>1. FrontTyped /\ frontClock \in Nat /\ CallStands(c) /\ frontCall[c] \in CallRows
  BY DEF FrontInv, FrontTyped
<1>2. UNCHANGED <<frontClock, frontOffset, databaseOffset, signed, nextRequest,
                  seenServiceRequests, replayRows, ranInTime, ranLate, repeated, repeats>>
  BY DEF requestEngineAction, giveUp
<1>3. PICK new : /\ frontCall' = [frontCall EXCEPT ![c] = new] /\ new \in CallRows
                 /\ new.sentAt <= frontClock /\ new.answer \in {"none", "unavailable"} /\ new.pc # "idle"
                 /\ frontCall[c].pc # "idle" => new.pc = "answered" /\ new.sentAt = frontCall[c].sentAt
  <2>1. CASE requestEngineAction(c)
    <3>1. PICK new : new = [pc |-> "sent", sentAt |-> frontClock, answer |-> "none"]
      OBVIOUS
    <3>2. /\ new \in CallRows /\ new.sentAt = frontClock /\ new.answer = "none" /\ new.pc = "sent"
          /\ frontCall' = [frontCall EXCEPT ![c] = new] /\ frontCall[c].pc = "idle"
      BY <1>1, <2>1, <3>1 DEF requestEngineAction, CallRows, Answers
    <3>3. /\ new.sentAt <= frontClock /\ new.answer \in {"none", "unavailable"} /\ new.pc # "idle"
          /\ frontCall[c].pc # "idle" => new.pc = "answered" /\ new.sentAt = frontCall[c].sentAt
      BY <1>1, <3>2
    <3> QED
      BY <3>2, <3>3
  <2>2. CASE giveUp(c)
    <3>1. PICK new : new = [frontCall[c] EXCEPT !.pc = "answered", !.answer = "unavailable"]
      OBVIOUS
    <3>2. /\ new \in CallRows /\ new.sentAt = frontCall[c].sentAt /\ new.answer = "unavailable" /\ new.pc = "answered"
      BY <1>1, <3>1 DEF CallRows, Answers
    <3>3. frontCall' = [frontCall EXCEPT ![c] = new]
      BY <1>1, <2>2, <3>1 DEF giveUp, Answered
    <3> QED
      BY <1>1, <3>2, <3>3 DEF CallStands
  <2> QED
    BY <2>1, <2>2
<1>4. /\ CallsGoOn /\ frontCall'[c] = new /\ \A d \in FrontCalls \ {c} : frontCall'[d] = frontCall[d]
  BY <1>1, <1>3 DEF CallsGoOn, FrontTyped
<1>5. ASSUME NEW d \in FrontCalls
      PROVE  CallStands(d)'
  <2>1. CASE d = c
    BY <1>2, <1>3, <1>4, <2>1, PlainAnswer
  <2>2. CASE d # c
    BY <1>1, <1>2, <1>4, <2>2, AnswerKept DEF FrontTyped
  <2> QED
    BY <2>1, <2>2
<1> QED
  BY <1>2, <1>4, <1>5, CallsOnly

\* One more request arrives: under an id of its own, or as a copy.
LEMMA Arrives ==
  ASSUME FrontInv, NEW new \in SignedRows, new.stage = "arrived", signed' = signed \cup {new},
         CallsGoOn, \A c \in FrontCalls : CallStands(c)',
         frontCall'[new.call].pc \in {"forwarded", "answered"},
         frontCall'[new.call].sentAt <= new.timestamp, new.timestamp <= frontClock,
         nextRequest' \in Nat, nextRequest' >= nextRequest, new.id < nextRequest', repeats' \in Nat,
         repeated \subseteq repeated',
         new.id = nextRequest \/ \E r \in signed : new.id = r.id /\ new.call = r.call /\ r.call \in repeated',
         new.call \in repeated' \/ frontCall[new.call].pc = "sent",
         UNCHANGED <<frontClock, frontOffset, databaseOffset, seenServiceRequests, replayRows, ranInTime, ranLate>>
  PROVE  FrontInv'
<1>1. FrontTyped /\ frontClock \in Nat /\ new.call \in FrontCalls
  BY DEF FrontInv, FrontTyped, SignedRows
<1>2. FrontTyped'
  BY <1>1 DEF FrontTyped, CallsGoOn
<1>3. \A c \in FrontCalls : RunStands(c)'
  BY <1>1, RunsKept DEF Early
<1>4. nextRequest \in Nat /\ SeenStand'
  <2>1. \A s \in seenServiceRequests : s.id < nextRequest /\ s.id \in Nat
    BY <1>1 DEF FrontInv, SeenStand, FrontTyped
  <2> QED
    BY <1>1, <2>1 DEF SeenStand, FrontTyped
<1>5. \A q \in signed : /\ RequestStands(q) /\ q.id < nextRequest /\ q.id \in Nat /\ q.call \in FrontCalls
                        /\ q.id = new.id => q.call = new.call
                        /\ q.call = new.call => new.call \in repeated'
  <2> SUFFICES ASSUME NEW q \in signed
               PROVE  /\ RequestStands(q) /\ q.id < nextRequest /\ q.id \in Nat /\ q.call \in FrontCalls
                      /\ q.id = new.id => q.call = new.call
                      /\ q.call = new.call => new.call \in repeated'
    OBVIOUS
  <2>1. RequestStands(q) /\ q.id < nextRequest /\ q.id \in Nat /\ q.call \in FrontCalls
    BY <1>1 DEF FrontInv, RequestStands, FrontTyped, SignedRows
  <2>2. q.id = new.id => q.call = new.call
    <3>1. CASE new.id = nextRequest
      BY <1>4, <2>1, <3>1
    <3>2. ASSUME NEW r \in signed, new.id = r.id, new.call = r.call
          PROVE  q.id = new.id => q.call = new.call
      BY <3>2 DEF FrontInv, RequestStands
    <3> QED
      BY <3>1, <3>2
  <2>3. q.call = new.call => new.call \in repeated'
    BY <2>1 DEF RequestStands
  <2> QED
    BY <2>1, <2>2, <2>3
<1>6. ASSUME NEW q \in signed
      PROVE  RequestStands(q)'
  <2>1. RequestStands(q) /\ q.id < nextRequest' /\ q.call \in FrontCalls
    BY <1>4, <1>5
  <2>2. \A p \in signed' : (p.id = q.id => p.call = q.call) /\ (p.call = q.call /\ q.call \notin repeated' => p = q)
    BY <1>5, <2>1 DEF RequestStands
  <2> QED
    BY <2>1, <2>2 DEF RequestStands, CallsGoOn
<1>7. RequestStands(new)'
  <2>1. \A p \in signed' : (p.id = new.id => p.call = new.call) /\ (p.call = new.call /\ new.call \notin repeated' => p = new)
    BY <1>5
  <2>2. new.call \notin repeated' => new.call \notin replayRows /\ new.id = nextRequest
    BY <1>1 DEF FrontInv, RunStands
  <2>3. new.id = nextRequest => \A s \in seenServiceRequests : s.id # new.id
    BY <1>1 DEF FrontInv, SeenStand, FrontTyped
  <2> QED
    BY <2>1, <2>2, <2>3 DEF RequestStands
<1> QED
  BY <1>2, <1>3, <1>4, <1>6, <1>7 DEF FrontInv

\* A request that is signed now.
LEMMA SignsNow ==
  ASSUME FrontInv, NEW c \in FrontCalls, NEW waits \in BOOLEAN
  PROVE  /\ SignedNow(c, waits) \in SignedRows /\ SignedNow(c, waits).stage = "arrived"
         /\ SignedNow(c, waits).id = nextRequest /\ SignedNow(c, waits).call = c
         /\ SignedNow(c, waits).timestamp = frontClock
BY DEF FrontInv, FrontTyped, SignedRows, Stages, SignedNow

\* The ingress forwards a call, or answers it itself.
LEMMA Forwards ==
  ASSUME FrontInv, NEW c \in FrontCalls, proxyToEngine(c)
  PROVE  FrontInv'
<1>1. /\ FrontTyped /\ frontClock \in Nat /\ nextRequest \in Nat /\ CallStands(c) /\ frontCall[c] \in CallRows
      /\ frontCall[c].sentAt <= frontClock /\ frontCall[c].pc = "sent"
  BY DEF FrontInv, FrontTyped, CallStands, proxyToEngine
<1>2. UNCHANGED <<frontClock, frontOffset, databaseOffset, seenServiceRequests, replayRows,
                  ranInTime, ranLate, repeated, repeats>>
  BY DEF proxyToEngine
<1>3. CASE /\ frontCall' = [frontCall EXCEPT ![c].pc = "forwarded"]
           /\ signed' = signed \cup {SignedNow(c, TRUE)}
           /\ nextRequest' = nextRequest + 1
  <2>1. /\ CallsGoOn /\ frontCall'[c].pc = "forwarded" /\ frontCall'[c].sentAt = frontCall[c].sentAt
        /\ frontCall'[c].answer = frontCall[c].answer
        /\ \A d \in FrontCalls \ {c} : frontCall'[d] = frontCall[d]
    BY <1>1, <1>3 DEF CallsGoOn, FrontTyped, CallRows
  <2>2. ASSUME NEW d \in FrontCalls
        PROVE  CallStands(d)'
    <3>1. CASE d = c
      BY <1>1, <1>2, <2>1, <3>1 DEF CallStands
    <3>2. CASE d # c
      BY <1>1, <1>2, <2>1, <3>2, AnswerKept DEF FrontTyped
    <3> QED
      BY <3>1, <3>2
  <2>3. nextRequest' \in Nat /\ nextRequest' >= nextRequest /\ nextRequest < nextRequest' /\ repeats' \in Nat
    BY <1>1, <1>2, <1>3 DEF FrontTyped
  <2>4. PICK new : new = SignedNow(c, TRUE)
    OBVIOUS
  <2>5. /\ new \in SignedRows /\ new.stage = "arrived" /\ new.id = nextRequest /\ new.call = c
        /\ new.timestamp = frontClock
    BY <2>4, SignsNow
  <2>6. signed' = signed \cup {new} /\ frontClock <= frontClock
    BY <1>1, <1>3, <2>4
  <2> QED
    BY <1>1, <1>2, <2>1, <2>2, <2>3, <2>5, <2>6, Arrives
<1>4. ASSUME NEW answer \in {"not_found", "too_large", "unavailable"}, frontCall' = Answered(c, answer),
             UNCHANGED <<signed, nextRequest>>
      PROVE  FrontInv'
  <2>1. PICK new : new = [frontCall[c] EXCEPT !.pc = "answered", !.answer = answer]
    OBVIOUS
  <2>2. /\ new \in CallRows /\ new.sentAt = frontCall[c].sentAt /\ new.answer = answer /\ new.pc = "answered"
    BY <1>1, <2>1 DEF CallRows, Answers
  <2>3. frontCall' = [frontCall EXCEPT ![c] = new]
    BY <1>1, <1>4, <2>1 DEF Answered
  <2>4. CallsGoOn /\ frontCall'[c] = new /\ \A d \in FrontCalls \ {c} : frontCall'[d] = frontCall[d]
    BY <1>1, <2>2, <2>3 DEF CallsGoOn, FrontTyped
  <2>5. ASSUME NEW d \in FrontCalls
        PROVE  CallStands(d)'
    <3>1. CASE d = c
      BY <1>1, <1>2, <1>4, <2>2, <2>4, <3>1, PlainAnswer
    <3>2. CASE d # c
      BY <1>1, <1>2, <2>4, <3>2, AnswerKept DEF FrontTyped
    <3> QED
      BY <3>1, <3>2
  <2> QED
    BY <1>2, <1>4, <2>4, <2>5, CallsOnly
<1> QED
  BY <1>3, <1>4 DEF proxyToEngine

\* A call is delivered to the ingress again.
LEMMA CallRepeats ==
  ASSUME FrontInv, NEW c \in FrontCalls, repeatCall(c)
  PROVE  FrontInv'
<1>1. /\ FrontTyped /\ frontClock \in Nat /\ nextRequest \in Nat /\ repeats \in Nat /\ frontCall[c].sentAt <= frontClock
  BY DEF FrontInv, FrontTyped, CallStands
<1>2. /\ frontCall[c].pc \in {"forwarded", "answered"} /\ repeats' = repeats + 1 /\ repeated' = repeated \cup {c}
      /\ signed' = signed \cup {SignedNow(c, FALSE)} /\ nextRequest' = nextRequest + 1
      /\ UNCHANGED <<frontClock, frontOffset, databaseOffset, frontCall, seenServiceRequests, replayRows, ranInTime, ranLate>>
  BY DEF repeatCall, Repeat
<1>3. CallsGoOn
  BY <1>1, <1>2 DEF CallsGoOn, FrontTyped
<1>4. \A d \in FrontCalls : CallStands(d)'
  BY <1>1, <1>2, AnswerKept DEF FrontTyped
<1>5. PICK new : new = SignedNow(c, FALSE)
  OBVIOUS
<1>6. /\ new \in SignedRows /\ new.stage = "arrived" /\ new.id = nextRequest /\ new.call = c
      /\ new.timestamp = frontClock
  BY <1>5, SignsNow
<1>7. /\ nextRequest' \in Nat /\ nextRequest' >= nextRequest /\ nextRequest < nextRequest' /\ repeats' \in Nat
      /\ signed' = signed \cup {new} /\ frontClock <= frontClock
  BY <1>1, <1>2, <1>5
<1> QED
  BY <1>1, <1>2, <1>3, <1>4, <1>6, <1>7, Arrives

\* A signed request is delivered to the engine again.
LEMMA SignedRepeats ==
  ASSUME FrontInv, NEW r \in signed, repeatSigned(r)
  PROVE  FrontInv'
<1>1. /\ FrontTyped /\ frontClock \in Nat /\ nextRequest \in Nat /\ repeats \in Nat /\ RequestStands(r)
      /\ r \in SignedRows /\ r.call \in FrontCalls
  BY DEF FrontInv, FrontTyped, SignedRows
<1>2. PICK new : new = [r EXCEPT !.copy = repeats + 1, !.waits = FALSE, !.stage = "arrived", !.late = FALSE]
  OBVIOUS
<1>3. /\ repeats' = repeats + 1 /\ repeated' = repeated \cup {r.call} /\ signed' = signed \cup {new}
      /\ UNCHANGED <<frontClock, frontOffset, databaseOffset, frontCall, nextRequest, seenServiceRequests, replayRows, ranInTime, ranLate>>
  BY <1>2 DEF repeatSigned, Repeat
<1>4. /\ new \in SignedRows /\ new.stage = "arrived" /\ new.id = r.id /\ new.call = r.call
      /\ new.timestamp = r.timestamp
  <2>1. PICK n : n = repeats + 1
    OBVIOUS
  <2>2. n \in Nat
    BY <1>1, <2>1
  <2>3. new = [r EXCEPT !.copy = n, !.waits = FALSE, !.stage = "arrived", !.late = FALSE]
    BY <1>2, <2>1
  <2> QED
    BY <1>1, <2>2, <2>3 DEF SignedRows, Stages
<1>5. CallsGoOn
  BY <1>1, <1>3 DEF CallsGoOn, FrontTyped
<1>6. \A d \in FrontCalls : CallStands(d)'
  BY <1>1, <1>3, AnswerKept DEF FrontTyped
<1>7. repeats' \in Nat /\ nextRequest' >= nextRequest
  BY <1>1, <1>3
<1> QED
  BY <1>1, <1>3, <1>4, <1>5, <1>6, <1>7, Arrives DEF RequestStands

\* One request moves and its call hears of it, without a command being run.
LEMMA MovesPlainly ==
  ASSUME FrontInv, NEW r \in signed, NEW new, RequestMoves(r, new), ~Early(new),
         replayRows' = replayRows, UNCHANGED <<ranInTime, ranLate>>,
         \A c \in FrontCalls \ {r.call} : frontCall'[c] = frontCall[c],
         frontCall'[r.call] = frontCall[r.call] \/ CallStands(r.call)'
  PROVE  FrontInv'
<1>1. /\ FrontTyped /\ frontClock \in Nat /\ r.call \in FrontCalls
      /\ ranInTime \in [FrontCalls -> Nat] /\ ranLate \in [FrontCalls -> Nat]
  BY DEF FrontInv, FrontTyped, SignedRows
<1>2. FrontTyped' /\ (\A q \in signed' : RequestStands(q)') /\ SeenStand'
  BY <1>1, MovesStand
<1>3. \A c \in FrontCalls : RunStands(c)'
  <2>1. \A q \in signed' : Early(q) => q \in signed
    BY DEF RequestMoves
  <2>2. CallsGoOn /\ UNCHANGED <<frontClock, frontOffset, databaseOffset>>
    BY DEF RequestMoves
  <2> QED
    BY <1>1, <2>1, <2>2, RunsKept
<1>4. ASSUME NEW c \in FrontCalls, frontCall'[c] = frontCall[c]
      PROVE  CallStands(c)'
  BY <1>1, <1>4, AnswerKept DEF RequestMoves
<1> QED
  BY <1>1, <1>2, <1>3, <1>4 DEF FrontInv

\* A call is refused for its assertion or its id only when it was too long on its way.
LEMMA RefusedLate ==
  ASSUME FrontInv, NEW c \in FrontCalls, frontCall'[c].sentAt = frontCall[c].sentAt,
         UNCHANGED <<frontClock, frontOffset, repeated>>,
         frontCall'[c].answer \in {"unauthorized", "replayed"},
         c \notin repeated /\ frontOffset \in (-ClockTolerance)..ClockTolerance
           => frontClock - frontCall[c].sentAt > SignedWindow
  PROVE  CallStands(c)'
<1>1. CallStands(c)
  BY DEF FrontInv
<1> QED
  BY <1>1 DEF CallStands

\* The service authentication admits a request, or refuses one that is late or repeated.
LEMMA Authenticates ==
  ASSUME FrontInv, NEW r \in signed, authenticateServiceRequest(r)
  PROVE  FrontInv'
<1>1. /\ FrontTyped /\ frontClock \in Nat /\ RequestStands(r) /\ r \in SignedRows /\ r.call \in FrontCalls
      /\ r.timestamp \in Nat /\ r.id \in Nat /\ SignedWindow \in Nat /\ frontCall[r.call].sentAt \in Nat
      /\ r.stage = "arrived"
  BY FrontAssumption DEF FrontInv, FrontTyped, SignedRows, CallRows, authenticateServiceRequest
<1>2. UNCHANGED <<frontClock, frontOffset, databaseOffset, nextRequest, replayRows, ranInTime, ranLate, repeated, repeats>>
  BY DEF authenticateServiceRequest
<1>3. /\ seenServiceRequests' \subseteq [id : Nat, until : Nat]
      /\ \A s \in seenServiceRequests' : s \in seenServiceRequests \/ s.id = r.id
  <2>1. Remembered \subseteq seenServiceRequests /\ seenServiceRequests \subseteq [id : Nat, until : Nat]
    BY <1>1 DEF Remembered, FrontTyped
  <2>2. PICK mark : mark = [id |-> r.id, until |-> frontClock + SignedWindow]
    OBVIOUS
  <2>3. mark \in [id : Nat, until : Nat] /\ mark.id = r.id
    BY <1>1, <2>2
  <2>4. \/ seenServiceRequests' = seenServiceRequests
        \/ seenServiceRequests' = Remembered
        \/ seenServiceRequests' = Remembered \cup {mark}
    BY <2>2 DEF authenticateServiceRequest
  <2> QED
    BY <2>1, <2>3, <2>4
<1>4. CASE /\ InWindow(r) /\ \A s \in Remembered : s.id # r.id
           /\ Moved(r, "admitted")
           /\ frontCall' = frontCall
  <2>1. PICK new : new = [r EXCEPT !.stage = "admitted"]
    OBVIOUS
  <2>2. /\ new \in SignedRows /\ new.id = r.id /\ new.call = r.call /\ new.timestamp = r.timestamp
        /\ new.stage = "admitted" /\ new.late = r.late
    BY <1>1, <2>1, AtStage DEF Stages
  <2>3. signed' = (signed \ {r}) \cup {new}
    BY <1>4, <2>1 DEF Moved
  <2>4. RequestMoves(r, new) /\ ~Early(new)
    BY <1>1, <1>2, <1>3, <1>4, <2>2, <2>3 DEF RequestMoves, CallsGoOn, Early, FrontTyped
  <2> QED
    BY <1>1, <1>2, <1>4, <2>4, MovesPlainly
<1>5. CASE /\ ~(InWindow(r) /\ \A s \in Remembered : s.id # r.id)
           /\ Moved(r, "done")
           /\ Reply(r, "unauthorized")
  <2>1. PICK new : new = [r EXCEPT !.stage = "done"]
    OBVIOUS
  <2>2. /\ new \in SignedRows /\ new.id = r.id /\ new.call = r.call /\ new.timestamp = r.timestamp
        /\ new.stage = "done" /\ new.late = r.late
    BY <1>1, <2>1, AtStage DEF Stages
  <2>3. signed' = (signed \ {r}) \cup {new}
    BY <1>5, <2>1 DEF Moved
  <2>4. /\ CallsGoOn /\ frontCall'[r.call].sentAt = frontCall[r.call].sentAt
        /\ \A c \in FrontCalls \ {r.call} : frontCall'[c] = frontCall[c]
        /\ frontCall'[r.call] = frontCall[r.call] \/ frontCall'[r.call].answer = "unauthorized"
    BY <1>5, Replies DEF Answers
  <2>5. RequestMoves(r, new) /\ ~Early(new)
    BY <1>1, <1>2, <1>3, <2>2, <2>3, <2>4 DEF RequestMoves, Early, FrontTyped
  <2>6. r.call \notin repeated => frontClock - frontCall[r.call].sentAt > SignedWindow
    <3> SUFFICES ASSUME r.call \notin repeated
                 PROVE  frontClock - frontCall[r.call].sentAt > SignedWindow
      OBVIOUS
    <3>1. \A s \in Remembered : s.id # r.id
      BY <1>1 DEF RequestStands, Remembered
    <3>2. ~InWindow(r)
      BY <1>5, <3>1
    <3>3. r.timestamp <= frontClock /\ frontCall[r.call].sentAt <= r.timestamp
      BY <1>1 DEF RequestStands
    <3>4. PICK age : age = frontClock - r.timestamp
      OBVIOUS
    <3>5. age \in Int /\ age >= 0 /\ age \notin (-SignedWindow)..SignedWindow
      BY <1>1, <3>2, <3>3, <3>4 DEF InWindow
    <3>6. age > SignedWindow
      BY <1>1, <3>5
    <3> QED
      BY <1>1, <3>3, <3>4, <3>6
  <2>7. frontCall'[r.call] = frontCall[r.call] \/ CallStands(r.call)'
    BY <1>1, <1>2, <2>4, <2>6, RefusedLate
  <2> QED
    BY <1>1, <1>2, <2>4, <2>5, <2>7, MovesPlainly
<1> QED
  BY <1>4, <1>5 DEF authenticateServiceRequest

\* The claims of a call that is on its way for less than a window hold.
LEMMA FreshClaimsHold ==
  ASSUME FrontInv, NEW c \in FrontCalls, frontOffset \in (-ClockTolerance)..ClockTolerance,
         ~(frontClock - frontCall[c].sentAt > SignedWindow)
  PROVE  ClaimsHold(c)
<1>1. /\ frontClock \in Nat /\ frontCall[c].sentAt \in Nat /\ frontCall[c].sentAt <= frontClock /\ frontOffset \in Int
  BY DEF FrontInv, FrontTyped, CallRows, CallStands
<1>2. /\ SignedWindow \in Nat /\ AssertionLife \in Nat /\ ClockTolerance \in Nat /\ MaxTokenAge \in Nat
      /\ IssueSlack \in Nat /\ MaxLifetime \in Nat
      /\ SignedWindow + ClockTolerance < AssertionLife /\ ClockTolerance <= IssueSlack
      /\ AssertionLife <= MaxLifetime /\ AssertionLife <= MaxTokenAge
  BY FrontAssumption
<1>3. PICK s : s = frontCall[c].sentAt
  OBVIOUS
<1>4. IssuedAt(c) = s + frontOffset /\ ExpiresAt(c) = s + frontOffset + AssertionLife
  BY <1>3 DEF IssuedAt, ExpiresAt
<1>5. s \in Nat /\ s <= frontClock /\ frontClock - s <= SignedWindow
  BY <1>1, <1>2, <1>3
<1>6. -ClockTolerance <= frontOffset /\ frontOffset <= ClockTolerance
  BY <1>1, <1>2
<1> QED
  BY <1>1, <1>2, <1>4, <1>5, <1>6 DEF ClaimsHold

\* The assertion holds by the engine's clock, or is refused.
LEMMA Verifies ==
  ASSUME FrontInv, NEW r \in signed, verifyAssertion(r)
  PROVE  FrontInv'
<1>1. /\ FrontTyped /\ frontClock \in Nat /\ r \in SignedRows /\ r.call \in FrontCalls /\ r.stage = "admitted"
  BY DEF FrontInv, FrontTyped, SignedRows, verifyAssertion
<1>2. UNCHANGED <<frontClock, frontOffset, databaseOffset, nextRequest, seenServiceRequests,
                  replayRows, ranInTime, ranLate, repeated, repeats>>
  BY DEF verifyAssertion
<1>3. CASE ClaimsHold(r.call) /\ Moved(r, "verified") /\ frontCall' = frontCall
  <2>1. PICK new : new = [r EXCEPT !.stage = "verified"]
    OBVIOUS
  <2>2. /\ new \in SignedRows /\ new.id = r.id /\ new.call = r.call /\ new.timestamp = r.timestamp
        /\ new.stage = "verified" /\ new.late = r.late
    BY <1>1, <2>1, AtStage DEF Stages
  <2>3. signed' = (signed \ {r}) \cup {new}
    BY <1>3, <2>1 DEF Moved
  <2>4. RequestMoves(r, new) /\ ~Early(new)
    BY <1>1, <1>2, <1>3, <2>2, <2>3 DEF RequestMoves, CallsGoOn, Early, FrontTyped
  <2> QED
    BY <1>1, <1>2, <1>3, <2>4, MovesPlainly
<1>4. CASE ~ClaimsHold(r.call) /\ Moved(r, "done") /\ Reply(r, "unauthorized")
  <2>1. PICK new : new = [r EXCEPT !.stage = "done"]
    OBVIOUS
  <2>2. /\ new \in SignedRows /\ new.id = r.id /\ new.call = r.call /\ new.timestamp = r.timestamp
        /\ new.stage = "done" /\ new.late = r.late
    BY <1>1, <2>1, AtStage DEF Stages
  <2>3. signed' = (signed \ {r}) \cup {new}
    BY <1>4, <2>1 DEF Moved
  <2>4. /\ CallsGoOn /\ frontCall'[r.call].sentAt = frontCall[r.call].sentAt
        /\ \A c \in FrontCalls \ {r.call} : frontCall'[c] = frontCall[c]
        /\ frontCall'[r.call] = frontCall[r.call] \/ frontCall'[r.call].answer = "unauthorized"
    BY <1>4, Replies DEF Answers
  <2>5. RequestMoves(r, new) /\ ~Early(new)
    BY <1>1, <1>2, <2>2, <2>3, <2>4 DEF RequestMoves, Early, FrontTyped
  <2>6. frontOffset \in (-ClockTolerance)..ClockTolerance => frontClock - frontCall[r.call].sentAt > SignedWindow
    BY <1>1, <1>4, FreshClaimsHold
  <2>7. frontCall'[r.call] = frontCall[r.call] \/ CallStands(r.call)'
    BY <1>1, <1>2, <2>4, <2>6, RefusedLate
  <2> QED
    BY <1>1, <1>2, <2>4, <2>5, <2>7, MovesPlainly
<1> QED
  BY <1>3, <1>4 DEF verifyAssertion

\* The row is taken, by one request that is in time, or the request ends.
LEMMA Claims ==
  ASSUME FrontInv, NEW r \in signed, verifyActor(r)
  PROVE  FrontInv'
<1>1. /\ FrontTyped /\ frontClock \in Nat /\ RequestStands(r) /\ r \in SignedRows /\ r.call \in FrontCalls
      /\ r.stage = "verified"
  BY DEF FrontInv, FrontTyped, SignedRows, verifyActor
<1>2. UNCHANGED <<frontClock, frontOffset, databaseOffset, nextRequest, seenServiceRequests,
                  ranInTime, ranLate, repeated, repeats>>
  BY DEF verifyActor
<1>3. CASE /\ FirstUse(r.call)
           /\ replayRows' = replayRows \cup {r.call}
           /\ signed' = (signed \ {r}) \cup {[r EXCEPT !.stage = "claimed", !.late = RowExpired(r.call)]}
           /\ frontCall' = frontCall
  <2>1. PICK late : late \in BOOLEAN /\ (late <=> RowExpired(r.call)) /\ late = RowExpired(r.call)
    <3>1. RowExpired(r.call) \in BOOLEAN
      BY DEF RowExpired
    <3> QED
      BY <3>1, Zenon
  <2>2. PICK new : new = [r EXCEPT !.stage = "claimed", !.late = late]
    OBVIOUS
  <2>3. /\ new \in SignedRows /\ new.id = r.id /\ new.call = r.call /\ new.timestamp = r.timestamp
        /\ new.stage = "claimed" /\ new.late = late
    BY <1>1, <2>1, <2>2 DEF SignedRows, Stages
  <2>4. signed' = (signed \ {r}) \cup {new}
    BY <1>3, <2>1, <2>2
  <2>5. RequestMoves(r, new)
    BY <1>1, <1>2, <1>3, <2>3, <2>4 DEF RequestMoves, CallsGoOn, FrontTyped
  <2>6. FrontTyped' /\ (\A q \in signed' : RequestStands(q)') /\ SeenStand'
    BY <1>1, <1>2, <2>5, MovesStand DEF FrontTyped
  <2>7. \A c \in FrontCalls : CallStands(c)'
    BY <1>1, <1>2, <1>3, AnswerKept DEF FrontTyped
  <2>8. \A c \in FrontCalls : RowExpired(c)' <=> RowExpired(c)
    BY <1>2, <1>3 DEF RowExpired, ExpiresAt, IssuedAt
  <2>9. ASSUME NEW c \in FrontCalls
        PROVE  RunStands(c)'
    <3>1. RunStands(c)
      BY DEF FrontInv
    <3>2. Taken(c) => Taken(c)'
      BY <1>3, <2>8 DEF Taken
    <3>3. \A q \in signed' : Early(q) => q \in signed \/ (q = new /\ ~RowExpired(r.call))
      BY <2>1, <2>3, <2>4 DEF Early
    <3>4. c \in replayRows' => frontCall'[c].pc \in {"forwarded", "answered"}
      BY <1>1, <1>3, <3>1 DEF RunStands, RequestStands
    <3>5. CASE c # r.call \/ RowExpired(r.call)
      <4>1. \A q \in signed' : Early(q) /\ q.call = c => q \in signed
        BY <2>3, <3>3, <3>5
      <4> QED
        BY <1>2, <1>3, <3>1, <3>2, <3>4, <4>1 DEF RunStands, Early
    <3>6. CASE c = r.call /\ ~RowExpired(r.call)
      <4>1. ~Taken(c)
        BY <1>3, <3>6 DEF Taken, FirstUse
      <4>2. ranInTime[c] \in Nat /\ ~(ranInTime[c] > 0)
        BY <1>1, <3>1, <4>1 DEF RunStands, FrontTyped
      <4>3. ranInTime'[c] = 0 /\ Taken(c)'
        BY <1>2, <1>3, <3>6, <4>2 DEF Taken
      <4>4. \A q \in signed' : Early(q) /\ q.call = c => q = new
        BY <3>1, <3>3, <4>1 DEF RunStands
      <4> QED
        BY <3>4, <4>3, <4>4 DEF RunStands, Early
    <3> QED
      BY <3>5, <3>6
  <2> QED
    BY <2>6, <2>7, <2>9 DEF FrontInv
<1>4. ASSUME NEW answer \in {"replayed", "failed"}, Moved(r, "done"), Reply(r, answer), replayRows' = replayRows,
             answer = "replayed" => ~FirstUse(r.call)
      PROVE  FrontInv'
  <2>1. PICK new : new = [r EXCEPT !.stage = "done"]
    OBVIOUS
  <2>2. /\ new \in SignedRows /\ new.id = r.id /\ new.call = r.call /\ new.timestamp = r.timestamp
        /\ new.stage = "done" /\ new.late = r.late
    BY <1>1, <2>1, AtStage DEF Stages
  <2>3. signed' = (signed \ {r}) \cup {new}
    BY <1>4, <2>1 DEF Moved
  <2>4. /\ CallsGoOn /\ frontCall'[r.call].sentAt = frontCall[r.call].sentAt
        /\ \A c \in FrontCalls \ {r.call} : frontCall'[c] = frontCall[c]
        /\ frontCall'[r.call] = frontCall[r.call] \/ frontCall'[r.call].answer = answer
    BY <1>4, Replies DEF Answers
  <2>5. RequestMoves(r, new) /\ ~Early(new)
    BY <1>1, <1>2, <1>4, <2>2, <2>3, <2>4 DEF RequestMoves, Early, FrontTyped
  <2>6. frontCall'[r.call] = frontCall[r.call] \/ CallStands(r.call)'
    <3>1. CASE answer = "replayed"
      <4>1. r.call \in repeated
        BY <1>1, <1>4, <3>1 DEF RequestStands, FirstUse
      <4> QED
        BY <1>1, <1>2, <2>4, <3>1, <4>1, RefusedLate
    <3>2. CASE answer = "failed"
      <4>1. frontCall'[r.call].sentAt <= frontClock'
        BY <1>1, <1>2, <2>4 DEF FrontInv, CallStands
      <4> QED
        BY <1>1, <2>4, <3>2, <4>1, PlainAnswer
    <3> QED
      BY <3>1, <3>2
  <2> QED
    BY <1>1, <1>2, <1>4, <2>4, <2>5, <2>6, MovesPlainly
<1> QED
  BY <1>3, <1>4 DEF verifyActor

\* The command runs on a row that was taken in time, once, or the request ends without it.
LEMMA Dispatches ==
  ASSUME FrontInv, NEW r \in signed, dispatchEvidence(r)
  PROVE  FrontInv'
<1>1. /\ FrontTyped /\ frontClock \in Nat /\ RequestStands(r) /\ r \in SignedRows /\ r.call \in FrontCalls
      /\ r.stage = "claimed" /\ Moved(r, "done") /\ r.late \in BOOLEAN
  BY DEF FrontInv, FrontTyped, SignedRows, dispatchEvidence
<1>2. UNCHANGED <<frontClock, frontOffset, databaseOffset, nextRequest, seenServiceRequests,
                  replayRows, repeated, repeats>>
  BY DEF dispatchEvidence
<1>3. PICK new : new = [r EXCEPT !.stage = "done"]
  OBVIOUS
<1>4. /\ new \in SignedRows /\ new.id = r.id /\ new.call = r.call /\ new.timestamp = r.timestamp
      /\ new.stage = "done" /\ new.late = r.late
  BY <1>1, <1>3, AtStage DEF Stages
<1>5. signed' = (signed \ {r}) \cup {new} /\ ~Early(new)
  BY <1>1, <1>3, <1>4 DEF Moved, Early
<1>6. PICK answer \in {"ok", "failed"} :
        /\ Reply(r, answer)
        /\ \/ r.late /\ ranLate' = [ranLate EXCEPT ![r.call] = ranLate[r.call] + 1] /\ ranInTime' = ranInTime
           \/ ~r.late /\ ranInTime' = [ranInTime EXCEPT ![r.call] = ranInTime[r.call] + 1] /\ ranLate' = ranLate
           \/ answer = "failed" /\ ranInTime' = ranInTime /\ ranLate' = ranLate
  BY DEF dispatchEvidence
<1>7. /\ CallsGoOn /\ frontCall'[r.call].sentAt = frontCall[r.call].sentAt
      /\ \A c \in FrontCalls \ {r.call} : frontCall'[c] = frontCall[c]
      /\ frontCall'[r.call] = frontCall[r.call] \/ frontCall'[r.call].answer = answer
  BY <1>6, Replies DEF Answers
<1>8. RequestMoves(r, new)
  BY <1>1, <1>2, <1>4, <1>5, <1>7 DEF RequestMoves, FrontTyped
<1>9. /\ ranInTime' \in [FrontCalls -> Nat] /\ ranLate' \in [FrontCalls -> Nat]
      /\ \A c \in FrontCalls : ranLate[c] > 0 => ranLate'[c] > 0
      /\ \A c \in FrontCalls : ranInTime'[c] >= ranInTime[c] /\ ranInTime[c] \in Nat
      /\ \A c \in FrontCalls \ {r.call} : ranInTime'[c] = ranInTime[c]
      /\ ranInTime'[r.call] # ranInTime[r.call] => ~r.late /\ ranInTime'[r.call] = ranInTime[r.call] + 1
      /\ answer = "ok" => ranInTime'[r.call] > 0 \/ ranLate'[r.call] > 0
  <2>1. ranInTime \in [FrontCalls -> Nat] /\ ranInTime[r.call] \in Nat /\ ranLate \in [FrontCalls -> Nat]
    BY <1>1 DEF FrontTyped
  <2>2. CASE r.late /\ ranLate' = [ranLate EXCEPT ![r.call] = ranLate[r.call] + 1] /\ ranInTime' = ranInTime
    <3>1. /\ ranLate' \in [FrontCalls -> Nat] /\ ranLate'[r.call] > 0
          /\ \A c \in FrontCalls : ranLate[c] > 0 => ranLate'[c] > 0
      BY <1>1, <2>1, <2>2
    <3>2. \A c \in FrontCalls : ranInTime'[c] = ranInTime[c] /\ ranInTime[c] \in Nat
      BY <2>1, <2>2
    <3>3. ranInTime' \in [FrontCalls -> Nat]
      BY <2>1, <2>2
    <3> QED
      BY <1>1, <3>1, <3>2, <3>3
  <2>4. CASE answer = "failed" /\ ranInTime' = ranInTime /\ ranLate' = ranLate
    <3>2. \A c \in FrontCalls : ranInTime'[c] = ranInTime[c] /\ ranInTime[c] \in Nat
      BY <2>1, <2>4
    <3>3. /\ ranInTime' \in [FrontCalls -> Nat] /\ ranLate' \in [FrontCalls -> Nat]
          /\ \A c \in FrontCalls : ranLate[c] > 0 => ranLate'[c] > 0
      BY <2>1, <2>4
    <3> QED
      BY <1>1, <2>4, <3>2, <3>3
  <2>3. CASE ~r.late /\ ranInTime' = [ranInTime EXCEPT ![r.call] = ranInTime[r.call] + 1] /\ ranLate' = ranLate
    BY <1>1, <2>1, <2>3
  <2> QED
    BY <1>6, <2>2, <2>3, <2>4
<1>10. FrontTyped' /\ (\A q \in signed' : RequestStands(q)') /\ SeenStand'
  BY <1>8, <1>9, MovesStand
<1>11. ASSUME NEW c \in FrontCalls
       PROVE  CallStands(c)'
  <2>1. CASE frontCall'[c] = frontCall[c]
    BY <1>1, <1>2, <1>9, <2>1, AnswerKept
  <2>2. CASE c = r.call /\ frontCall'[c].answer = answer
    <3>1. frontCall'[c].sentAt <= frontClock'
      BY <1>2, <1>7, <2>2 DEF FrontInv, CallStands
    <3>2. CASE answer = "failed"
      BY <2>2, <3>1, <3>2, PlainAnswer
    <3>3. CASE answer = "ok"
      BY <1>9, <2>2, <3>1, <3>3 DEF CallStands
    <3> QED
      BY <3>2, <3>3
  <2> QED
    BY <1>7, <2>1, <2>2
<1>12. \A c \in FrontCalls : frontCall[c].pc # "idle" => (RowExpired(c)' <=> RowExpired(c))
  BY <1>2, <1>7 DEF RowExpired, ExpiresAt, IssuedAt, CallsGoOn
<1>13. ASSUME NEW c \in FrontCalls
       PROVE  RunStands(c)'
  <2>1. RunStands(c) /\ ranInTime[c] \in Nat
    BY <1>9 DEF FrontInv
  <2>2. ASSUME Taken(c), frontCall[c].pc # "idle" PROVE Taken(c)' /\ frontCall'[c].pc # "idle"
    BY <1>2, <1>7, <1>12, <2>2 DEF Taken, CallsGoOn
  <2>3. \A q \in signed' : Early(q) => q \in signed /\ q # r
    BY <1>5
  <2>4. c \in replayRows' => frontCall'[c].pc \in {"forwarded", "answered"}
    BY <1>2, <1>7, <2>1 DEF RunStands, CallsGoOn
  <2>5. \A q \in signed : q.call = c => frontCall[c].pc # "idle"
    BY DEF FrontInv, RequestStands
  <2>6. CASE ranInTime'[c] = ranInTime[c]
    <3>1. ranInTime'[c] > 0 => Taken(c)' /\ frontCall'[c].pc # "idle"
      BY <2>1, <2>2, <2>6 DEF RunStands
    <3>2. ASSUME NEW p \in signed', Early(p), p.call = c
          PROVE  ranInTime'[c] = 0 /\ Taken(c)' /\ \A q \in signed' : Early(q) /\ q.call = c => q = p
      BY <2>1, <2>2, <2>3, <2>5, <2>6, <3>2 DEF RunStands
    <3> QED
      BY <2>1, <2>4, <2>6, <3>1, <3>2 DEF RunStands, Early
  <2>7. CASE c = r.call /\ ranInTime'[c] # ranInTime[c]
    <3>1. Early(r) /\ ranInTime'[c] = ranInTime[c] + 1
      BY <1>1, <1>9, <2>7 DEF Early
    <3>2. ranInTime[c] = 0 /\ Taken(c) /\ \A q \in signed : Early(q) /\ q.call = c => q = r
      BY <2>1, <2>7, <3>1 DEF RunStands
    <3>3. \A q \in signed' : ~(Early(q) /\ q.call = c)
      BY <2>3, <3>2
    <3>4. ranInTime'[c] = 1 /\ Taken(c)' /\ frontCall'[c].pc # "idle"
      BY <2>2, <2>5, <2>7, <3>1, <3>2
    <3> QED
      BY <2>4, <3>3, <3>4 DEF RunStands, Early
  <2> QED
    BY <1>9, <2>6, <2>7
<1> QED
  BY <1>10, <1>11, <1>13 DEF FrontInv

\* The engine restarts: whatever it was doing ends.
LEMMA Restarts ==
  ASSUME FrontInv, restartEngine
  PROVE  FrontInv'
<1>1. FrontTyped /\ frontClock \in Nat /\ signed \subseteq SignedRows
  BY DEF FrontInv, FrontTyped
<1>2. /\ seenServiceRequests' = {} /\ signed' = {[r EXCEPT !.stage = "done"] : r \in signed}
      /\ frontCall' = [c \in FrontCalls |->
           IF frontCall[c].pc = "forwarded"
           THEN [frontCall[c] EXCEPT !.pc = "answered", !.answer = "unavailable"] ELSE frontCall[c]]
  BY DEF restartEngine
<1>0. UNCHANGED <<frontClock, frontOffset, databaseOffset, nextRequest, replayRows, ranInTime, ranLate, repeated, repeats>>
  BY DEF restartEngine
<1>3. \A q \in signed' : \E r \in signed : q = [r EXCEPT !.stage = "done"]
  BY <1>2
<1>4. \A q \in signed' : /\ q \in SignedRows /\ q.stage = "done"
                         /\ \E r \in signed : /\ q = [r EXCEPT !.stage = "done"] /\ q.id = r.id /\ q.call = r.call
                                              /\ q.timestamp = r.timestamp
  <2> SUFFICES ASSUME NEW q \in signed'
               PROVE  /\ q \in SignedRows /\ q.stage = "done"
                      /\ \E r \in signed : /\ q = [r EXCEPT !.stage = "done"] /\ q.id = r.id /\ q.call = r.call
                                           /\ q.timestamp = r.timestamp
    OBVIOUS
  <2>1. PICK r \in signed : q = [r EXCEPT !.stage = "done"]
    BY <1>3
  <2>2. /\ q \in SignedRows /\ q.id = r.id /\ q.call = r.call /\ q.timestamp = r.timestamp /\ q.stage = "done"
    BY <1>1, <2>1, AtStage DEF Stages
  <2> QED
    BY <2>1, <2>2
<1>5. \A c \in FrontCalls : \/ frontCall'[c] = frontCall[c]
                            \/ /\ frontCall'[c] \in CallRows /\ frontCall'[c].pc = "answered"
                               /\ frontCall'[c].answer = "unavailable" /\ frontCall'[c].sentAt = frontCall[c].sentAt
  <2> SUFFICES ASSUME NEW c \in FrontCalls
               PROVE  \/ frontCall'[c] = frontCall[c]
                      \/ /\ frontCall'[c] \in CallRows /\ frontCall'[c].pc = "answered"
                         /\ frontCall'[c].answer = "unavailable" /\ frontCall'[c].sentAt = frontCall[c].sentAt
    OBVIOUS
  <2>1. PICK new : new = [frontCall[c] EXCEPT !.pc = "answered", !.answer = "unavailable"]
    OBVIOUS
  <2>2. /\ new \in CallRows /\ new.sentAt = frontCall[c].sentAt /\ new.answer = "unavailable" /\ new.pc = "answered"
    BY <1>1, <2>1 DEF CallRows, Answers, FrontTyped
  <2>3. frontCall'[c] = new \/ frontCall'[c] = frontCall[c]
    BY <1>2, <2>1
  <2> QED
    BY <2>2, <2>3
<1>6. CallsGoOn
  <2>1. frontCall' \in [FrontCalls -> CallRows]
    BY <1>1, <1>2, <1>5 DEF FrontTyped
  <2> QED
    BY <1>5, <2>1 DEF CallsGoOn
<1>7. FrontTyped'
  <2>1. signed' \subseteq SignedRows /\ seenServiceRequests' = {}
    BY <1>2, <1>4
  <2> QED
    BY <1>0, <1>1, <1>6, <2>1 DEF FrontTyped, CallsGoOn
<1>8. \A c \in FrontCalls : RunStands(c)'
  <2>1. \A q \in signed' : ~Early(q)
    BY <1>4 DEF Early
  <2>2. \A q \in signed' : Early(q) => q \in signed
    BY <2>1
  <2>3. frontClock' \in Nat /\ frontClock' >= frontClock
    BY <1>0, <1>1
  <2>4. replayRows' \subseteq replayRows /\ \A c \in replayRows : c \in replayRows' \/ RowExpired(c)
    BY <1>0
  <2> QED
    BY <1>0, <1>6, <2>2, <2>3, <2>4, RunsKept
<1>9. ASSUME NEW c \in FrontCalls
      PROVE  CallStands(c)'
  <2>3. frontClock' \in Nat /\ frontClock' >= frontClock /\ frontOffset' = frontOffset
    BY <1>0, <1>1
  <2>4. ranInTime'[c] \in Nat /\ ranInTime'[c] >= ranInTime[c]
    BY <1>0, <1>1 DEF FrontTyped
  <2>5. (ranLate[c] > 0 => ranLate'[c] > 0) /\ repeated \subseteq repeated'
    BY <1>0
  <2>1. CASE frontCall'[c] = frontCall[c]
    BY <2>1, <2>3, <2>4, <2>5, AnswerKept
  <2>2. CASE frontCall'[c].answer = "unavailable" /\ frontCall'[c].sentAt = frontCall[c].sentAt
    <3>1. frontCall'[c].sentAt <= frontClock'
      BY <1>0, <2>2 DEF FrontInv, CallStands
    <3> QED
      BY <2>2, <3>1, PlainAnswer
  <2> QED
    BY <1>5, <2>1, <2>2
<1>10. ASSUME NEW q \in signed'
       PROVE  RequestStands(q)'
  <2>1. PICK r \in signed : q = [r EXCEPT !.stage = "done"] /\ q.id = r.id /\ q.call = r.call /\ q.timestamp = r.timestamp
    BY <1>4
  <2>2. RequestStands(r) /\ r.call \in FrontCalls /\ q.stage = "done"
    BY <1>1, <1>4 DEF FrontInv, SignedRows
  <2>3. ASSUME NEW p \in signed'
        PROVE  (p.id = q.id => p.call = q.call) /\ (p.call = q.call /\ q.call \notin repeated' => p = q)
    <3>1. PICK t \in signed : p = [t EXCEPT !.stage = "done"] /\ p.id = t.id /\ p.call = t.call
      BY <1>4
    <3>2. (t.id = r.id => t.call = r.call) /\ (t.call = r.call /\ r.call \notin repeated => t = r)
      BY <2>2 DEF RequestStands
    <3>3. repeated' = repeated
      BY <1>0
    <3>4. t = r => p = q
      BY <2>1, <3>1
    <3> QED
      BY <2>1, <3>1, <3>2, <3>3, <3>4
  <2>4. frontCall'[q.call].pc \in {"forwarded", "answered"} /\ frontCall'[q.call].sentAt = frontCall[r.call].sentAt
    BY <1>6, <2>1, <2>2 DEF CallsGoOn, RequestStands
  <2> QED
    BY <1>0, <2>1, <2>2, <2>3, <2>4 DEF RequestStands
<1>11. seenServiceRequests' = {}
  BY <1>2
<1> QED
  BY <1>7, <1>8, <1>9, <1>10, <1>11 DEF FrontInv, SeenStand

\* Rows that have run out are deleted, and time passes.
LEMMA TimePasses ==
  ASSUME FrontInv, deleteExpiredAssertions \/ frontTick
  PROVE  FrontInv'
<1>1. FrontTyped /\ frontClock \in Nat
  BY DEF FrontInv, FrontTyped
<1>2. UNCHANGED <<frontOffset, databaseOffset, frontCall, signed, nextRequest,
                  seenServiceRequests, ranInTime, ranLate, repeated, repeats>>
  BY DEF deleteExpiredAssertions, frontTick
<1>3. frontClock' \in Nat /\ frontClock' >= frontClock
  BY <1>1 DEF deleteExpiredAssertions, frontTick
<1>4. replayRows' \subseteq replayRows /\ \A c \in replayRows : c \in replayRows' \/ RowExpired(c)
  BY DEF deleteExpiredAssertions, frontTick
<1>5. CallsGoOn
  BY <1>1, <1>2 DEF CallsGoOn, FrontTyped
<1>6. \A c \in FrontCalls : RunStands(c)'
  BY <1>2, <1>3, <1>4, <1>5, RunsKept
<1>7. \A c \in FrontCalls : CallStands(c)'
  BY <1>1, <1>2, <1>3, AnswerKept DEF FrontTyped
<1>8. ASSUME NEW r \in signed
      PROVE  RequestStands(r)'
  <2>1. RequestStands(r) /\ r.timestamp \in Nat
    BY <1>1 DEF FrontInv, FrontTyped, SignedRows
  <2>2. r.timestamp <= frontClock'
    BY <1>1, <1>3, <2>1 DEF RequestStands
  <2> QED
    BY <1>2, <1>4, <2>1, <2>2 DEF RequestStands
<1>9. FrontTyped'
  BY <1>1, <1>2, <1>3, <1>4 DEF FrontTyped
<1> QED
  BY <1>2, <1>6, <1>7, <1>8, <1>9 DEF FrontInv, SeenStand

\* FrontInv is inductive.
LEMMA FrontStep ==
  ASSUME FrontInv, [FrontNext]_frontVars
  PROVE  FrontInv'
<1>1. CASE UNCHANGED frontVars
  <2>1. UNCHANGED <<frontClock, frontOffset, databaseOffset, frontCall, signed, nextRequest,
                    seenServiceRequests, replayRows, ranInTime, ranLate, repeated, repeats>>
    BY <1>1 DEF frontVars
  <2>2. CallsGoOn /\ frontClock \in Nat
    BY <2>1 DEF FrontInv, FrontTyped, CallsGoOn
  <2>3. \A c \in FrontCalls : CallStands(c)'
    BY <2>1, <2>2, AnswerKept DEF FrontInv, FrontTyped
  <2> QED
    BY <2>1, <2>2, <2>3, CallsOnly
<1>2. CASE FrontNext
  BY <1>2, FrontCallsOrGivesUp, Forwards, CallRepeats, SignedRepeats, Authenticates, Verifies, Claims,
     Dispatches, Restarts, TimePasses DEF FrontNext
<1> QED
  BY <1>1, <1>2

\* A row that was taken late belongs to an assertion that has run out.
LateInv ==
  /\ \A c \in FrontCalls : ranLate[c] > 0 => frontCall[c].pc # "idle" /\ RowExpired(c)
  /\ \A r \in signed : r.stage = "claimed" /\ r.late => RowExpired(r.call)

\* A call that was sent keeps its assertion, whatever happens.
LEMMA AssertionsStay ==
  ASSUME FrontInv, [FrontNext]_frontVars
  PROVE  /\ frontClock' >= frontClock /\ frontClock' \in Nat /\ UNCHANGED <<frontOffset, databaseOffset>>
         /\ \A c \in FrontCalls : frontCall[c].pc # "idle" =>
              frontCall'[c].sentAt = frontCall[c].sentAt /\ frontCall'[c].pc # "idle"
<1>1. FrontTyped /\ frontClock \in Nat /\ frontCall \in [FrontCalls -> CallRows]
  BY DEF FrontInv, FrontTyped
<1>2. CASE frontCall' = frontCall /\ frontClock' = frontClock /\ UNCHANGED <<frontOffset, databaseOffset>>
  BY <1>1, <1>2
<1>3. ASSUME NEW c \in FrontCalls, requestEngineAction(c) \/ proxyToEngine(c) \/ giveUp(c)
      PROVE  /\ UNCHANGED <<frontClock, frontOffset, databaseOffset>>
             /\ \A d \in FrontCalls : frontCall[d].pc # "idle" =>
                  frontCall'[d].sentAt = frontCall[d].sentAt /\ frontCall'[d].pc # "idle"
  <2>1. UNCHANGED <<frontClock, frontOffset, databaseOffset>>
    BY <1>3 DEF requestEngineAction, proxyToEngine, giveUp
  <2>2. CASE requestEngineAction(c)
    BY <1>1, <2>2 DEF requestEngineAction
  <2>3. ASSUME NEW answer \in Answers, frontCall' = Answered(c, answer)
        PROVE  \A d \in FrontCalls : frontCall[d].pc # "idle" =>
                 frontCall'[d].sentAt = frontCall[d].sentAt /\ frontCall'[d].pc # "idle"
    <3>1. PICK new : new = [frontCall[c] EXCEPT !.pc = "answered", !.answer = answer]
      OBVIOUS
    <3>2. new.sentAt = frontCall[c].sentAt /\ new.pc = "answered" /\ frontCall' = [frontCall EXCEPT ![c] = new]
      BY <1>1, <2>3, <3>1 DEF Answered, CallRows
    <3> QED
      BY <1>1, <3>2
  <2>4. ASSUME frontCall' = [frontCall EXCEPT ![c].pc = "forwarded"]
        PROVE  \A d \in FrontCalls : frontCall[d].pc # "idle" =>
                 frontCall'[d].sentAt = frontCall[d].sentAt /\ frontCall'[d].pc # "idle"
    <3>1. PICK new : new = [frontCall[c] EXCEPT !.pc = "forwarded"]
      OBVIOUS
    <3>2. new.sentAt = frontCall[c].sentAt /\ new.pc = "forwarded" /\ frontCall' = [frontCall EXCEPT ![c] = new]
      BY <1>1, <2>4, <3>1 DEF CallRows
    <3> QED
      BY <1>1, <3>2
  <2> QED
    BY <1>3, <2>1, <2>2, <2>3, <2>4 DEF proxyToEngine, giveUp, Answers
<1>4. ASSUME NEW r \in signed, authenticateServiceRequest(r) \/ verifyAssertion(r) \/ verifyActor(r) \/ dispatchEvidence(r)
      PROVE  UNCHANGED <<frontClock, frontOffset, databaseOffset>> /\ (CallsGoOn \/ frontCall' = frontCall)
  <2>1. UNCHANGED <<frontClock, frontOffset, databaseOffset>>
    BY <1>4 DEF authenticateServiceRequest, verifyAssertion, verifyActor, dispatchEvidence
  <2>2. frontCall' = frontCall \/ \E answer \in Answers : Reply(r, answer)
    BY <1>4 DEF authenticateServiceRequest, verifyAssertion, verifyActor, dispatchEvidence, Answers
  <2> QED
    BY <2>1, <2>2, Replies
<1>5. CASE restartEngine
  <2>1. frontCall' = [c \in FrontCalls |->
           IF frontCall[c].pc = "forwarded"
           THEN [frontCall[c] EXCEPT !.pc = "answered", !.answer = "unavailable"] ELSE frontCall[c]]
    BY <1>5 DEF restartEngine
  <2>2. ASSUME NEW c \in FrontCalls, frontCall[c].pc # "idle"
        PROVE  frontCall'[c].sentAt = frontCall[c].sentAt /\ frontCall'[c].pc # "idle"
    <3>1. PICK new : new = [frontCall[c] EXCEPT !.pc = "answered", !.answer = "unavailable"]
      OBVIOUS
    <3>2. new.sentAt = frontCall[c].sentAt /\ new.pc = "answered"
      BY <1>1, <3>1 DEF CallRows
    <3>3. frontCall'[c] = new \/ frontCall'[c] = frontCall[c]
      BY <2>1, <3>1
    <3> QED
      BY <2>2, <3>2, <3>3
  <2>3. UNCHANGED <<frontClock, frontOffset, databaseOffset>>
    BY <1>5 DEF restartEngine
  <2> QED
    BY <1>1, <2>2, <2>3
<1>6. CASE frontTick
  BY <1>1, <1>6 DEF frontTick
<1>7. CASE deleteExpiredAssertions \/ (\E c \in FrontCalls : repeatCall(c)) \/ \E r \in signed : repeatSigned(r)
  BY <1>2, <1>7 DEF deleteExpiredAssertions, repeatCall, repeatSigned
<1>8. CASE UNCHANGED frontVars
  BY <1>2, <1>8 DEF frontVars
<1> QED
  BY <1>1, <1>3, <1>4, <1>5, <1>6, <1>7, <1>8 DEF FrontNext, CallsGoOn

\* Only a row that has run out is taken late, and only on such a row a command runs late.
LEMMA LateStep ==
  ASSUME FrontInv, LateInv, [FrontNext]_frontVars
  PROVE  LateInv'
<1>1. FrontTyped /\ AssertionLife \in Nat
  BY FrontAssumption DEF FrontInv
<1>2. ASSUME NEW c \in FrontCalls, RowExpired(c), frontCall[c].pc # "idle"
      PROVE  RowExpired(c)' /\ frontCall'[c].pc # "idle"
  <2>1. /\ frontCall'[c].sentAt = frontCall[c].sentAt /\ frontCall'[c].pc # "idle"
        /\ frontClock' >= frontClock /\ frontClock' \in Nat /\ UNCHANGED <<frontOffset, databaseOffset>>
    BY <1>2, AssertionsStay
  <2>2. frontClock \in Nat /\ frontOffset \in Int /\ databaseOffset \in Int /\ frontCall[c].sentAt \in Nat
    BY <1>1 DEF FrontTyped, CallRows
  <2> QED
    BY <1>1, <1>2, <2>1, <2>2 DEF RowExpired, ExpiresAt, IssuedAt
<1>3. \A r \in signed : r.call \in FrontCalls /\ frontCall[r.call].pc # "idle"
  BY <1>1 DEF FrontInv, RequestStands, FrontTyped, SignedRows
<1>4. ASSUME NEW c \in FrontCalls, ranLate'[c] > 0
      PROVE  frontCall'[c].pc # "idle" /\ RowExpired(c)'
  <2>1. CASE ranLate'[c] = ranLate[c]
    BY <1>2, <1>4, <2>1 DEF LateInv
  <2>2. CASE ranLate'[c] # ranLate[c]
    <3>1. PICK r \in signed : dispatchEvidence(r)
      BY <2>2 DEF FrontNext, frontVars, requestEngineAction, proxyToEngine, repeatCall, giveUp, repeatSigned,
         authenticateServiceRequest, verifyAssertion, verifyActor, restartEngine, deleteExpiredAssertions, frontTick
    <3>2. r.stage = "claimed" /\ r.late /\ ranLate' = [ranLate EXCEPT ![r.call] = @ + 1]
      BY <2>2, <3>1 DEF dispatchEvidence
    <3>3. c = r.call
      BY <1>1, <2>2, <3>2 DEF FrontTyped
    <3> QED
      BY <1>2, <1>3, <3>2, <3>3 DEF LateInv
  <2> QED
    BY <2>1, <2>2
<1>5. ASSUME NEW q \in signed', q.stage = "claimed", q.late
      PROVE  RowExpired(q.call)'
  <2>1. q \in signed \/ \E r \in signed : q.call = r.call /\ RowExpired(r.call)
    <3>1. ASSUME NEW c \in FrontCalls, NEW waits \in BOOLEAN, q = SignedNow(c, waits)
          PROVE  FALSE
      BY <1>5, <3>1 DEF SignedNow
    <3>2. ASSUME NEW r \in signed, NEW stage \in {"admitted", "verified", "done"}, q = [r EXCEPT !.stage = stage]
          PROVE  FALSE
      BY <1>1, <1>5, <3>2 DEF FrontTyped, SignedRows
    <3>3. ASSUME NEW r \in signed, q = [r EXCEPT !.stage = "claimed", !.late = RowExpired(r.call)]
          PROVE  q.call = r.call /\ RowExpired(r.call)
      BY <1>1, <1>5, <3>3 DEF FrontTyped, SignedRows
    <3>4. ASSUME NEW r \in signed, repeatSigned(r)
          PROVE  q \in signed
      BY <1>1, <1>5, <3>4 DEF repeatSigned, FrontTyped, SignedRows
    <3>5. ASSUME NEW r \in signed, authenticateServiceRequest(r) \/ verifyAssertion(r) \/ dispatchEvidence(r)
          PROVE  q \in signed
      BY <3>2, <3>5 DEF authenticateServiceRequest, verifyAssertion, dispatchEvidence, Moved
    <3>6. ASSUME NEW r \in signed, verifyActor(r)
          PROVE  q \in signed \/ (q.call = r.call /\ RowExpired(r.call))
      BY <3>2, <3>3, <3>6 DEF verifyActor, Moved
    <3>7. ASSUME NEW c \in FrontCalls, requestEngineAction(c) \/ proxyToEngine(c) \/ repeatCall(c) \/ giveUp(c)
          PROVE  q \in signed
      BY <3>1, <3>7 DEF requestEngineAction, proxyToEngine, repeatCall, giveUp
    <3>8. CASE restartEngine
      BY <3>2, <3>8 DEF restartEngine
    <3>9. CASE deleteExpiredAssertions \/ frontTick \/ UNCHANGED frontVars
      BY <3>9 DEF deleteExpiredAssertions, frontTick, frontVars
    <3> QED
      BY <3>4, <3>5, <3>6, <3>7, <3>8, <3>9 DEF FrontNext
  <2> QED
    BY <1>2, <1>3, <1>5, <2>1 DEF LateInv
<1> QED
  BY <1>4, <1>5 DEF LateInv

\* A command runs once on an assertion until the database holds it to be run out, "ok" is true, and
\* nobody is turned away by mistake, for any number of calls, repetitions and restarts and any
\* clocks; and the rate limits are kept.
THEOREM FrontIsSound == FrontSpec /\ RateSpec => []FrontSound
<1>1. FrontInv /\ LateInv => CommandOnce /\ AnswersTrue /\ FreshCallsPass
  <2> SUFFICES ASSUME FrontInv, LateInv PROVE CommandOnce /\ AnswersTrue /\ FreshCallsPass
    OBVIOUS
  <2>1. ASSUME NEW c \in FrontCalls
        PROVE  /\ ranInTime[c] <= 1 /\ (Runs(c) > 1 => RowExpired(c))
               /\ frontCall[c].answer = "ok" => Runs(c) > 0
    <3>1. ranInTime[c] \in Nat /\ ranLate[c] \in Nat
      BY DEF FrontInv, FrontTyped
    <3>2. ranInTime[c] <= 1 /\ (frontCall[c].answer = "ok" => ranInTime[c] > 0 \/ ranLate[c] > 0)
      BY DEF FrontInv, RunStands, CallStands
    <3>3. ranLate[c] > 0 => RowExpired(c)
      BY DEF LateInv
    <3> QED
      BY <3>1, <3>2, <3>3 DEF Runs
  <2>2. FreshCallsPass
    BY DEF FrontInv, CallStands, FreshCallsPass
  <2> QED
    BY <2>1, <2>2 DEF CommandOnce, AnswersTrue
<1>4. FrontInit => LateInv
  BY DEF FrontInit, LateInv
<1>2. FrontSpec => [](FrontInv /\ LateInv)
  BY <1>4, InitFront, FrontStep, LateStep, PTL DEF FrontSpec
<1>3. CommandOnce /\ AnswersTrue /\ FreshCallsPass /\ RatesKept => FrontSound
  BY DEF FrontSound
<1> QED
  BY <1>1, <1>2, <1>3, RatesAreKept, PTL

-----------------------------------------------------------------------------
(* ParticipantAccess.                                                      *)

Modes == {"indefinite", "request_expiration", "days_after_terminal"}

AccessTyped ==
  /\ day \in Nat /\ day <= MaxTime /\ MaxTime \in Nat /\ MaxTime >= 2
  /\ status \in {"issued", "completed", "revoked", "expired"}
  /\ activityStatus \in {"pending", "available", "completed", "skipped"}
  /\ terms.scheduledFor \in Nat /\ terms.expiresAt \in Nat /\ terms.expiresAt <= MaxTime
  /\ terms.postCompletion \in Policies /\ terms.retention \in Retentions
  /\ lifecycle \in [contentActive : BOOLEAN, historyActive : BOOLEAN, contentExpiresAt : Nat, historyExpiresAt : Nat]
  /\ review \in [Organizations -> {"pending"} \cup Decisions]

\* The terms of a deadline that was shown for the content of the completed request still hold.
EntryStands(entry) ==
  /\ entry.access.deadline \in Nat
  /\ entry.completed /\ entry.access.available =>
       /\ status = "completed"
       /\ terms.postCompletion # "receipt_only"
       /\ terms.postCompletion = "content_until_expiration" => entry.access.deadline <= terms.expiresAt
       /\ entry.access.deadline <= lifecycle.contentExpiresAt
       /\ lifecycle.contentActive \/ lifecycle.contentExpiresAt <= day

\* An export was built when every review was in, and outlives neither its delivery nor its request.
ExportStands(e) ==
  /\ e.createdAt \in Nat
  /\ e.expiresAt \in Nat /\ e.expiresAt <= ReviewDays /\ e.expiresAt <= e.createdAt + DeliveryDays
  /\ \A o \in Organizations : review[o] # "pending"
  /\ \A part \in e.parts :
       /\ part.organization \in Approved /\ part.actor = "participant"
       /\ part.field \notin Excluded
       /\ part.field \in Technical => review[part.organization] = "approved_with_telemetry"

AccessInv ==
  /\ AccessTyped
  /\ \A entry \in shown : EntryStands(entry)
  /\ \A e \in delivery : ExportStands(e)
  /\ \A s \in served : s.at < ReviewDays /\ \E e \in delivery : s.at < e.createdAt + DeliveryDays

\* The constants are numbers.
LEMMA AccessConstants ==
  /\ MaxTime \in Nat /\ DeliveryDays \in Nat /\ ReviewDays \in Nat
  /\ Never \in Nat
  /\ MaxTime >= 2 => MaxTime < Never
  /\ \A r \in Retentions : r.mode \in Modes /\ r.days \in Nat /\ r.historyDays \in Nat
<1>1. MaxTime \in Nat /\ DeliveryDays \in Nat /\ ReviewDays \in Nat
  BY AccessAssumption, Zenon
<1>2. \A r \in Retentions : r.mode \in Modes /\ r.days \in Nat /\ r.historyDays \in Nat
  BY AccessAssumption DEF Modes
<1> QED
  BY <1>1, <1>2 DEF Never

\* Deadlines are numbers.
LEMMA DatesAreDays ==
  ASSUME NEW r \in Retentions, NEW e \in Nat, NEW t \in Nat
  PROVE  /\ calculateRetentionDeadlines(r, e, t).contentExpiresAt \in Nat
         /\ calculateRetentionDeadlines(r, e, t).historyExpiresAt \in Nat
<1>1. r.mode \in Modes /\ r.days \in Nat /\ r.historyDays \in Nat /\ Never \in Nat
  BY AccessConstants
<1> QED
  BY <1>1 DEF calculateRetentionDeadlines, Modes

\* The shorter of two deadlines.
LEMMA ShorterOfTwo ==
  ASSUME NEW a \in Nat, NEW b \in Nat
  PROVE  Min({a, b}) \in Nat /\ Min({a, b}) <= a /\ Min({a, b}) <= b
<1>1. \E x \in {a, b} : \A y \in {a, b} : x <= y
  <2>1. CASE a <= b
    BY <2>1
  <2>2. CASE ~(a <= b)
    BY <2>2
  <2> QED
    BY <2>1, <2>2
<1>2. Min({a, b}) \in {a, b} /\ \A y \in {a, b} : Min({a, b}) <= y
  BY <1>1 DEF Min
<1> QED
  BY <1>2

\* The page and the document routes agree in every state of the record.
LEMMA PageAgrees ==
  ASSUME AccessTyped
  PROVE  HistoryHonest
<1>1. /\ day \in Nat /\ terms.expiresAt \in Nat /\ terms.scheduledFor \in Nat /\ lifecycle.contentExpiresAt \in Nat
      /\ Never \in Nat /\ day < Never /\ status \in {"issued", "completed", "revoked", "expired"}
      /\ activityStatus \in {"pending", "available", "completed", "skipped"}
      /\ terms.postCompletion \in Policies
  BY AccessConstants DEF AccessTyped
<1>2. CASE status = "completed"
  <2>1. CASE terms.postCompletion = "content_until_expiration"
    BY <1>1, <1>2, <2>1 DEF HistoryHonest, DocumentOpens, assertLifecycleContentAvailable,
       assertParticipantContentAccess, participantHistoryContentAccess, Earliest
  <2>2. CASE terms.postCompletion # "content_until_expiration"
    BY <1>1, <1>2, <2>2 DEF HistoryHonest, DocumentOpens, assertLifecycleContentAvailable,
       assertParticipantContentAccess, participantHistoryContentAccess, Earliest, Policies
  <2> QED
    BY <2>1, <2>2
<1>3. CASE status # "completed"
  BY <1>1, <1>3 DEF HistoryHonest, DocumentOpens, assertLifecycleContentAvailable, assertAssignmentAvailable,
     assertParticipantContentAccess, participantHistoryContentAccess, Earliest
<1> QED
  BY <1>2, <1>3

\* A deadline that stands is kept.
LEMMA DeadlineStands ==
  ASSUME AccessTyped, NEW entry \in shown, EntryStands(entry), entry.completed, entry.access.available,
         day < entry.access.deadline
  PROVE  DocumentOpens
BY DEF AccessTyped, EntryStands, DocumentOpens, assertLifecycleContentAvailable,
       assertParticipantContentAccess, Policies

\* A request is issued with deadlines in days, and nothing was shown or exported yet.
LEMMA InitAccess ==
  ASSUME AccessInit
  PROVE  AccessInv
<1>1. PICK scheduled \in 0..1, expires \in 2..MaxTime, policy \in Policies, r \in Retentions :
         /\ terms = [scheduledFor |-> scheduled, expiresAt |-> expires,
                     postCompletion |-> policy, retention |-> r]
         /\ lifecycle = [contentActive |-> TRUE, historyActive |-> TRUE,
                         contentExpiresAt |-> calculateRetentionDeadlines(r, expires, expires).contentExpiresAt,
                         historyExpiresAt |-> calculateRetentionDeadlines(r, expires, expires).historyExpiresAt]
  BY DEF AccessInit
<1>2. /\ MaxTime \in Nat /\ expires \in Nat /\ expires <= MaxTime /\ scheduled \in Nat /\ MaxTime >= 2
  BY AccessConstants
<1>3. lifecycle \in [contentActive : BOOLEAN, historyActive : BOOLEAN, contentExpiresAt : Nat, historyExpiresAt : Nat]
  BY <1>1, <1>2, DatesAreDays
<1>4. /\ terms.scheduledFor = scheduled /\ terms.expiresAt = expires /\ terms.postCompletion = policy
      /\ terms.retention = r
  BY <1>1
<1>5. /\ day = 0 /\ status = "issued" /\ activityStatus \in {"available", "pending"} /\ shown = {} /\ delivery = {} /\ served = {}
      /\ review = [o \in Organizations |-> "pending"]
  BY DEF AccessInit
<1> QED
  BY <1>2, <1>3, <1>4, <1>5 DEF AccessInv, AccessTyped

\* Steps that leave the record and its export alone, but for the clock and the page.
LEMMA RecordKept ==
  ASSUME AccessInv, UNCHANGED <<recordVars, review, delivery, served>>, day' \in Nat, day <= day', day' <= MaxTime,
         \A entry \in shown' : entry \in shown \/ EntryStands(entry)
  PROVE  AccessInv'
<1>1. AccessTyped /\ UNCHANGED <<status, activityStatus, terms, lifecycle>> /\ UNCHANGED <<review, delivery, served>>
  BY DEF AccessInv, recordVars
<1>2. AccessTyped'
  BY <1>1 DEF AccessTyped
<1>3. ASSUME NEW entry \in shown'
      PROVE  EntryStands(entry)'
  <2>1. EntryStands(entry)
    BY DEF AccessInv
  <2>2. day \in Nat /\ lifecycle.contentExpiresAt \in Nat
    BY <1>1 DEF AccessTyped
  <2> QED
    BY <1>1, <2>1, <2>2 DEF EntryStands
<1>4. ASSUME NEW e \in delivery'
      PROVE  ExportStands(e)'
  BY <1>1 DEF AccessInv, ExportStands, Approved
<1> QED
  BY <1>1, <1>2, <1>3, <1>4 DEF AccessInv

\* Steps of the record: a deadline that was shown for the completed request is not touched.
LEMMA RecordSteps ==
  ASSUME AccessInv, respondToWorkflowActivity \/ complete \/ close \/ expireContent \/ expireHistoryOf
  PROVE  AccessInv'
<1>1. AccessTyped /\ UNCHANGED <<day, terms, shown, review, delivery, served>>
  BY DEF AccessInv, respondToWorkflowActivity, complete, close, expireContent, expireHistoryOf, pageVars, exportVars
<1>2. /\ day \in Nat /\ terms.expiresAt \in Nat /\ terms.retention \in Retentions
      /\ activityStatus \in {"pending", "available", "completed", "skipped"}
      /\ lifecycle \in [contentActive : BOOLEAN, historyActive : BOOLEAN, contentExpiresAt : Nat, historyExpiresAt : Nat]
  BY <1>1 DEF AccessTyped
<1>3. /\ status' \in {"issued", "completed", "revoked", "expired"}
      /\ activityStatus' \in {"pending", "available", "completed", "skipped"}
      /\ lifecycle' \in [contentActive : BOOLEAN, historyActive : BOOLEAN, contentExpiresAt : Nat, historyExpiresAt : Nat]
      /\ status = "completed" =>
           /\ status' = "completed" /\ lifecycle'.contentExpiresAt = lifecycle.contentExpiresAt
           /\ lifecycle'.contentActive = lifecycle.contentActive \/ lifecycle.contentExpiresAt <= day
  <2>1. CASE complete
    <3>1. PICK before \in Nat :
            lifecycle' = [lifecycle EXCEPT
              !.contentExpiresAt = calculateRetentionDeadlines(terms.retention, before, day).contentExpiresAt,
              !.historyExpiresAt = calculateRetentionDeadlines(terms.retention, before, day).historyExpiresAt]
      BY <1>2, <2>1 DEF complete
    <3>2. /\ calculateRetentionDeadlines(terms.retention, before, day).contentExpiresAt \in Nat
          /\ calculateRetentionDeadlines(terms.retention, before, day).historyExpiresAt \in Nat
      BY <1>2, DatesAreDays
    <3>3. lifecycle' \in [contentActive : BOOLEAN, historyActive : BOOLEAN, contentExpiresAt : Nat, historyExpiresAt : Nat]
      BY <1>2, <3>1, <3>2
    <3> QED
      BY <1>2, <2>1, <3>3 DEF complete
  <2>2. CASE close
    BY <1>2, <2>2 DEF close
  <2>3. CASE expireContent
    BY <1>1, <1>2, <2>3 DEF expireContent, dueContent, AccessTyped
  <2>4. CASE expireHistoryOf
    BY <1>1, <1>2, <2>4 DEF expireHistoryOf, AccessTyped
  <2>5. CASE respondToWorkflowActivity
    BY <1>2, <2>5 DEF respondToWorkflowActivity
  <2> QED
    BY <2>1, <2>2, <2>3, <2>4, <2>5
<1>4. AccessTyped'
  BY <1>1, <1>3 DEF AccessTyped
<1>5. ASSUME NEW entry \in shown'
      PROVE  EntryStands(entry)'
  <2>1. EntryStands(entry)
    BY <1>1 DEF AccessInv
  <2> QED
    BY <1>1, <1>3, <2>1 DEF EntryStands
<1>6. ASSUME NEW e \in delivery'
      PROVE  ExportStands(e)'
  BY <1>1 DEF AccessInv, ExportStands, Approved
<1> QED
  BY <1>1, <1>4, <1>5, <1>6 DEF AccessInv

\* What the page shows stands.
LEMMA PageShows ==
  ASSUME AccessInv, listParticipantHistory
  PROVE  AccessInv'
<1>1. AccessTyped /\ UNCHANGED <<recordVars, review, delivery, served>> /\ day' = day
  BY DEF AccessInv, listParticipantHistory, exportVars
<1>2. /\ day \in Nat /\ day <= MaxTime /\ terms.expiresAt \in Nat /\ lifecycle.contentExpiresAt \in Nat
      /\ Never \in Nat /\ terms.postCompletion \in Policies
  BY <1>1, AccessConstants DEF AccessTyped
<1>3. ASSUME NEW entry \in shown'
      PROVE  EntryStands(entry)
  <2>1. entry = participantHistoryProjection
    BY DEF listParticipantHistory
  <2>2. /\ entry.completed <=> status = "completed"
        /\ entry.access = participantHistoryContentAccess
    BY <2>1 DEF participantHistoryProjection
  <2>3. participantHistoryContentAccess.deadline \in Nat
    BY <1>2 DEF participantHistoryContentAccess, Earliest
  <2>4. ASSUME status = "completed", participantHistoryContentAccess.available
        PROVE  /\ terms.postCompletion # "receipt_only" /\ lifecycle.contentActive
               /\ participantHistoryContentAccess.deadline <= lifecycle.contentExpiresAt
               /\ terms.postCompletion = "content_until_expiration" =>
                    participantHistoryContentAccess.deadline <= terms.expiresAt
    BY <1>2, <2>4 DEF participantHistoryContentAccess, Earliest
  <2> QED
    BY <2>2, <2>3, <2>4 DEF EntryStands
<1> QED
  BY <1>1, <1>2, <1>3, RecordKept

\* A review, before the export is built.
LEMMA Reviews ==
  ASSUME AccessInv, NEW o \in Organizations, NEW d \in Decisions, reviewScope(o, d)
  PROVE  AccessInv'
<1>1. /\ AccessTyped /\ UNCHANGED <<day, shown, delivery, served>> /\ UNCHANGED <<status, activityStatus, terms, lifecycle>>
      /\ review[o] = "pending" /\ review' = [review EXCEPT ![o] = d]
  BY DEF AccessInv, reviewScope, recordVars, pageVars
<1>2. delivery = {}
  BY <1>1 DEF AccessInv, ExportStands
<1>3. AccessTyped'
  BY <1>1 DEF AccessTyped
<1>4. ASSUME NEW entry \in shown'
      PROVE  EntryStands(entry)'
  BY <1>1 DEF AccessInv, EntryStands
<1> QED
  BY <1>1, <1>2, <1>3, <1>4 DEF AccessInv

\* The worker builds the export out of what was approved.
LEMMA Prepares ==
  ASSUME AccessInv, prepareExport
  PROVE  AccessInv'
<1>1. /\ AccessTyped /\ UNCHANGED <<day, shown, review, served>> /\ UNCHANGED <<status, activityStatus, terms, lifecycle>>
      /\ \A o \in Organizations : review[o] # "pending"
  BY DEF AccessInv, prepareExport, recordVars, pageVars
<1>2. AccessTyped'
  BY <1>1 DEF AccessTyped
<1>3. ASSUME NEW entry \in shown'
      PROVE  EntryStands(entry)'
  BY <1>1 DEF AccessInv, EntryStands
<1>4. ASSUME NEW part \in buildParticipantDataExport
      PROVE  /\ part.organization \in Approved /\ part.actor = "participant"
             /\ part.field \notin Excluded
             /\ part.field \in Technical => review[part.organization] = "approved_with_telemetry"
  <2>1. PICK o \in Approved : part \in loadParticipantDataRecord(o, review[o] = "approved_with_telemetry")
    BY DEF buildParticipantDataExport
  <2>6. PICK a \in Sources : part \in {[organization |-> o, actor |-> a, field |-> f] :
                                      f \in participantDataEvent(a, review[o] = "approved_with_telemetry")}
    BY <2>1 DEF loadParticipantDataRecord
  <2>2. PICK f \in participantDataEvent(a, review[o] = "approved_with_telemetry") :
          part = [organization |-> o, actor |-> a, field |-> f]
    BY <2>6
  <2>3. part.organization = o /\ part.actor = a /\ part.field = f
    BY <2>2
  <2>4. a = "participant" /\ f \in sanitizeParticipantValue(Fields, review[o] = "approved_with_telemetry")
    BY <2>2 DEF participantDataEvent
  <2>5. f \notin Excluded /\ (f \in Technical => review[o] = "approved_with_telemetry")
    BY <2>4 DEF sanitizeParticipantValue
  <2> QED
    BY <2>1, <2>3, <2>4, <2>5
<1>5. ASSUME NEW e \in delivery'
      PROVE  ExportStands(e)'
  <2>1. e = [parts |-> buildParticipantDataExport, deleted |-> FALSE, createdAt |-> day,
             expiresAt |-> Min({day + DeliveryDays, ReviewDays})]
    BY DEF prepareExport, persistParticipantDataExport
  <2>2. e.parts = buildParticipantDataExport /\ e.createdAt = day /\ e.expiresAt = Min({day + DeliveryDays, ReviewDays})
    BY <2>1
  <2>3. day \in Nat /\ day + DeliveryDays \in Nat /\ ReviewDays \in Nat
    BY <1>1, AccessConstants DEF AccessTyped
  <2>4. e.expiresAt \in Nat /\ e.expiresAt <= ReviewDays /\ e.expiresAt <= day + DeliveryDays
    BY <2>2, <2>3, ShorterOfTwo
  <2>5. ExportStands(e)
    BY <1>1, <1>4, <2>2, <2>3, <2>4 DEF ExportStands
  <2> QED
    BY <1>1, <2>5 DEF ExportStands, Approved
<1>6. served = {}
  BY DEF AccessInv, prepareExport
<1> QED
  BY <1>1, <1>2, <1>3, <1>5, <1>6 DEF AccessInv

\* A chunk is served before the deadline of the export, and so while its request lives.
LEMMA Serves ==
  ASSUME AccessInv, readParticipantDataExportChunk
  PROVE  AccessInv'
<1>1. /\ AccessTyped /\ UNCHANGED <<day, shown, review, delivery>> /\ UNCHANGED <<status, activityStatus, terms, lifecycle>>
  BY DEF AccessInv, readParticipantDataExportChunk, recordVars, pageVars
<1>2. AccessTyped'
  BY <1>1 DEF AccessTyped
<1>3. ASSUME NEW entry \in shown'
      PROVE  EntryStands(entry)'
  BY <1>1 DEF AccessInv, EntryStands
<1>4. ASSUME NEW e \in delivery'
      PROVE  ExportStands(e)'
  BY <1>1 DEF AccessInv, ExportStands, Approved
<1>5. ASSUME NEW s \in served'
      PROVE  s.at < ReviewDays /\ \E e \in delivery : s.at < e.createdAt + DeliveryDays
  <2>1. CASE s \in served
    BY <2>1 DEF AccessInv
  <2>2. CASE s \notin served
    <3>1. s = [sequence |-> download.got, at |-> day] /\ \E e \in delivery : participantDataExport(e)
      BY <2>2 DEF readParticipantDataExportChunk
    <3>2. PICK e \in delivery : day < e.expiresAt
      BY <3>1 DEF participantDataExport
    <3>3. /\ e.expiresAt \in Nat /\ e.expiresAt <= ReviewDays /\ day \in Nat /\ ReviewDays \in Nat
          /\ e.createdAt \in Nat /\ e.expiresAt <= e.createdAt + DeliveryDays /\ DeliveryDays \in Nat
      BY <1>1, AccessConstants DEF AccessInv, ExportStands, AccessTyped
    <3> QED
      BY <3>1, <3>2, <3>3
  <2> QED
    BY <2>1, <2>2
<1> QED
  BY <1>1, <1>2, <1>3, <1>4, <1>5 DEF AccessInv

\* At its deadline the export loses its parts and keeps its dates.
LEMMA Expires ==
  ASSUME AccessInv, expireExport
  PROVE  AccessInv'
<1>1. /\ AccessTyped /\ UNCHANGED <<day, shown, review, served>> /\ UNCHANGED <<status, activityStatus, terms, lifecycle>>
  BY DEF AccessInv, expireExport, recordVars, pageVars
<1>2. AccessTyped'
  BY <1>1 DEF AccessTyped
<1>3. ASSUME NEW entry \in shown'
      PROVE  EntryStands(entry)'
  BY <1>1 DEF AccessInv, EntryStands
<1>4. ASSUME NEW n \in delivery'
      PROVE  ExportStands(n)'
  <2>1. PICK e \in delivery : n = [e EXCEPT !.deleted = TRUE, !.parts = {}]
    BY DEF expireExport
  <2>2. ExportStands(e) /\ n.expiresAt = e.expiresAt /\ n.createdAt = e.createdAt
    BY <2>1 DEF AccessInv, ExportStands
  <2>3. n.parts = {}
    BY <2>1
  <2> QED
    BY <1>1, <2>2, <2>3 DEF ExportStands, Approved
<1>5. ASSUME NEW s \in served'
      PROVE  s.at < ReviewDays /\ \E n \in delivery' : s.at < n.createdAt + DeliveryDays
  <2>1. PICK e \in delivery : s.at < ReviewDays /\ s.at < e.createdAt + DeliveryDays
    BY <1>1 DEF AccessInv
  <2>2. [e EXCEPT !.deleted = TRUE, !.parts = {}] \in delivery'
    BY DEF expireExport
  <2>3. [e EXCEPT !.deleted = TRUE, !.parts = {}].createdAt = e.createdAt
    OBVIOUS
  <2> QED
    BY <1>1, <2>1, <2>2, <2>3
<1> QED
  BY <1>1, <1>2, <1>3, <1>4, <1>5 DEF AccessInv

\* AccessInv is inductive.
LEMMA AccessStep ==
  ASSUME AccessInv, [AccessNext]_accessVars
  PROVE  AccessInv'
<1>1. day \in Nat /\ day <= MaxTime /\ MaxTime \in Nat
  BY DEF AccessInv, AccessTyped
<1>2. CASE UNCHANGED accessVars
  <2>1. UNCHANGED <<recordVars, review, delivery, served>> /\ day' = day /\ shown' = shown
    BY <1>2 DEF accessVars, pageVars, exportVars
  <2> QED
    BY <1>1, <2>1, RecordKept
<1>3. CASE tickDay
  <2>1. /\ UNCHANGED <<recordVars, review, delivery, served>> /\ shown' = shown
        /\ day' \in Nat /\ day <= day' /\ day' <= MaxTime
    BY <1>1, <1>3 DEF tickDay, pageVars, exportVars
  <2> QED
    BY <2>1, RecordKept
<1>4. CASE participantReceipt \/ openParticipantArtifact \/ readParticipantArtifactChunk \/ openParticipantDataExport
  <2>1. UNCHANGED <<recordVars, review, delivery, served>> /\ day' = day /\ shown' = shown
    BY <1>4 DEF participantReceipt, openParticipantArtifact, readParticipantArtifactChunk,
       openParticipantDataExport, pageVars, exportVars
  <2> QED
    BY <1>1, <2>1, RecordKept
<1> QED
  BY <1>2, <1>3, <1>4, RecordSteps, PageShows, Reviews, Prepares, Serves, Expires
     DEF AccessNext, RecordPage, DataExport

\* What the participant is told and given of a request is honest, for any retention policies,
\* organizations and windows: the page agrees with the document routes, a deadline it has shown is
\* kept, and the export holds what was approved and is served no longer than it may be.
THEOREM AccessIsHonest == AccessSpec => []AccessHonest
<1>1. ASSUME AccessInv PROVE AccessHonest
  <2>1. HistoryHonest
    BY <1>1, PageAgrees DEF AccessInv
  <2>2. DeadlineKept
    BY <1>1, DeadlineStands DEF AccessInv, DeadlineKept
  <2>3. DeliveredAsApproved
    BY <1>1 DEF AccessInv, ExportStands, DeliveredAsApproved
  <2> QED
    BY <2>1, <2>2, <2>3 DEF AccessHonest
<1> QED
  BY <1>1, InitAccess, AccessStep, PTL DEF AccessSpec
=============================================================================
