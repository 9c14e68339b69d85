------------------------------ MODULE SearchBox ------------------------------
(***************************************************************************)
(* The search page (SearchPage.tsx): a debounce, and a number for each     *)
(* request so that only the answer to the last one counts.                 *)
(***************************************************************************)
EXTENDS Naturals, Sequences

CONSTANTS Queries,   \* queries that are not blank
          MaxTyped,  \* bound: changes of the query in a visit
          Blank      \* a query of spaces, or none

VARIABLES searchQuery,   \* query, trimmed
          searchShown,   \* the query whose results are shown; Blank: none are
          searchLoading, searchError,
          searchTimer,   \* debounceRef: the query it will send, Blank when it is not set
          searchCalls,   \* requests in the order of their numbers: query, step
          searchTyped

searchVars == <<searchQuery, searchShown, searchLoading, searchError, searchTimer, searchCalls,
                searchTyped>>

Init == /\ searchQuery = Blank /\ searchShown = Blank /\ searchTimer = Blank
        /\ searchLoading = FALSE /\ searchError = FALSE /\ searchCalls = << >> /\ searchTyped = 0

(* requestId.current *)
LastRequest == Len(searchCalls)

(* Mutant: emptying the field leaves the timer on. *)
TimerKept(q) == IF q = Blank THEN searchTimer ELSE q

(* It is cleared, and set again unless the field is empty. *)
TimerAfter(q) == q

(* The effect of a new query.  Clearing the field does not take back a request. *)
Type(q) ==
  /\ q # searchQuery
  /\ searchTyped < MaxTyped /\ searchTyped' = searchTyped + 1
  /\ searchQuery' = q
  /\ searchTimer' = TimerAfter(q)
  /\ searchLoading' = (q # Blank)
  /\ IF q = Blank THEN searchShown' = Blank /\ searchError' = FALSE
     ELSE UNCHANGED <<searchShown, searchError>>
  /\ UNCHANGED searchCalls

TimerFires == /\ searchTimer # Blank
              /\ searchTimer' = Blank
              /\ searchCalls' = Append(searchCalls, [query |-> searchTimer, step |-> "sent"])
              /\ UNCHANGED <<searchQuery, searchShown, searchLoading, searchError, searchTyped>>

(* Mutant: every answer counts. *)
AnyAnswer(n) == TRUE

Current(n) == n = LastRequest

Results(n) ==
  /\ searchCalls[n].step = "sent"
  /\ searchCalls' = [searchCalls EXCEPT ![n].step = "answered"]
  /\ IF Current(n)
       THEN searchShown' = searchCalls[n].query /\ searchError' = FALSE /\ searchLoading' = FALSE
       ELSE UNCHANGED <<searchShown, searchError, searchLoading>>
  /\ UNCHANGED <<searchQuery, searchTimer, searchTyped>>

SearchFails(n) ==
  /\ searchCalls[n].step = "sent"
  /\ searchCalls' = [searchCalls EXCEPT ![n].step = "failed"]
  /\ IF Current(n) THEN searchError' = TRUE /\ searchLoading' = FALSE
     ELSE UNCHANGED <<searchError, searchLoading>>
  /\ UNCHANGED <<searchQuery, searchShown, searchTimer, searchTyped>>

(* "No matches for ..." is shown for a query whose results are empty. *)
Settled == searchTimer = Blank /\ \A n \in DOMAIN searchCalls : searchCalls[n].step # "sent"

Next == \/ \E q \in Queries \cup {Blank} : Type(q)
        \/ TimerFires
        \/ \E n \in DOMAIN searchCalls : Results(n) \/ SearchFails(n)

TypeOK == /\ searchQuery \in Queries \cup {Blank} /\ searchShown \in Queries \cup {Blank}
          /\ searchTimer \in {searchQuery, Blank}
          /\ searchLoading \in BOOLEAN /\ searchError \in BOOLEAN
          /\ \A n \in DOMAIN searchCalls :
               searchCalls[n] \in [query : Queries, step : {"sent", "answered", "failed"}]
          /\ searchTyped \in 0..MaxTyped

(* When timer and requests have settled, the page shows the results of the     *)
(* query in the field, or an error exactly when the last request failed, and   *)
(* no longer loads: answers that arrive late or in another order change        *)
(* nothing.  For an empty field this does not hold: the answer to the query    *)
(* before still counts as the last one, and shows its results.                 *)
SearchSettled ==
  Settled /\ searchQuery # Blank =>
    /\ ~searchLoading
    /\ searchError = (searchCalls[LastRequest].step = "failed")
    /\ searchShown = searchQuery \/ searchError
=============================================================================
