------------------------------ MODULE Ripples ------------------------------
(***************************************************************************)
(* The ripples below one reed and one page that shows them.  They live     *)
(* only at the reed's home and only until nobody has posted for rippleTTL; *)
(* a page reads the list once and then follows RIPPLE_POSTED and           *)
(* RIPPLE_UPDATED, which are put on the broadcast channel after the commit *)
(* and handled by functions that wait for IndexedDB and for keys.          *)
(***************************************************************************)
EXTENDS Integers, FiniteSets

CONSTANTS
    Ripples,        \* responses that may be posted (model values)
    WriterOf,       \* their authors
    AnswersTo,      \* the response each replies to, or "thread"
    Onlooker,       \* whose page it is: an author too
    TTL,            \* rippleTTL
    Deletable,      \* BOUND: responses their authors may delete
    MaxTime,        \* BOUND: the clock, in the unit of TTL
    MaxVisits       \* BOUND: times the page is opened

Parents(r) == {AnswersTo[r]} \ {"thread"}
Commenters == {WriterOf[r] : r \in Ripples}

ASSUME RipplesAssumption ==
    /\ \A r \in Ripples : Parents(r) \subseteq Ripples \ {r}
    /\ Deletable \subseteq Ripples /\ TTL \in Nat \ {0} /\ MaxTime \in Nat /\ MaxVisits \in Nat

VARIABLES
    today,      \* the clock of the home server and of the page
    activity,   \* ripples.last_activity_at, 0 without a row
    response,   \* ripple_responses: "none", "live", "deleted", "dropped"
    left,       \* account_removals
    posting,    \* PostRipple requests under way: what time.Now() gave, or 0
    unsent,     \* messages their handlers have still to put on the channel
    step,       \* the page: "closed", "loading", "open"
    subscribed, \* it is in reed_subscriptions
    fetched,    \* the answer of GetRipples as far as it is made
    onPage,     \* what it lists
    deadline,   \* expiresAtMonotonic, 0 for null
    burnt,      \* its flag `expired`
    alight,     \* burnTimer is running: the list burns
    storing,    \* handlers waiting in storeRipple
    visits,
    ended,      \* history: responses whose thread has once been idle
    amid,       \* history: posted while their author was being removed
    slow,       \* history: a post was stored later than the time it took
    prolonged,  \* history: a post has moved the deadline without the page's knowing
    blurred     \* history: responses the page had no way to get right

homeVars == <<today, activity, response, left, posting>>
pageVars == <<step, subscribed, fetched, onPage, deadline, burnt, alight, storing,
              visits>>
rippleVars == <<homeVars, unsent, pageVars, ended, amid, slow, prolonged, blurred>>

\* rippleCutoffSQL: last active at or before NOW() - TTL.
ThreadIdle(at) == at = 0 \/ at + TTL <= today

Stored(r) == response[r] \in {"live", "deleted"}

\* What GetRipple and ListRipples see of it.
Listed(r) == IF Stored(r) /\ ~ThreadIdle(activity) THEN response[r] ELSE "none"

Message(kind, r) == [kind |-> kind, ripple |-> r]

Blank == [r \in Ripples |-> "none"]
NotFetched == [rows |-> Blank, read |-> "nothing", at |-> 0]

RipplesInit ==
    /\ today = 1 /\ activity = 0 /\ response = Blank
    /\ left = {} /\ posting = [r \in Ripples |-> 0] /\ unsent = {}
    /\ step = "closed" /\ subscribed = FALSE /\ fetched = NotFetched
    /\ onPage = Blank /\ deadline = 0 /\ burnt = FALSE /\ alight = FALSE /\ storing = {}
    /\ visits = 0
    /\ ended = {} /\ amid = {} /\ slow = FALSE /\ prolonged = FALSE /\ blurred = {}

----------------------------------------------------------------------------
(* The home server                                                         *)

\* The handler's checks: a reply must answer a response that is listed.
PostRipple(r) ==
    /\ response[r] = "none" /\ posting[r] = 0 /\ WriterOf[r] \notin left
    /\ \A p \in Parents(r) : Listed(p) # "none"
    /\ posting' = [posting EXCEPT ![r] = today]
    /\ UNCHANGED <<today, activity, response, left, unsent, pageVars,
                   ended, amid, slow, prolonged, blurred>>

\* The responses a DELETE of the bookkeeping row takes with it.
Cascade == {r \in Ripples : Stored(r)}

\* triggerExpiry is due: the tick has not come yet.
Overdue == step # "closed" /\ ~burnt /\ ~alight /\ deadline # 0 /\ deadline <= today

\* A page that has the list already, and no right deadline, does not notice.
Unnoticed ==
    IF fetched.read # "nothing" \/ (step = "open" /\ ~burnt /\ ~alight /\ ~Overdue)
    THEN Cascade ELSE {}

\* Variant that must fail: an idle thread is revived with what it held.
DropIdle_Not == response
DropIdle ==
    IF ThreadIdle(activity)
    THEN [r \in Ripples |-> IF Stored(r) THEN "dropped" ELSE response[r]]
    ELSE response

\* The parent's row may be gone, or go with the idle thread: the foreign key.
ParentHeld(r) == \A p \in Parents(r) : DropIdle[p] \in {"live", "deleted"}

PostFails(r) ==
    /\ posting[r] # 0 /\ ~ParentHeld(r)
    /\ posting' = [posting EXCEPT ![r] = 0]
    /\ UNCHANGED <<today, activity, response, left, unsent, pageVars,
                   ended, amid, slow, prolonged, blurred>>

\* The page of the author, when it is open: handleComposerPosted, which leaves
\* burnTimer running, and what was listed as it is.
Composed(r) ==
    IF WriterOf[r] = Onlooker /\ step # "closed"
    THEN /\ deadline' = today + TTL
         /\ burnt' = FALSE
         /\ storing' = storing \cup {Message("composed", r)}
         /\ blurred' = blurred \cup {p \in Ripples : (burnt \/ Overdue) /\ response[p] # "none"}
                               \cup (IF ThreadIdle(activity) THEN Unnoticed ELSE {})
         /\ prolonged' = (prolonged \/ alight \/ fetched.read # "nothing")
    ELSE /\ prolonged' = (prolonged \/ step # "closed")
         /\ blurred' = blurred \cup (IF ThreadIdle(activity) THEN Unnoticed ELSE {})
         /\ UNCHANGED <<deadline, burnt, storing>>

\* DataService.PostRipple: `now` is the handler's reading, not the commit's.
StoreRipple(r) ==
    /\ posting[r] # 0 /\ ParentHeld(r)
    /\ response' = [DropIdle EXCEPT ![r] = "live"]
    /\ activity' = posting[r]
    /\ posting' = [posting EXCEPT ![r] = 0]
    /\ unsent' = unsent \cup {Message("posted", r)}
    /\ amid' = IF WriterOf[r] \in left THEN amid \cup {r} ELSE amid
    /\ slow' = (slow \/ posting[r] < today)
    /\ Composed(r)
    /\ UNCHANGED <<today, left, step, subscribed, fetched, onPage, alight, visits, ended>>

\* Content '[DELETED]'; the thread's last activity stays.
SoftDeleted(rs) == [r \in Ripples |-> IF r \in rs THEN "deleted" ELSE response[r]]

\* DeleteRipple; the page of the author patches its own list.
DeleteRipple(r) ==
    /\ r \in Deletable /\ Listed(r) = "live" /\ WriterOf[r] \notin left
    /\ response' = SoftDeleted({r})
    /\ unsent' = unsent \cup {Message("updated", r)}
    /\ storing' = IF WriterOf[r] = Onlooker /\ step # "closed"
                  THEN storing \cup {Message("patched", r)} ELSE storing
    /\ UNCHANGED <<today, activity, left, posting, step, subscribed, fetched, onPage, deadline,
                   burnt, alight, visits, ended, amid, slow, prolonged, blurred>>

\* account_removal_ripple_trigger, then pushAccountRemovalRipples.
\* Variant that must fail: the trigger leaves the removed account's responses.
Tombstoned_None(w) == {}
Tombstoned(w) == {r \in Ripples : WriterOf[r] = w /\ response[r] = "live"}
ListAccountRemovalRipples(w) == {r \in Tombstoned(w) : ~ThreadIdle(activity)}
RemoveWriter(w) ==
    /\ w \in Commenters \ (left \cup {Onlooker})
    /\ left' = left \cup {w}
    /\ response' = SoftDeleted(Tombstoned(w))
    /\ unsent' = unsent \cup {Message("updated", r) : r \in ListAccountRemovalRipples(w)}
    /\ UNCHANGED <<today, activity, posting, pageVars, ended, amid, slow, prolonged, blurred>>

\* The cron job of ripples_cleanup.go.
Cleanup ==
    /\ activity # 0 /\ ThreadIdle(activity)
    /\ activity' = 0
    /\ response' = DropIdle
    /\ blurred' = blurred \cup Unnoticed
    /\ UNCHANGED <<today, left, posting, unsent, pageVars, ended, amid, slow, prolonged>>

PassTime ==
    /\ today < MaxTime
    /\ today' = today + 1
    /\ ended' = ended \cup (IF activity # 0 /\ activity + TTL <= today + 1 THEN Cascade ELSE {})
    /\ UNCHANGED <<activity, response, left, posting, unsent, pageVars,
                   amid, slow, prolonged, blurred>>

----------------------------------------------------------------------------
(* The page: RipplesSection.svelte                                         *)

OpenPage ==
    /\ step = "closed" /\ visits < MaxVisits
    /\ step' = "loading" /\ visits' = visits + 1
    /\ UNCHANGED <<homeVars, unsent, subscribed, fetched, onPage, deadline, burnt, alight,
                   storing, ended, amid, slow, prolonged, blurred>>

ClosePage ==
    /\ step # "closed"
    /\ step' = "closed" /\ subscribed' = FALSE /\ fetched' = NotFetched
    /\ onPage' = Blank /\ deadline' = 0 /\ burnt' = FALSE /\ alight' = FALSE /\ storing' = {}
    /\ prolonged' = FALSE /\ blurred' = {}
    /\ UNCHANGED <<homeVars, unsent, visits, ended, amid, slow>>

\* The parent page's subscription to the reed.
SubscribeReed ==
    /\ step # "closed" /\ ~subscribed
    /\ subscribed' = TRUE
    /\ UNCHANGED <<homeVars, unsent, step, fetched, onPage, deadline, burnt, alight, storing, visits,
                   ended, amid, slow, prolonged, blurred>>

\* GetRipples: the list, and then the time of the last activity.
ReadList ==
    /\ step = "loading" /\ fetched.read = "nothing"
    /\ fetched' = [rows |-> [r \in Ripples |-> Listed(r)], read |-> "list", at |-> 0]
    /\ UNCHANGED <<homeVars, unsent, step, subscribed, onPage, deadline, burnt, alight, storing,
                   visits, ended, amid, slow, prolonged, blurred>>
ReadActivity ==
    /\ fetched.read = "list"
    /\ fetched' = [fetched EXCEPT !.read = "all",
                                  !.at = IF ThreadIdle(activity) THEN 0 ELSE activity]
    /\ UNCHANGED <<homeVars, unsent, step, subscribed, onPage, deadline, burnt, alight, storing,
                   visits, ended, amid, slow, prolonged, blurred>>

\* loadPage: what is listed replaces what has come in meanwhile.
ShowList ==
    /\ fetched.read = "all"
    /\ step' = "open" /\ fetched' = NotFetched
    /\ LET over == fetched.at # 0 /\ ThreadIdle(fetched.at) IN
       /\ burnt' = (burnt \/ over)
       /\ deadline' = IF over \/ fetched.at = 0 THEN deadline ELSE fetched.at + TTL
       /\ onPage' = IF over THEN Blank ELSE fetched.rows
    /\ UNCHANGED <<homeVars, unsent, subscribed, alight, storing, visits, ended, amid, slow,
                   prolonged, blurred>>

\* notifyRipplePosted and notifyRippleUpdated: to the subscribers but the
\* author; a page that read its list before and is not yet among them, misses it.
Told(r) == subscribed /\ WriterOf[r] # Onlooker
Takes(m) == ~burnt /\ (m.kind = "posted" => onPage[m.ripple] = "none")
Announce(m) ==
    /\ m \in unsent
    /\ unsent' = unsent \ {m}
    /\ storing' = IF Told(m.ripple) /\ Takes(m) THEN storing \cup {m} ELSE storing
    /\ blurred' = IF ~subscribed /\ (step = "open" \/ fetched.read # "nothing")
                  THEN blurred \cup {m.ripple} ELSE blurred
    /\ UNCHANGED <<homeVars, step, subscribed, fetched, onPage, deadline, burnt, alight, visits,
                   ended, amid, slow, prolonged>>

\* Later than the list was read, and shown before the list is.
Overwritten(r) == IF fetched.read # "nothing" THEN {r} ELSE {}

\* handleRipplePosted and the composer, once storeRipple has returned.
ShowPosted(r) == IF burnt \/ onPage[r] # "none" THEN onPage ELSE [onPage EXCEPT ![r] = "live"]
HandlePosted(m) ==
    /\ m \in storing /\ m.kind \in {"posted", "composed"}
    /\ storing' = storing \ {m}
    /\ onPage' = ShowPosted(m.ripple)
    /\ blurred' = blurred \cup Overwritten(m.ripple)
                          \cup (IF response[m.ripple] = "dropped" THEN {m.ripple} ELSE {})
    /\ UNCHANGED <<homeVars, unsent, step, subscribed, fetched, deadline, burnt, alight, visits,
                   ended, amid, slow, prolonged>>

\* handleRippleUpdated patches what is listed; nothing is kept for a response
\* whose RIPPLE_POSTED is still on its way.
\* Variant that must fail: the update is not applied to the list.
ShowUpdated_Not(r) == onPage
ShowUpdated(r) == IF onPage[r] = "none" THEN onPage ELSE [onPage EXCEPT ![r] = "deleted"]
HandleUpdated(m) ==
    /\ m \in storing /\ m.kind \in {"updated", "patched"}
    /\ storing' = storing \ {m}
    /\ onPage' = ShowUpdated(m.ripple)
    /\ blurred' = blurred \cup Overwritten(m.ripple) \cup
            (IF /\ onPage[m.ripple] = "none"
                /\ \E p \in storing \cup unsent :
                        p.ripple = m.ripple /\ p.kind \in {"posted", "composed"}
             THEN {m.ripple} ELSE {})
    /\ UNCHANGED <<homeVars, unsent, step, subscribed, fetched, deadline, burnt, alight, visits,
                   ended, amid, slow, prolonged>>

\* triggerExpiry, and what its burnTimer does in the end.
TriggerExpiry ==
    /\ Overdue
    /\ alight' = TRUE
    /\ UNCHANGED <<homeVars, unsent, step, subscribed, fetched, onPage, deadline, burnt, storing,
                   visits, ended, amid, slow, prolonged, blurred>>
BurnAway ==
    /\ alight
    /\ alight' = FALSE /\ burnt' = TRUE /\ onPage' = Blank
    /\ UNCHANGED <<homeVars, unsent, step, subscribed, fetched, deadline, storing, visits,
                   ended, amid, slow, prolonged, blurred>>

RipplesNext ==
    \/ \E r \in Ripples : PostRipple(r) \/ PostFails(r) \/ StoreRipple(r) \/ DeleteRipple(r)
    \/ \E w \in Commenters : RemoveWriter(w)
    \/ Cleanup \/ PassTime
    \/ OpenPage \/ ClosePage \/ SubscribeReed \/ ReadList \/ ReadActivity \/ ShowList
    \/ \E m \in unsent : Announce(m)
    \/ \E m \in storing : HandlePosted(m) \/ HandleUpdated(m)
    \/ TriggerExpiry \/ BurnAway

RipplesSpec == RipplesInit /\ [][RipplesNext]_rippleVars

----------------------------------------------------------------------------
RipplesTypeOK ==
    /\ today \in 1 .. MaxTime /\ activity \in 0 .. MaxTime
    /\ response \in [Ripples -> {"none", "live", "deleted", "dropped"}]
    /\ left \subseteq Commenters /\ posting \in [Ripples -> 0 .. MaxTime]
    /\ unsent \subseteq {Message(k, r) : k \in {"posted", "updated"}, r \in Ripples}
    /\ step \in {"closed", "loading", "open"} /\ subscribed \in BOOLEAN
    /\ fetched \in [rows : [Ripples -> {"none", "live", "deleted"}],
                   read : {"nothing", "list", "all"}, at : 0 .. MaxTime]
    /\ onPage \in [Ripples -> {"none", "live", "deleted"}]
    /\ deadline \in 0 .. MaxTime + TTL /\ burnt \in BOOLEAN /\ alight \in BOOLEAN
    /\ storing \subseteq {Message(k, r) : k \in {"posted", "composed", "updated", "patched"},
                                          r \in Ripples}
    /\ visits \in 0 .. MaxVisits
    /\ ended \subseteq Ripples /\ amid \subseteq Ripples /\ blurred \subseteq Ripples
    /\ slow \in BOOLEAN /\ prolonged \in BOOLEAN

\* "An idle thread the cleanup job hasn't reached yet must not be revived"
\* (PostRipple): what was idle once is never listed again.
GoneStaysGone == \A r \in ended : Listed(r) = "none"

\* A removed account says nothing (account_removal_ripple_trigger), but for
\* what it was posting at that moment.
RemovedAreSilent ==
    \A r \in Ripples : (response[r] = "live" /\ WriterOf[r] \in left) => r \in amid

\* An open page whose messages are all handled lists what its server lists,
\* tombstones as tombstones, and burns the thread away when the server does.
PageFollows ==
    (step = "open" /\ subscribed /\ unsent = {} /\ storing = {} /\ ~Overdue /\ ~alight) =>
        /\ (~burnt /\ ~ThreadIdle(activity)) => \A r \in Ripples \ blurred : onPage[r] = Listed(r)
        /\ burnt => ThreadIdle(activity) \/ prolonged
        /\ (~burnt /\ ThreadIdle(activity)) => onPage = Blank \/ deadline = 0 \/ slow

\* Removed, idle and tombstoned ripples, at home and on a page.
RipplesHold == GoneStaysGone /\ RemovedAreSilent /\ PageFollows
============================================================================
