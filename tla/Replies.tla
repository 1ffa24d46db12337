------------------------------ MODULE Replies ------------------------------
(***************************************************************************)
(* reed_stats.reply_count: how many live replies stand below a reed.       *)
(* Nothing counts them again; triggers bump every ancestor when a reply's  *)
(* row comes or goes, when a reed removal is stored and when an account    *)
(* removal is (the triggers of db.go, and the handlers and statements that *)
(* set them off, here and for a peer's reeds).                             *)
(*                                                                         *)
(* The reeds of one conversation are the numbers 0 .. MaxReply, 0 its root *)
(* and a parent smaller than its replies.  A transaction is one step: the  *)
(* rows of reed_stats it bumps are locked until it commits, and a reply    *)
(* and its author's removal exclude one another on the author's identity.  *)
(***************************************************************************)
EXTENDS Integers, FiniteSets

CONSTANTS
    MaxReply,       \* BOUND: replies of the conversation
    Accounts,       \* authors (model values)
    OurAccounts,    \* those of this server; the others are one peer's
    AuthorOf,       \* who writes each reed
    ParentOf        \* what each reply answers

Nodes == 0 .. MaxReply
Answers == Nodes \ {0}
Ours(n) == AuthorOf[n] \in OurAccounts

ASSUME RepliesAssumption ==
    /\ MaxReply \in Nat
    /\ OurAccounts \subseteq Accounts
    /\ AuthorOf \in [Nodes -> Accounts]
    /\ Ours(0)
    /\ ParentOf \in [Answers -> Nodes]
    /\ \A r \in Answers : ParentOf[r] < r
    \* A peer's reply to a peer's reed is not recorded here.
    /\ \A r \in Answers : Ours(r) \/ Ours(ParentOf[r])

VARIABLES
    written,    \* reeds that exist, here or at the peer
    rows,       \* reed_replies: replies that have a row
    gone,       \* reed_removals
    closed,     \* account_removals
    count,      \* reed_stats.reply_count
    checked,    \* <<what, reed>>: requests past their checks, before their insert
    dropping,   \* removals of the peer's reeds stored, references not dropped yet
    skewed      \* history: reeds whose count a listed defect has bumped

replyVars == <<written, rows, gone, closed, count, checked, dropping, skewed>>

\* The walk of bump_reply_ancestors from a reed: up while there is a row.
AncestorsAmong[n \in Nodes, kept \in SUBSET Answers] ==
    IF n \notin kept THEN {}
    ELSE {ParentOf[n]} \cup AncestorsAmong[ParentOf[n], kept]
Ancestors(n) == AncestorsAmong[n, rows]

\* Variant that must fail: the count may sink below zero.
Bumped_Below(n, d) == count[n] + d
\* bump_reed_stat: GREATEST(0, ...).
Bumped(n, d) == IF count[n] + d < 0 THEN 0 ELSE count[n] + d
BumpEach(ns, d) == count' = [n \in Nodes |-> IF n \in ns THEN Bumped(n, d) ELSE count[n]]

\* What the count is of, where an author who is removed answers no more.
LiveReply(r) == r \in rows \ gone /\ AuthorOf[r] \notin closed
LiveBelow(n) == {r \in Answers : LiveReply(r) /\ n \in Ancestors(r)}

----------------------------------------------------------------------------
RepliesInit ==
    /\ written = {0}
    /\ rows = {}
    /\ gone = {}
    /\ closed = {}
    /\ count = [n \in Nodes |-> 0]
    /\ checked = {}
    /\ dropping = {}
    /\ skewed = {}

\* ReedExists for a reed of ours; of a peer's it is enough to have it.
Answerable(n) ==
    /\ n \in written
    /\ Ours(n) => n \notin gone /\ AuthorOf[n] \notin closed

\* SignReed up to its transaction.
SignReply(r) ==
    /\ Ours(r)
    /\ r \notin written
    /\ AuthorOf[r] \notin closed
    /\ Answerable(ParentOf[r])
    /\ checked' = checked \cup {<<"reply", r>>}
    /\ UNCHANGED <<written, rows, gone, closed, count, dropping, skewed>>

\* Variant that must fail: the insert trigger counts a removed author's reply.
CountedOnInsert_Always(r) == TRUE
\* reed_reply_count_trigger, which finds the author through reeds: a peer's
\* author is never found there.
CountedOnInsert(r) == ~(Ours(r) /\ AuthorOf[r] \in closed)

\* insertReplyTx, and the trigger on reed_replies.
InsertReply(r) ==
    /\ written' = written \cup {r}
    /\ rows' = rows \cup {r}
    /\ IF CountedOnInsert(r) THEN BumpEach(AncestorsAmong[r, rows'], 1) ELSE UNCHANGED count

\* CreateReedWithReply
CreateReply(r) ==
    /\ <<"reply", r>> \in checked
    /\ checked' = checked \ {<<"reply", r>>}
    /\ InsertReply(r)
    /\ UNCHANGED <<gone, closed, dropping, skewed>>

\* receiveForeignNewReed: INSERT ON CONFLICT DO NOTHING, and nothing asks
\* whether the reed or its author is removed.
ReceiveForeignReply(r) ==
    /\ r \notin rows
    /\ InsertReply(r)
    /\ skewed' = IF r \in gone \/ AuthorOf[r] \in closed
                 THEN skewed \cup AncestorsAmong[r, rows'] ELSE skewed

\* NewReedFromPeer; a call that the peer gave up on may be handled after the
\* removal.
NewReplyFromPeer(r) ==
    /\ ~Ours(r)
    /\ ParentOf[r] \in written
    /\ ReceiveForeignReply(r)
    /\ UNCHANGED <<gone, closed, checked, dropping>>

----------------------------------------------------------------------------
\* DeleteReed up to its transaction.
DeleteReply(r) ==
    /\ Ours(r)
    /\ r \in rows \ gone
    /\ AuthorOf[r] \notin closed
    /\ checked' = checked \cup {<<"removal", r>>}
    /\ UNCHANGED <<written, rows, gone, closed, count, dropping, skewed>>

\* InsertReedRemoval and the trigger on reed_removals, which decrements even
\* if the author's removal has decremented already.
StoreRemoval(r) ==
    /\ <<"removal", r>> \in checked
    /\ checked' = checked \ {<<"removal", r>>}
    /\ IF r \in gone THEN UNCHANGED <<gone, count, skewed>>
       ELSE /\ gone' = gone \cup {r}
            /\ BumpEach(Ancestors(r), -1)
            /\ skewed' = IF AuthorOf[r] \in closed THEN skewed \cup Ancestors(r) ELSE skewed
    /\ UNCHANGED <<written, rows, closed, dropping>>

\* ReedRemovalFromPeer stores the certificate (acceptForeignReedRemoval); the
\* peer repeats the call until it is answered, and a stored one changes nothing.
RemovalFromPeer(r) ==
    /\ ~Ours(r)
    /\ r \in written \ gone
    /\ gone' = gone \cup {r}
    /\ BumpEach(Ancestors(r), -1)
    /\ dropping' = dropping \cup {r}
    /\ UNCHANGED <<written, rows, closed, checked, skewed>>

\* ... and drops the references to the reed in a statement of its own
\* (DeleteForeignReplyReference): reed_reply_delete_count_trigger bumps again,
\* and what was below the reed is cut off.
DropReferences(r) ==
    /\ r \in dropping
    /\ dropping' = dropping \ {r}
    /\ rows' = rows \ {r}
    /\ BumpEach(Ancestors(r), -1)
    /\ skewed' = skewed \cup Ancestors(r)
    /\ UNCHANGED <<written, gone, closed, checked>>

----------------------------------------------------------------------------
\* The rows account_removal_reply_count_trigger walks from.
RepliesBy(a) == {r \in rows \ gone : AuthorOf[r] = a}

\* storeAccountRemovalTx and the trigger on account_removals.
RemoveAccount(a) ==
    /\ a \in OurAccounts \ closed
    /\ closed' = closed \cup {a}
    /\ count' = [n \in Nodes |->
            Bumped(n, -Cardinality({r \in RepliesBy(a) : n \in Ancestors(r)}))]
    /\ UNCHANGED <<written, rows, gone, checked, dropping, skewed>>

\* insertForeignAccountRemovalCert: the trigger joins reeds, which has no row
\* of a peer's author, and decrements nothing.
AccountRemovalFromPeer(a) ==
    /\ a \in Accounts \ (OurAccounts \cup closed)
    /\ closed' = closed \cup {a}
    /\ skewed' = skewed \cup UNION {Ancestors(r) : r \in RepliesBy(a)}
    /\ UNCHANGED <<written, rows, gone, count, checked, dropping>>

RepliesNext ==
    \/ \E r \in Answers :
        \/ SignReply(r) \/ CreateReply(r) \/ NewReplyFromPeer(r)
        \/ DeleteReply(r) \/ StoreRemoval(r)
        \/ RemovalFromPeer(r) \/ DropReferences(r)
    \/ \E a \in Accounts : RemoveAccount(a) \/ AccountRemovalFromPeer(a)

RepliesSpec == RepliesInit /\ [][RepliesNext]_replyVars

----------------------------------------------------------------------------
\* Tables keep their shape, and no count sinks below zero (GREATEST).
RepliesTypeOK ==
    /\ written \subseteq Nodes
    /\ rows \subseteq written \cap Answers
    /\ gone \subseteq written
    /\ closed \subseteq Accounts
    /\ count \in [Nodes -> Nat]
    /\ checked \subseteq {"reply", "removal"} \X Answers
    /\ dropping \subseteq gone
    /\ skewed \subseteq Nodes

\* However replies, removals and account removals interleave, a count is what
\* counting would give, unless a listed defect has bumped it (the reply_count
\* triggers of db.go undo one another).
CountedUnlessSkewed ==
    \A n \in Nodes \ skewed : count[n] = Cardinality(LiveBelow(n))

\* What the comment on reed_removal_reply_count_trigger says: a removal takes
\* back what its own reply added, so no other reply goes missing.
RemovalUndoesOneReply ==
    dropping = {} => \A n \in Nodes : count[n] >= Cardinality(LiveBelow(n))
=============================================================================
