------------------------------ MODULE MCServer ------------------------------
(***************************************************************************)
(* The parts of the server that share no state with one another in their   *)
(* models, each worked on its own: the run starts in the part it will      *)
(* work, so that its state space is the sum of theirs.                     *)
(***************************************************************************)
EXTENDS Publish, MCReplies, AdminRequests, Invites, RecoveredAccounts, Flags,
  Vouches, Restore, Watching, ServerKeys, Sessions, Ripples, IdentityBackup, TLC

CONSTANTS
    g1, g2,                                     \* Publish
    rooty, adam, abby, cleo, dora, d1a, d2a,    \* AdminRequests
    sa, sb,                                     \* ServerKeys
    i1, i2, i3, mia, makeAdmins, kick, nan, nat,            \* Invites
    ua, ub, uc, kana, kbob, kcal, knew, nym, alias, sv1, sv2, \* RecoveredAccounts
    rae, ray, fw1, fw2,                         \* Flags
    pk, lk, vw1, vw2,                           \* Vouches
    c1, c2, c3, rw1, rw2,                       \* Restore
    lw, ra, nt1, nt2,                           \* Watching
    at1, at2, at3,                              \* ServerKeys
    dv1, dv2, cl1, cl2,                         \* Sessions
    rp1, rp2, rp3, oz, me                       \* Ripples

MCPublications == {<<1>>, <<2>>, <<3>>, <<2, 3>>}

MCHeld0 == [u \in {adam, abby} |-> {"admin.create", "user.kick", "user.suspend"}]
MCInvitedBy == [u \in {rooty, adam, abby, cleo, dora} |-> IF u = adam THEN abby ELSE "nobody"]
Asking(a, by, ts, b) == [action |-> a, requester |-> by, targets |-> ts, body |-> b]
MCProposals == {Asking("kick", rooty, {cleo, dora}, {}),
                Asking("suspend", adam, {dora}, {}),
                Asking("promote", abby, {cleo}, {"user.kick"})}

MCMakerOf == [i \in {i1, i2, i3} |-> mia]
MCInviteGrants == [i \in {i1} |-> {kick}]

Profile(id, key, name, at, since) ==
    [id |-> id, key |-> key, name |-> name, at |-> at, since |-> since]
MCSaved == {Profile(ua, kana, nym, 1, 1), Profile(ua, kana, alias, 4, 1),
            Profile(ub, kbob, nym, 2, 2), Profile(uc, kcal, nym, 4, 4)}
MCJoins == {Profile(ub, knew, nym, 4, 4)}

Copy(r, c, w, d) == [reporter |-> r, case |-> c, withdrawn |-> w, dismissed |-> d]
MCCopies == {Copy(rae, 1, TRUE, FALSE), Copy(ray, 1, FALSE, FALSE), Copy(ray, 1, FALSE, TRUE)}

Rec(kind, signers, prev, id, at) ==
    [kind |-> kind, signers |-> signers, prev |-> prev, id |-> id, at |-> at]
MCRecords == {Rec("ledger", <<>>, 0, 1, 0), Rec("ledger", <<>>, 1, 2, 0),
              Rec("request", <<c1>>, 0, 1, 0), Rec("closed", <<c1, c2>>, 0, 1, 0),
              Rec("follow", <<c1>>, 0, 1, 1), Rec("unfollow", <<c1>>, 0, 1, 2),
              Rec("removal", <<c1>>, 0, 1, 0), Rec("echo", <<>>, 0, 1, 0),
              Rec("peering", <<>>, 0, 1, 1), Rec("parting", <<>>, 0, 1, 2),
              Rec("follow", <<c3>>, 0, 2, 1)}

MCWriterOf == (rp1 :> oz) @@ (rp2 :> me) @@ (rp3 :> me)
MCAnswersTo == (rp1 :> "thread") @@ (rp2 :> rp1) @@ (rp3 :> "thread")
\* BOUND: two of the ripples are posted, a reply or another thread.
FewPosts == Cardinality({r \in Ripples : response[r] # "none" \/ posting[r] # 0}) <= 2
\* BOUND: one of them the page has no way to get right.
FewBlurred == Cardinality(blurred) <= 1

\* Two of a kind in several parts, swapped together: only one part is worked.
Swap(x, y) == (x :> y) @@ (y :> x)
MCPairs == Swap(g1, g2) @@ Swap(d1a, d2a) @@ Swap(sa, sb) @@ Swap(nan, nat) @@ Swap(sv1, sv2)
           @@ Swap(fw1, fw2) @@ Swap(vw1, vw2) @@ Swap(rw1, rw2)
           @@ Swap(nt1, nt2)
           @@ Swap(at1, at2)
           @@ Swap(cl1, cl2)
MCAlike == {[x \in DOMAIN MCPairs |-> IF swapped THEN MCPairs[x] ELSE x] : swapped \in BOOLEAN}

VARIABLE worked     \* the part this behaviour is about

PublishOnly ==
    /\ worked = "publish"
    /\ UNCHANGED <<replyVars, adminVars, inviteVars, recoveredVars, flagVars,
                   vouchVars, restoreVars, watchVars, serverKeyVars, sessionVars, rippleVars,
                   backupVars>>
    /\ PublishNext
RepliesOnly ==
    /\ worked = "replies"
    /\ UNCHANGED <<publishVars, adminVars, inviteVars, recoveredVars, flagVars,
                   vouchVars, restoreVars, watchVars, serverKeyVars, sessionVars, rippleVars,
                   backupVars>>
    /\ RepliesNext
AdminOnly ==
    /\ worked = "admin"
    /\ UNCHANGED <<publishVars, replyVars, inviteVars, recoveredVars, flagVars,
                   vouchVars, restoreVars, watchVars, serverKeyVars, sessionVars, rippleVars,
                   backupVars>>
    /\ AdminNext
InvitesOnly ==
    /\ worked = "invites"
    /\ UNCHANGED <<publishVars, replyVars, adminVars, recoveredVars, flagVars,
                   vouchVars, restoreVars, watchVars, serverKeyVars, sessionVars, rippleVars,
                   backupVars>>
    /\ InvitesNext
RecoveredOnly ==
    /\ worked = "recovered"
    /\ UNCHANGED <<publishVars, replyVars, adminVars, inviteVars, flagVars, vouchVars,
                   restoreVars, watchVars, serverKeyVars, sessionVars, rippleVars, backupVars>>
    /\ RecoveredNext
FlagsOnly ==
    /\ worked = "flags"
    /\ UNCHANGED <<publishVars, replyVars, adminVars, inviteVars, recoveredVars,
                   vouchVars, restoreVars, watchVars, serverKeyVars, sessionVars, rippleVars,
                   backupVars>>
    /\ FlagsNext
VouchesOnly ==
    /\ worked = "vouches"
    /\ UNCHANGED <<publishVars, replyVars, adminVars, inviteVars, recoveredVars,
                   flagVars, restoreVars, watchVars, serverKeyVars, sessionVars, rippleVars,
                   backupVars>>
    /\ VouchesNext
RestoreOnly ==
    /\ worked = "restore"
    /\ UNCHANGED <<publishVars, replyVars, adminVars, inviteVars, recoveredVars,
                   flagVars, vouchVars, watchVars, serverKeyVars, sessionVars, rippleVars,
                   backupVars>>
    /\ RestoreNext
WatchingOnly ==
    /\ worked = "watching"
    /\ UNCHANGED <<publishVars, replyVars, adminVars, inviteVars, recoveredVars,
                   flagVars, vouchVars, restoreVars, serverKeyVars, sessionVars, rippleVars,
                   backupVars>>
    /\ WatchNext
ServerKeysOnly ==
    /\ worked = "serverkeys"
    /\ UNCHANGED <<publishVars, replyVars, adminVars, inviteVars, recoveredVars,
                   flagVars, vouchVars, restoreVars, watchVars, sessionVars, rippleVars,
                   backupVars>>
    /\ ServerKeysNext
SessionsOnly ==
    /\ worked = "sessions"
    /\ UNCHANGED <<publishVars, replyVars, adminVars, inviteVars, recoveredVars,
                   flagVars, vouchVars, restoreVars, watchVars, serverKeyVars, rippleVars,
                   backupVars>>
    /\ SessionsNext
RipplesOnly ==
    /\ worked = "ripples"
    /\ UNCHANGED <<publishVars, replyVars, adminVars, inviteVars, recoveredVars,
                   flagVars, vouchVars, restoreVars, watchVars, serverKeyVars, sessionVars,
                   backupVars>>
    /\ RipplesNext
BackupOnly ==
    /\ worked = "backup"
    /\ UNCHANGED <<publishVars, replyVars, adminVars, inviteVars, recoveredVars,
                   flagVars, vouchVars, restoreVars, watchVars, serverKeyVars, sessionVars,
                   rippleVars>>
    /\ BackupNext

ServerInit ==
    /\ worked \in {"publish", "replies", "admin", "invites", "recovered", "flags",
                   "vouches", "restore", "watching", "serverkeys", "sessions", "ripples",
                   "backup"}
    /\ PublishInit /\ RepliesInit /\ AdminInit /\ InvitesInit /\ RecoveredInit
    /\ FlagsInit /\ VouchesInit /\ RestoreInit /\ WatchInit /\ ServerKeysInit /\ SessionsInit
    /\ RipplesInit /\ BackupInit

ServerNext ==
    /\ UNCHANGED worked
    /\ \/ PublishOnly
       \/ RepliesOnly
       \/ AdminOnly
       \/ InvitesOnly
       \/ RecoveredOnly
       \/ FlagsOnly
       \/ VouchesOnly
       \/ RestoreOnly
       \/ WatchingOnly
       \/ ServerKeysOnly
       \/ SessionsOnly
       \/ RipplesOnly
       \/ BackupOnly

ServerSpec ==
    ServerInit /\ [][ServerNext]_<<worked, publishVars, replyVars, adminVars,
                                    inviteVars, recoveredVars, flagVars, vouchVars, restoreVars,
                                    watchVars, serverKeyVars, sessionVars, rippleVars,
                                    backupVars>>

\* The variables of the other parts never change.
WorkedView ==
    <<worked, CASE worked = "publish" -> publishVars
              [] worked = "replies" -> replyVars
              [] worked = "admin" -> adminVars
              [] worked = "invites" -> inviteVars
              [] worked = "recovered" -> recoveredVars
              [] worked = "flags" -> flagVars
              [] worked = "vouches" -> vouchVars
              [] worked = "restore" -> restoreVars
              [] worked = "watching" -> watchVars
              [] worked = "serverkeys" -> serverKeyVars
              [] worked = "sessions" -> sessionVars
              [] worked = "ripples" -> rippleVars
              [] worked = "backup" -> backupVars>>

\* Every row of the part that is worked keeps its shape.
PartsTypeOK ==
    /\ worked = "publish" => PublishTypeOK
    /\ worked = "replies" => RepliesTypeOK
    /\ worked = "admin" => AdminTypeOK
    /\ worked = "invites" => InvitesTypeOK
    /\ worked = "recovered" => RecoveredTypeOK
    /\ worked = "flags" => FlagsTypeOK
    /\ worked = "vouches" => VouchesTypeOK
    /\ worked = "restore" => RestoreTypeOK
    /\ worked = "watching" => WatchTypeOK
    /\ worked = "serverkeys" => ServerKeysTypeOK
    /\ worked = "sessions" => SessionsTypeOK
    /\ worked = "ripples" => RipplesTypeOK
    /\ worked = "backup" => BackupTypeOK
=============================================================================
