----------------------- MODULE IdentityBackup_proofs -----------------------
(* Theorems about IdentityBackup, for any number of keys, identities,      *)
(* passphrases, disasters and seconds.  BackupHolds is not inductive: what *)
(* an export has read, what a rotation and a change of passphrase rely on, *)
(* and the bundle a database came from are added to it.                    *)
(*                                                                         *)
(* And about RecoveryRun, for any peers, reeds and pages of records, any   *)
(* number of rebuilds and steps of another device.  RecoveryHolds is not   *)
(* inductive: what leads into a run and out of it, which call is open, and *)
(* what a run may still do on a server that was rebuilt under it are added.*)
EXTENDS IdentityBackup, RecoveryRun, TLAPS

-----------------------------------------------------------------------------
(* The inductive invariant                                                 *)

Rows ==
    [n : Nat, made : Nat, done : Nat, wrap : Nat, revoked : BOOLEAN, amid : BOOLEAN]
Links == [revoked : Nat, next : Nat]
Identities == [id : Nat, sign : Nat, keys : SUBSET Rows, links : SUBSET Links, backup : Nat]
Files == [at : Nat, id : Nat, sign : Nat, keys : SUBSET Rows, links : SUBSET Links]

Timings == [pc : {"timed"}, at : Nat]
SelfReads == [pc : {"self"}, at : Nat, id : Nat, sign : Nat]
KeyReads == [pc : {"keys"}, at : Nat, id : Nat, sign : Nat, keys : SUBSET Rows]
FileReads == [pc : {"read", "written"}, bundle : Files]

Types ==
    /\ self \in Identities /\ bundles \in SUBSET Files
    /\ upWith \in [key : Nat, backup : Nat]
    /\ exporting \in {NotRun} \cup Timings \cup SelfReads \cup KeyReads \cup FileReads
    /\ rotating \in {NotRun} \cup [pc : {"made"}, made : Nat, wrap : Nat]
    /\ rewrapping \in {NotRun} \cup [pc : {"listed"}, rows : SUBSET Nat, next : Nat]
                        \cup [pc : {"written"}, next : Nat]
    /\ passphrase \in Nat /\ passphrases \in Nat /\ minted \in Nat /\ identities \in Nat
    /\ second \in Nat

Names(keys) == {k.n : k \in keys}

\* What an export has read so far.
ReadTime == IF exporting.pc \in {"read", "written"} THEN exporting.bundle.at ELSE exporting.at
ReadId == IF exporting.pc \in {"read", "written"} THEN exporting.bundle.id ELSE exporting.id
ReadSign == IF exporting.pc \in {"read", "written"} THEN exporting.bundle.sign ELSE exporting.sign
ReadKeys == IF exporting.pc \in {"read", "written"} THEN exporting.bundle.keys ELSE exporting.keys
HasRead == exporting.pc \in {"self", "keys", "read", "written"}
HasKeys == exporting.pc \in {"keys", "read", "written"}

\* Keys have been minted, and times have passed.
Numbered ==
    /\ \A k \in self.keys : k.n <= minted
    /\ \A b \in bundles : \A k \in b.keys : k.n <= minted
    /\ HasKeys => \A k \in ReadKeys : k.n <= minted
    /\ self.backup <= second
    /\ \A b \in bundles : b.at <= second
    /\ exporting.pc # "resting" => ReadTime <= second /\ \A b \in bundles : b.at <= ReadTime

\* What is there while something goes on.
Present ==
    /\ self.id = 0 => self = NoServer
    /\ self.sign # 0 => self.sign \in Names(self.keys)
    /\ upWith.key # 0 => upWith.key \in Names(self.keys)
    /\ HasRead => self.id # 0 /\ ReadId = self.id
    /\ exporting.pc \in {"read", "written"} => ReadSign \in Names(ReadKeys)
    /\ \A b \in bundles : b.id # 0 /\ b.sign \in Names(b.keys)
    /\ rotating.pc = "made" =>
          self.id # 0 /\ self.sign # 0 /\ ~Revoked(self.keys, self.sign)
    /\ rewrapping.pc = "listed" => self.id # 0

Named(n) == \E b \in bundles : n \in Names(b.keys)

\* A key of the server is in a bundle, or its row came no earlier than the backup.
Covered ==
    /\ \A k \in self.keys : Named(k.n) \/ self.backup <= k.done \/ self.backup = 0
    /\ HasKeys => \A k \in self.keys :
          k.n \in Names(ReadKeys) \/ (ReadTime <= k.done /\ ~Named(k.n))
    /\ exporting.pc = "written" => exporting.bundle \in bundles
    /\ upWith.key # 0 =>
          Named(upWith.key)
          \/ \E k \in self.keys : k.n = upWith.key /\ k.made <= upWith.backup
                                                   /\ upWith.backup <= k.done

Late(keys, at) == \E k \in keys : at <= k.done

\* The export that was cut in two, from which keys with a revoked signing key stem.
Root(keys, id, sign) ==
    \E c \in bundles : c.sign = sign /\ c.id = id /\ Late(c.keys, c.at) /\ Late(keys, c.at)
OldRoot(keys, id, sign, at) ==
    \E c \in bundles : c.sign = sign /\ c.id = id /\ Late(c.keys, c.at) /\ Late(keys, c.at)
                       /\ c.at <= at

Torn ==
    /\ Revoked(self.keys, self.sign) => Root(self.keys, self.id, self.sign)
    /\ \A b \in bundles : Revoked(b.keys, b.sign) => OldRoot(b.keys, b.id, b.sign, b.at)
    /\ exporting.pc = "self" => (Revoked(self.keys, ReadSign) =>
          Late(self.keys, ReadTime) \/ OldRoot(self.keys, ReadId, ReadSign, ReadTime))
    /\ HasKeys => (Revoked(ReadKeys, ReadSign) =>
          Late(ReadKeys, ReadTime) \/ OldRoot(ReadKeys, ReadId, ReadSign, ReadTime))
    /\ HasRead /\ Revoked(self.keys, self.sign) => ReadSign = self.sign
    /\ HasKeys /\ Revoked(self.keys, self.sign) =>
          \A k \in self.keys : \E l \in ReadKeys : l.done = k.done

OneWrap(keys) == (\A k, l \in keys : k.wrap = l.wrap) \/ \E k \in keys : k.amid

Wrapped ==
    /\ OneWrap(self.keys)
    /\ \A b \in bundles : OneWrap(b.keys)
    /\ HasKeys => OneWrap(ReadKeys)
    /\ rotating.pc = "made" =>
          (\A k \in self.keys : k.wrap = rotating.wrap) \/ \E k \in self.keys : k.amid
    /\ rewrapping.pc = "listed" => \A k \in self.keys : k.n \in rewrapping.rows \/ k.amid

IInv == Types /\ Numbered /\ Present /\ Covered /\ Torn /\ Wrapped

-----------------------------------------------------------------------------
(* What the steps make of the keys                                         *)

\* MintServerKey makes a row.
LEMMA MintedRow ==
    ASSUME Types, NEW made \in Nat, NEW wrap \in Nat
    PROVE  /\ MintServerKey(made, wrap) \in Rows
           /\ MintServerKey(made, wrap).n = minted + 1
           /\ MintServerKey(made, wrap).made = made
           /\ MintServerKey(made, wrap).done = second
           /\ MintServerKey(made, wrap).wrap = wrap
           /\ ~MintServerKey(made, wrap).revoked
           /\ (rewrapping.pc = "listed" => MintServerKey(made, wrap).amid)
<1> DEFINE listed == rewrapping.pc = "listed"
<1>1. MintServerKey(made, wrap) = [n |-> minted + 1, made |-> made, done |-> second,
                                   wrap |-> wrap, revoked |-> FALSE, amid |-> listed]
  BY DEF MintServerKey
<1>2. listed \in BOOLEAN /\ minted + 1 \in Nat /\ second \in Nat /\ FALSE \in BOOLEAN
  BY DEF Types
<1> HIDE DEF listed
<1>3. /\ MintServerKey(made, wrap) \in Rows
      /\ MintServerKey(made, wrap).n = minted + 1
      /\ MintServerKey(made, wrap).made = made
      /\ MintServerKey(made, wrap).done = second
      /\ MintServerKey(made, wrap).wrap = wrap
      /\ ~MintServerKey(made, wrap).revoked
      /\ listed => MintServerKey(made, wrap).amid
  BY <1>1, <1>2 DEF Rows
<1>4. QED
  BY <1>3 DEF listed

\* A rotation adds one key, and revokes the one in use; the rest of the rows stays.
LEMMA RotationRows ==
    ASSUME Types, RotationCommits
    PROVE  \E new \in Rows :
              /\ new.n = minted + 1 /\ new.done = second /\ new.wrap = rotating.wrap
              /\ new.made = rotating.made
              /\ ~new.revoked /\ (rewrapping.pc = "listed" => new.amid)
              /\ new \in self'.keys
              /\ \A k \in self'.keys : k \in Rows /\ (k = new \/ \E l \in self.keys :
                    /\ k.n = l.n /\ k.made = l.made /\ k.done = l.done
                    /\ k.wrap = l.wrap /\ k.amid = l.amid)
              /\ \A l \in self.keys : \E k \in self'.keys :
                    /\ k.n = l.n /\ k.made = l.made /\ k.done = l.done
                    /\ k.wrap = l.wrap /\ k.amid = l.amid
              /\ self'.sign = minted + 1 /\ self'.id = self.id /\ self'.backup = self.backup
              /\ self' \in Identities
<1> DEFINE new == MintServerKey(rotating.made, rotating.wrap)
           mark(k) == [k EXCEPT !.revoked = @ \/ k.n = self.sign]
<1>1. rotating.made \in Nat /\ rotating.wrap \in Nat
  BY DEF Types, RotationCommits, Rests, NotRun
<1>2. /\ new \in Rows /\ new.n = minted + 1 /\ new.done = second /\ new.wrap = rotating.wrap
      /\ new.made = rotating.made /\ ~new.revoked
      /\ (rewrapping.pc = "listed" => new.amid)
  BY <1>1, MintedRow
<1>3. \A k \in self.keys : /\ k \in Rows /\ mark(k) \in Rows
                           /\ mark(k).n = k.n /\ mark(k).made = k.made /\ mark(k).done = k.done
                           /\ mark(k).wrap = k.wrap /\ mark(k).amid = k.amid
  <2> TAKE k \in self.keys
  <2>1. k \in Rows
    BY DEF Types, Identities
  <2>2. (k.revoked \/ k.n = self.sign) \in BOOLEAN
    OBVIOUS
  <2>3. QED
    BY <2>1, <2>2 DEF Rows
<1>4. self' = [self EXCEPT !.sign = minted + 1,
                           !.keys = {mark(k) : k \in self.keys} \cup {new},
                           !.links = self.links \cup {[revoked |-> self.sign, next |-> minted + 1]}]
  BY DEF RotationCommits
<1>5. /\ self'.keys = {mark(k) : k \in self.keys} \cup {new}
      /\ self'.sign = minted + 1 /\ self'.id = self.id /\ self'.backup = self.backup
      /\ self'.links = self.links \cup {[revoked |-> self.sign, next |-> minted + 1]}
      /\ self' \in [id : {self.id}, sign : {minted + 1}, keys : {self'.keys},
                    links : {self'.links}, backup : {self.backup}]
  BY <1>4 DEF Types, Identities
<1>6. {mark(k) : k \in self.keys} \subseteq Rows
  BY <1>3
<1>7. self'.keys \subseteq Rows
  BY <1>2, <1>5, <1>6
<1>8. self'.links \subseteq Links
  BY <1>5 DEF Types, Identities, Links
<1>9. self' \in Identities
  BY <1>5, <1>7, <1>8 DEF Types, Identities
<1>10. \A k \in self'.keys : k \in Rows /\ (k = new \/ \E l \in self.keys :
          k.n = l.n /\ k.made = l.made /\ k.done = l.done /\ k.wrap = l.wrap /\ k.amid = l.amid)
  <2> TAKE k \in self'.keys
  <2>1. CASE k = new
    BY <2>1, <1>2
  <2>2. CASE k # new
    <3>1. PICK l \in self.keys : k = mark(l)
      BY <2>2, <1>5
    <3>2. QED
      BY <3>1, <1>3
  <2>3. QED
    BY <2>1, <2>2
<1>11. \A l \in self.keys : \E k \in self'.keys :
          k.n = l.n /\ k.made = l.made /\ k.done = l.done /\ k.wrap = l.wrap /\ k.amid = l.amid
  <2> TAKE l \in self.keys
  <2>1. mark(l) \in self'.keys
    BY <1>5
  <2>2. QED
    BY <2>1, <1>3
<1>12. new \in self'.keys
  BY <1>5
<1> HIDE DEF new, mark
<1>13. QED
  BY <1>2, <1>5, <1>9, <1>10, <1>11, <1>12

\* A change of passphrase changes nothing but the wrapping of the rows it listed.
LEMMA RewrapRows ==
    ASSUME Types, RewrapServerKeys
    PROVE  /\ \A k \in self'.keys : k \in Rows /\ \E l \in self.keys :
                 /\ k.n = l.n /\ k.made = l.made /\ k.done = l.done
                 /\ k.revoked = l.revoked /\ k.amid = l.amid
                 /\ k.n \in rewrapping.rows => k.wrap = rewrapping.next
           /\ \A l \in self.keys : \E k \in self'.keys :
                 /\ k.n = l.n /\ k.made = l.made /\ k.done = l.done
                 /\ k.revoked = l.revoked /\ k.amid = l.amid
           /\ self'.sign = self.sign /\ self'.id = self.id /\ self'.backup = self.backup
           /\ self' \in Identities
<1> DEFINE next(k) == IF k.n \in rewrapping.rows THEN rewrapping.next ELSE k.wrap
           wrap(k) == [k EXCEPT !.wrap = next(k)]
<1>1. rewrapping.next \in Nat
  BY DEF Types, RewrapServerKeys, NotRun
<1>2. \A k \in self.keys : /\ k \in Rows /\ wrap(k) \in Rows
                           /\ wrap(k).n = k.n /\ wrap(k).made = k.made /\ wrap(k).done = k.done
                           /\ wrap(k).revoked = k.revoked /\ wrap(k).amid = k.amid
                           /\ wrap(k).wrap = next(k)
  <2> TAKE k \in self.keys
  <2>1. k \in Rows
    BY DEF Types, Identities
  <2>2. next(k) \in Nat
    BY <1>1, <2>1 DEF Rows
  <2> HIDE DEF next
  <2>3. QED
    BY <2>1, <2>2 DEF Rows
<1>3. self' = [self EXCEPT !.keys = {wrap(k) : k \in self.keys}]
  BY DEF RewrapServerKeys
<1>4. /\ self'.keys = {wrap(k) : k \in self.keys}
      /\ self'.sign = self.sign /\ self'.id = self.id /\ self'.backup = self.backup
      /\ self' \in [id : {self.id}, sign : {self.sign}, keys : {self'.keys},
                    links : {self.links}, backup : {self.backup}]
  BY <1>3 DEF Types, Identities
<1>5. self'.keys \subseteq Rows
  BY <1>2, <1>4
<1>6. self' \in Identities
  BY <1>4, <1>5 DEF Types, Identities
<1>7. \A k \in self'.keys : \E l \in self.keys : k = wrap(l)
  BY <1>4
<1>8. \A l \in self.keys : wrap(l) \in self'.keys
  BY <1>4
<1>9. \A l \in self.keys : l.n \in rewrapping.rows => wrap(l).wrap = rewrapping.next
  BY <1>2
<1> HIDE DEF wrap, next
<1>10. \A k \in self'.keys : k \in Rows /\ \E l \in self.keys :
                 /\ k.n = l.n /\ k.made = l.made /\ k.done = l.done
                 /\ k.revoked = l.revoked /\ k.amid = l.amid
                 /\ k.n \in rewrapping.rows => k.wrap = rewrapping.next
  BY <1>2, <1>7, <1>9
<1>11. \A l \in self.keys : \E k \in self'.keys :
                 /\ k.n = l.n /\ k.made = l.made /\ k.done = l.done
                 /\ k.revoked = l.revoked /\ k.amid = l.amid
  BY <1>2, <1>8
<1>12. QED
  BY <1>4, <1>6, <1>10, <1>11

-----------------------------------------------------------------------------
(* Every conjunct is kept                                                  *)

\* Types holds from the start.
LEMMA InitTypes == BackupInit => Types
BY DEF BackupInit, Types, NoServer, Down, NotRun, Identities

\* What an export, a rotation or a change of passphrase reads has the types of what is there.
LEMMA NextTypes == Types /\ [BackupNext]_backupVars => Types'
<1> SUFFICES ASSUME Types, [BackupNext]_backupVars
             PROVE  Types'
  OBVIOUS
<1> USE DEF Types
<1>1. CASE InitServer
  BY <1>1 DEF InitServer, Identities
<1>2. CASE MintFirstServerKey
  <2> DEFINE new == MintServerKey(second, passphrase)
  <2>0. second \in Nat /\ passphrase \in Nat
    OBVIOUS
  <2>1. new \in Rows
    BY <2>0, MintedRow
  <2>2. self' = [self EXCEPT !.sign = minted + 1, !.keys = {new}]
    BY <1>2 DEF MintFirstServerKey
  <2> HIDE DEF new
  <2>3. self' \in Identities
    <3>1. {new} \in SUBSET Rows /\ minted + 1 \in Nat
      BY <2>1
    <3>2. QED
      BY <2>2, <3>1 DEF Identities
  <2>4. QED
    BY <1>2, <2>3 DEF MintFirstServerKey
<1>3. CASE Boot
  BY <1>3 DEF Boot, Identities
<1>4. CASE StopServer
  BY <1>4 DEF StopServer, Down
<1>5. CASE RunExportIdentity
  BY <1>5 DEF RunExportIdentity, Exports, Timings
<1>6. CASE ExportReadsSelf
  <2>1. exporting \in Timings
    BY <1>6 DEF ExportReadsSelf, Exports, NotRun, SelfReads, KeyReads, FileReads
  <2>2. exporting' \in SelfReads
    BY <1>6, <2>1 DEF ExportReadsSelf, Timings, SelfReads, Identities
  <2>3. QED
    BY <1>6, <2>2 DEF ExportReadsSelf, Exports
<1>7. CASE ExportReadsKeys
  <2>1. exporting \in SelfReads
    BY <1>7 DEF ExportReadsKeys, Exports, NotRun, Timings, KeyReads, FileReads
  <2>2. exporting' \in KeyReads
    BY <1>7, <2>1 DEF ExportReadsKeys, SelfReads, KeyReads, Identities
  <2>3. QED
    BY <1>7, <2>2 DEF ExportReadsKeys, Exports
<1>8. CASE ExportReadsRevocations
  <2>1. exporting \in KeyReads
    BY <1>8 DEF ExportReadsRevocations, Exports, NotRun, Timings, SelfReads, FileReads
  <2>2. PICK b \in Files : exporting' = IF WellShaped(b) THEN [pc |-> "read", bundle |-> b]
                                                          ELSE NotRun
    BY <1>8, <2>1 DEF ExportReadsRevocations, KeyReads, Files, Identities
  <2>3. exporting' \in {NotRun} \cup FileReads
    BY <2>2 DEF FileReads
  <2>4. QED
    BY <1>8, <2>3 DEF ExportReadsRevocations, Exports
<1>9. CASE WriteBundle
  <2>1. exporting \in FileReads
    BY <1>9 DEF WriteBundle, Exports, NotRun, Timings, SelfReads, KeyReads
  <2>2. exporting' \in FileReads /\ bundles' \in SUBSET Files
    BY <1>9, <2>1 DEF WriteBundle, FileReads
  <2>3. QED
    BY <1>9, <2>2 DEF WriteBundle, Exports
<1>10. CASE SetIdentityBackupAt
  <2>1. exporting \in FileReads
    BY <1>10 DEF SetIdentityBackupAt, Exports, NotRun, Timings, SelfReads, KeyReads
  <2>2. self' \in Identities
    BY <1>10, <2>1 DEF SetIdentityBackupAt, FileReads, Files, Identities
  <2>3. QED
    BY <1>10, <2>2 DEF SetIdentityBackupAt, Exports
<1>11. CASE ExportEnds \/ RotationFails \/ RewrapEnds
  BY <1>11 DEF ExportEnds, RotationFails, RewrapEnds
<1>12. CASE RevokeServerKey
  BY <1>12 DEF RevokeServerKey
<1>13. CASE RotationCommits
  <2>1. self' \in Identities
    BY <1>13, RotationRows
  <2>2. QED
    BY <1>13, <2>1 DEF RotationCommits
<1>14. CASE RewrapLists
  <2>1. {k.n : k \in self.keys} \in SUBSET Nat
    BY DEF Identities, Rows
  <2>2. QED
    BY <1>14, <2>1 DEF RewrapLists
<1>15. CASE RewrapServerKeys
  <2>1. self' \in Identities
    BY <1>15, RewrapRows
  <2>2. rewrapping.next \in Nat
    BY <1>15 DEF RewrapServerKeys, NotRun
  <2>3. QED
    BY <1>15, <2>1, <2>2 DEF RewrapServerKeys
<1>16. CASE StorePassphrase
  <2>1. rewrapping.next \in Nat
    BY <1>16 DEF StorePassphrase, NotRun
  <2>2. QED
    BY <1>16, <2>1 DEF StorePassphrase
<1>17. ASSUME NEW p \in 1..MaxPassphrases, ResolvePassphrase(p)
       PROVE  Types'
  BY <1>17, IdentityBackupAssumption DEF ResolvePassphrase
<1>18. CASE DatabaseIsLost
  BY <1>18 DEF DatabaseIsLost, NoServer, Down, Identities
<1>19. CASE SecondPasses
  BY <1>19 DEF SecondPasses
<1>20. ASSUME NEW b \in bundles, ImportIdentity(b)
       PROVE  Types'
  BY <1>20 DEF ImportIdentity, Imported, Identities, Files
<1>21. CASE UNCHANGED backupVars
  BY <1>21 DEF backupVars
<1>22. QED
  BY <1>1, <1>2, <1>3, <1>4, <1>5, <1>6, <1>7, <1>8, <1>9, <1>10, <1>11, <1>12, <1>13, <1>14,
     <1>15, <1>16, <1>17, <1>18, <1>19, <1>20, <1>21 DEF BackupNext

\* Numbered and Present hold from the start.
LEMMA InitPlaced == BackupInit => Numbered /\ Present
BY DEF BackupInit, Numbered, Present, NoServer, Down, NotRun, HasRead, HasKeys, Revoked, Names,
       KeysNamed

\* Keys are minted and seconds pass before anything carries their number.
LEMMA NextNumbered == Types /\ Numbered /\ Present /\ [BackupNext]_backupVars => Numbered'
<1> SUFFICES ASSUME Types, Numbered, Present, [BackupNext]_backupVars
             PROVE  Numbered'
  OBVIOUS
<1>0. Types'
  BY NextTypes
<1> USE DEF Numbered, HasKeys, ReadKeys, ReadTime
<1>1. CASE InitServer \/ Boot \/ StopServer \/ RotationFails \/ RevokeServerKey
           \/ RewrapLists \/ StorePassphrase \/ RewrapEnds
  BY <1>1 DEF InitServer, Boot, StopServer, RotationFails, RevokeServerKey,
              RewrapLists, StorePassphrase, RewrapEnds, Types, Identities
<1>2. CASE MintFirstServerKey
  <2>1. self'.keys = {MintServerKey(second, passphrase)} /\ self'.backup = self.backup
    BY <1>2 DEF MintFirstServerKey, Types, Identities
  <2>0. second \in Nat /\ passphrase \in Nat
    BY DEF Types
  <2>2. MintServerKey(second, passphrase).n = minted + 1
    BY <2>0, MintedRow
  <2>3. \A k \in self'.keys : k.n <= minted'
    BY <1>2, <2>1, <2>2 DEF MintFirstServerKey, Types
  <2>4. \A b \in bundles : \A k \in b.keys : k.n <= minted + 1
    BY DEF Types, Files, Rows
  <2>5. exporting.pc \in {"keys", "read", "written"} => \A k \in ReadKeys : k.n <= minted + 1
    BY DEF Types, KeyReads, FileReads, Files, Rows, Timings, SelfReads, NotRun
  <2>6. QED
    BY <1>2, <2>1, <2>3, <2>4, <2>5 DEF MintFirstServerKey
<1>3. CASE RunExportIdentity
  BY <1>3 DEF RunExportIdentity, Exports, Types
<1>4. CASE ExportReadsSelf \/ ExportReadsKeys
  BY <1>4 DEF ExportReadsSelf, ExportReadsKeys, Exports
<1>5. CASE ExportReadsRevocations
  BY <1>5 DEF ExportReadsRevocations, Exports, NotRun
<1>6. CASE WriteBundle
  <2>1. /\ exporting.pc = "read" /\ bundles' \subseteq bundles \cup {exporting.bundle}
        /\ exporting' = [pc |-> "written", bundle |-> exporting.bundle]
        /\ UNCHANGED <<self, minted, second>>
    BY <1>6 DEF WriteBundle, Exports
  <2>2. /\ \A k \in exporting.bundle.keys : k.n <= minted
        /\ exporting.bundle.at <= second /\ \A b \in bundles : b.at <= exporting.bundle.at
        /\ exporting.bundle.at \in Nat
    BY <2>1 DEF Types, NotRun, Timings, SelfReads, KeyReads, FileReads, Files
  <2>3. exporting'.pc = "written" /\ exporting'.bundle = exporting.bundle
    BY <2>1
  <2>4. QED
    BY <2>1, <2>2, <2>3
<1>7. CASE SetIdentityBackupAt
  BY <1>7 DEF SetIdentityBackupAt, Exports, Types, Identities, NotRun
<1>8. CASE ExportEnds
  BY <1>8 DEF ExportEnds, NotRun
<1>9. CASE RotationCommits
  <2>1. (\A k \in self'.keys : k.n <= minted + 1) /\ self'.backup = self.backup
    BY <1>9, RotationRows DEF Types, Identities, Rows
  <2>2. \A b \in bundles : \A k \in b.keys : k.n <= minted + 1
    BY DEF Types, Files, Rows
  <2>3. exporting.pc \in {"keys", "read", "written"} => \A k \in ReadKeys : k.n <= minted + 1
    BY DEF Types, KeyReads, FileReads, Files, Rows, Timings, SelfReads, NotRun
  <2>4. QED
    BY <1>9, <2>1, <2>2, <2>3 DEF RotationCommits
<1>10. CASE RewrapServerKeys
  <2>1. (\A k \in self'.keys : k.n <= minted) /\ self'.backup = self.backup
    BY <1>10, RewrapRows
  <2>2. QED
    BY <1>10, <2>1 DEF RewrapServerKeys
<1>11. ASSUME NEW p \in 1..MaxPassphrases, ResolvePassphrase(p)
       PROVE  Numbered'
  BY <1>11 DEF ResolvePassphrase
<1>12. CASE DatabaseIsLost
  BY <1>12 DEF DatabaseIsLost, NoServer, NotRun, Types
<1>13. CASE SecondPasses
  <2>1. /\ self.backup <= second + 1 /\ \A b \in bundles : b.at <= second + 1
        /\ exporting.pc # "resting" => ReadTime <= second + 1
    BY DEF Types, Identities, Files, Timings, SelfReads, KeyReads, FileReads, NotRun
  <2>2. QED
    BY <1>13, <2>1 DEF SecondPasses
<1>14. ASSUME NEW b \in bundles, ImportIdentity(b)
       PROVE  Numbered'
  BY <1>14 DEF ImportIdentity, Imported
<1>15. CASE UNCHANGED backupVars
  BY <1>15 DEF backupVars
<1>16. QED
  BY <1>1, <1>2, <1>3, <1>4, <1>5, <1>6, <1>7, <1>8, <1>9, <1>10, <1>11, <1>12, <1>13, <1>14,
     <1>15 DEF BackupNext

\* What goes on has its server.
LEMMA NextPresent == Types /\ Numbered /\ Present /\ [BackupNext]_backupVars => Present'
<1> SUFFICES ASSUME Types, Numbered, Present, [BackupNext]_backupVars
             PROVE  Present'
  OBVIOUS
<1> USE DEF Present, HasRead, ReadId, ReadSign, ReadKeys, Names, Revoked, KeysNamed
<1>1. CASE InitServer
  <2>1. self' = [NoServer EXCEPT !.id = identities + 1] /\ identities + 1 # 0
    BY <1>1 DEF InitServer, Types
  <2>2. self'.id # 0 /\ self'.sign = 0 /\ self'.keys = {}
    BY <2>1 DEF NoServer
  <2>3. QED
    BY <1>1, <2>2 DEF InitServer, NoServer
<1>2. CASE Boot \/ StopServer \/ RotationFails \/ RevokeServerKey
           \/ RewrapLists \/ StorePassphrase \/ RewrapEnds
  <2>1. CASE RotationFails
    BY <2>1 DEF RotationFails, NotRun
  <2>2. CASE RevokeServerKey
    <3>1. self.sign # 0 /\ ~Revoked(self.keys, self.sign)
      BY <2>2 DEF RevokeServerKey, SigningKeyOpens
    <3>2. self.id # 0
      BY <3>1 DEF NoServer
    <3>3. QED
      BY <2>2, <3>1, <3>2 DEF RevokeServerKey
  <2>3. CASE Boot
    BY <2>3 DEF Boot, InitServerKey
  <2>4. CASE StopServer
    BY <2>4 DEF StopServer, Down
  <2>6. CASE RewrapLists
    <3>1. self.id # 0
      BY <2>6 DEF RewrapLists, NoServer
    <3>2. QED
      BY <2>6, <3>1 DEF RewrapLists
  <2>7. CASE StorePassphrase \/ RewrapEnds
    BY <2>7 DEF StorePassphrase, RewrapEnds, NotRun
  <2>5. QED
    BY <1>2, <2>1, <2>2, <2>3, <2>4, <2>6, <2>7
<1>3. CASE MintFirstServerKey
  <2> DEFINE new == MintServerKey(second, passphrase)
  <2>1. self'.keys = {new} /\ self'.id = self.id /\ self'.sign = minted + 1
    BY <1>3 DEF MintFirstServerKey, Types, Identities
  <2>0. second \in Nat /\ passphrase \in Nat
    BY DEF Types
  <2>2. new.n = minted + 1 /\ ~new.revoked
    BY <2>0, MintedRow
  <2> HIDE DEF new
  <2>3. self.id # 0 /\ upWith.key = 0
    BY <1>3 DEF MintFirstServerKey
  <2>4. QED
    BY <1>3, <2>1, <2>2, <2>3 DEF MintFirstServerKey
<1>4. CASE RunExportIdentity
  BY <1>4 DEF RunExportIdentity, Exports
<1>5. CASE ExportReadsSelf
  BY <1>5 DEF ExportReadsSelf, Exports, NoServer
<1>6. CASE ExportReadsKeys
  BY <1>6 DEF ExportReadsKeys, Exports
<1>7. CASE ExportReadsRevocations
  BY <1>7 DEF ExportReadsRevocations, Exports, NotRun, WellShaped
<1>8. CASE WriteBundle
  BY <1>8 DEF WriteBundle, Exports
<1>9. CASE SetIdentityBackupAt
  <2>1. /\ self'.id = self.id /\ self'.sign = self.sign /\ self'.keys = self.keys
        /\ self.id # 0
    BY <1>9 DEF SetIdentityBackupAt, Exports, Types, Identities
  <2>2. QED
    BY <1>9, <2>1 DEF SetIdentityBackupAt, Exports, NotRun
<1>10. CASE ExportEnds
  BY <1>10 DEF ExportEnds, NotRun
<1>11. CASE RotationCommits
  <2>1. PICK new \in Rows :
            /\ new.n = minted + 1 /\ new \in self'.keys
            /\ \A l \in self.keys : \E k \in self'.keys : k.n = l.n
            /\ self'.sign = minted + 1 /\ self'.id = self.id
    BY <1>11, RotationRows
  <2>2. rotating.pc = "made"
    BY <1>11 DEF RotationCommits, Rests, Types, NotRun
  <2>3. self'.sign \in Names(self'.keys) /\ Names(self.keys) \subseteq Names(self'.keys)
    BY <2>1
  <2>4. self.id # 0
    BY <2>2
  <2> HIDE DEF Names, Revoked, KeysNamed
  <2>5. QED
    BY <1>11, <2>1, <2>3, <2>4 DEF RotationCommits, NotRun
<1>12. CASE RewrapServerKeys
  <2>1. /\ \A l \in self.keys : \E k \in self'.keys : k.n = l.n
        /\ self'.sign = self.sign /\ self'.id = self.id
    BY <1>12, RewrapRows
  <2>2. self.id # 0 /\ rotating.pc = "resting"
    BY <1>12 DEF RewrapServerKeys, Rests
  <2>3. Names(self.keys) \subseteq Names(self'.keys)
    BY <2>1
  <2> HIDE DEF Names, Revoked, KeysNamed
  <2>4. QED
    BY <1>12, <2>1, <2>2, <2>3 DEF RewrapServerKeys
<1>13. ASSUME NEW p \in 1..MaxPassphrases, ResolvePassphrase(p)
       PROVE  Present'
  BY <1>13 DEF ResolvePassphrase
<1>14. CASE DatabaseIsLost
  BY <1>14 DEF DatabaseIsLost, NoServer, NotRun, Down
<1>15. CASE SecondPasses
  BY <1>15 DEF SecondPasses
<1>16. ASSUME NEW b \in bundles, ImportIdentity(b)
       PROVE  Present'
  BY <1>16 DEF ImportIdentity, Imported, NoServer
<1>17. CASE UNCHANGED backupVars
  BY <1>17 DEF backupVars
<1>18. QED
  BY <1>1, <1>2, <1>3, <1>4, <1>5, <1>6, <1>7, <1>8, <1>9, <1>10, <1>11, <1>12, <1>13, <1>14,
     <1>15, <1>16, <1>17 DEF BackupNext

\* An export that writes its file takes no key of the server's out of the bundles: the file it
\* replaces was read from the same server, before.
LEMMA NextCovered ==
    Types /\ Numbered /\ Present /\ Covered /\ [BackupNext]_backupVars => Covered'
<1> SUFFICES ASSUME Types, Numbered, Present, Covered, [BackupNext]_backupVars
             PROVE  Covered'
  OBVIOUS
<1> USE DEF Covered, HasKeys, ReadKeys, ReadTime, Named
<1>1. CASE InitServer
  <2>1. self'.keys = self.keys /\ self'.backup = self.backup
    BY <1>1 DEF InitServer, Types, Identities
  <2>2. QED
    BY <1>1, <2>1 DEF InitServer
<1>2. CASE Boot
  <2>1. PICK k \in self.keys : k.n = self.sign
    BY <1>2 DEF Boot, InitServerKey, Present, Names
  <2>2. /\ self.backup # 0 /\ k.made <= self.backup
        /\ upWith' = [key |-> self.sign, backup |-> self.backup]
    BY <1>2, <2>1 DEF Boot, BackupIsStale, Types, Identities, Rows
  <2>3. QED
    BY <1>2, <2>1, <2>2 DEF Boot
<1>3. CASE StopServer
  BY <1>3 DEF StopServer, Down
<1>4. CASE MintFirstServerKey
  <2> DEFINE new == MintServerKey(second, passphrase)
  <2>1. self'.keys = {new} /\ self'.backup = self.backup /\ upWith.key = 0
    BY <1>4 DEF MintFirstServerKey, Types, Identities, Present, Names
  <2>2. second \in Nat /\ passphrase \in Nat
    BY DEF Types
  <2>3. new.n = minted + 1 /\ new.done = second
    BY <2>2, MintedRow
  <2> HIDE DEF new
  <2>4. \A b \in bundles : minted + 1 \notin Names(b.keys)
    BY DEF Numbered, Names, Types, Files, Rows
  <2>5. exporting.pc # "resting" => ReadTime <= second
    BY DEF Numbered
  <2>6. self.backup <= second
    BY DEF Numbered
  <2>7. QED
    BY <1>4, <2>1, <2>3, <2>4, <2>5, <2>6 DEF MintFirstServerKey
<1>5. CASE RunExportIdentity
  BY <1>5 DEF RunExportIdentity, Exports
<1>6. CASE ExportReadsSelf
  BY <1>6 DEF ExportReadsSelf, Exports
<1>7. CASE ExportReadsKeys
  BY <1>7 DEF ExportReadsKeys, Exports, Names
<1>8. CASE ExportReadsRevocations
  BY <1>8 DEF ExportReadsRevocations, Exports, NotRun
<1>9. CASE WriteBundle
  <2> DEFINE new == exporting.bundle
  <2>1. /\ exporting.pc = "read"
        /\ bundles' = {c \in bundles : ~SameFile(c, new)} \cup {new}
        /\ exporting' = [pc |-> "written", bundle |-> new]
        /\ UNCHANGED <<self, upWith>>
    BY <1>9 DEF WriteBundle, Exports
  <2>2. new \in bundles' /\ exporting'.pc = "written" /\ exporting'.bundle = new
    BY <2>1
  <2>3. \A k \in self.keys : k.n \in Names(new.keys) \/ (new.at <= k.done /\ ~Named(k.n))
    BY <2>1
  <2>4. \A k \in self.keys : Named(k.n) => Named(k.n)'
    BY <2>2, <2>3
  <2>5. \A k \in self.keys : k.n \notin Names(new.keys) => ~Named(k.n)'
    BY <2>1, <2>3
  <2>6. upWith.key # 0 /\ Named(upWith.key) => Named(upWith.key)'
    <3> SUFFICES ASSUME upWith.key # 0, Named(upWith.key)
                 PROVE  Named(upWith.key)'
      OBVIOUS
    <3>1. PICK k \in self.keys : k.n = upWith.key
      BY DEF Present, Names
    <3>2. Named(k.n)'
      BY <3>1, <2>4
    <3>3. QED
      BY <2>1, <3>1, <3>2
  <2>7. QED
    BY <2>1, <2>2, <2>3, <2>4, <2>5, <2>6
<1>10. CASE SetIdentityBackupAt
  <2>1. /\ self'.keys = self.keys /\ self'.backup = exporting.bundle.at
        /\ exporting.pc = "written"
    BY <1>10 DEF SetIdentityBackupAt, Exports, Types, Identities
  <2>2. QED
    BY <1>10, <2>1 DEF SetIdentityBackupAt, Exports, NotRun
<1>11. CASE ExportEnds
  BY <1>11 DEF ExportEnds, NotRun
<1>12. CASE RotationFails \/ RevokeServerKey \/ RewrapLists \/ StorePassphrase \/ RewrapEnds
            \/ SecondPasses
  BY <1>12 DEF RotationFails, RevokeServerKey, RewrapLists, StorePassphrase, RewrapEnds,
               SecondPasses
<1>13. CASE RotationCommits
  <2>1. PICK new \in Rows :
            /\ new.n = minted + 1 /\ new.done = second
            /\ \A k \in self'.keys : k = new \/ \E l \in self.keys :
                  k.n = l.n /\ k.made = l.made /\ k.done = l.done
            /\ \A l \in self.keys : \E k \in self'.keys :
                  k.n = l.n /\ k.made = l.made /\ k.done = l.done
            /\ self'.backup = self.backup
    BY <1>13, RotationRows
  <2>2. UNCHANGED <<bundles, upWith, exporting>>
    BY <1>13 DEF RotationCommits
  <2>3. \A b \in bundles : minted + 1 \notin Names(b.keys)
    BY DEF Numbered, Names, Types, Files, Rows
  <2>4. /\ exporting.pc # "resting" => ReadTime <= second
        /\ self.backup <= second
    BY DEF Numbered
  <2>5. QED
    BY <2>1, <2>2, <2>3, <2>4
<1>14. CASE RewrapServerKeys
  <2>1. /\ \A k \in self'.keys : \E l \in self.keys :
              k.n = l.n /\ k.made = l.made /\ k.done = l.done
        /\ \A l \in self.keys : \E k \in self'.keys :
              k.n = l.n /\ k.made = l.made /\ k.done = l.done
        /\ self'.backup = self.backup
    BY <1>14, RewrapRows
  <2>2. UNCHANGED <<bundles, upWith, exporting>>
    BY <1>14 DEF RewrapServerKeys
  <2>3. QED
    BY <2>1, <2>2
<1>15. ASSUME NEW p \in 1..MaxPassphrases, ResolvePassphrase(p)
       PROVE  Covered'
  BY <1>15 DEF ResolvePassphrase
<1>16. CASE DatabaseIsLost
  BY <1>16 DEF DatabaseIsLost, NoServer, NotRun, Down
<1>17. ASSUME NEW b \in bundles, ImportIdentity(b)
       PROVE  Covered'
  BY <1>17 DEF ImportIdentity, Imported, Present, HasRead, Names, NoServer
<1>18. CASE UNCHANGED backupVars
  BY <1>18 DEF backupVars
<1>19. QED
  BY <1>1, <1>2, <1>3, <1>4, <1>5, <1>6, <1>7, <1>8, <1>9, <1>10, <1>11, <1>12, <1>13, <1>14,
     <1>15, <1>16, <1>17, <1>18 DEF BackupNext

\* The keys of a server, of a bundle and of what is read of them, through a change of passphrase.
LEMMA NextWrapped ==
    Types /\ Numbered /\ Present /\ Wrapped /\ [BackupNext]_backupVars => Wrapped'
<1> SUFFICES ASSUME Types, Numbered, Present, Wrapped, [BackupNext]_backupVars
             PROVE  Wrapped'
  OBVIOUS
<1> USE DEF Wrapped, HasKeys, ReadKeys, OneWrap
<1>1. CASE InitServer
  <2>1. self'.keys = self.keys
    BY <1>1 DEF InitServer, Types, Identities
  <2>2. QED
    BY <1>1, <2>1 DEF InitServer
<1>2. CASE Boot \/ StopServer \/ StorePassphrase \/ RewrapEnds \/ SecondPasses
           \/ RotationFails
  BY <1>2 DEF Boot, StopServer, StorePassphrase, RewrapEnds, SecondPasses,
              RotationFails, NotRun
<1>3. CASE MintFirstServerKey
  <2> DEFINE new == MintServerKey(second, passphrase)
  <2>1. self'.keys = {new}
    BY <1>3 DEF MintFirstServerKey, Types, Identities
  <2>2. second \in Nat /\ passphrase \in Nat
    BY DEF Types
  <2>3. (rewrapping.pc = "listed" => new.amid)
    BY <2>2, MintedRow
  <2> HIDE DEF new
  <2>4. rotating.pc # "made"
    BY <1>3 DEF MintFirstServerKey, Present
  <2>5. QED
    BY <1>3, <2>1, <2>3, <2>4 DEF MintFirstServerKey
<1>4. CASE RunExportIdentity
  BY <1>4 DEF RunExportIdentity, Exports
<1>5. CASE ExportReadsSelf
  BY <1>5 DEF ExportReadsSelf, Exports
<1>6. CASE ExportReadsKeys
  BY <1>6 DEF ExportReadsKeys, Exports
<1>7. CASE ExportReadsRevocations
  BY <1>7 DEF ExportReadsRevocations, Exports, NotRun
<1>8. CASE WriteBundle
  BY <1>8 DEF WriteBundle, Exports
<1>9. CASE SetIdentityBackupAt
  <2>1. self'.keys = self.keys
    BY <1>9 DEF SetIdentityBackupAt, Types, Identities
  <2>2. QED
    BY <1>9, <2>1 DEF SetIdentityBackupAt, Exports, NotRun
<1>10. CASE ExportEnds
  BY <1>10 DEF ExportEnds, NotRun
<1>11. CASE RevokeServerKey
  <2>1. PICK k \in self.keys : k.wrap = passphrase
    BY <1>11 DEF RevokeServerKey, SigningKeyOpens, Present, Names, KeysNamed
  <2>2. QED
    BY <1>11, <2>1 DEF RevokeServerKey
<1>12. CASE RotationCommits
  <2>1. PICK new \in Rows :
            /\ new.wrap = rotating.wrap /\ (rewrapping.pc = "listed" => new.amid)
            /\ \A k \in self'.keys : k = new \/ \E l \in self.keys :
                  k.n = l.n /\ k.wrap = l.wrap /\ k.amid = l.amid
            /\ \A l \in self.keys : \E k \in self'.keys : k.wrap = l.wrap /\ k.amid = l.amid
            /\ new \in self'.keys
    BY <1>12, RotationRows
  <2>2. UNCHANGED <<bundles, exporting, rewrapping>> /\ rotating.pc = "made"
        /\ rotating'.pc = "resting"
    BY <1>12 DEF RotationCommits, Rests, Types, NotRun
  <2>3. OneWrap(self.keys)'
    BY <2>1, <2>2
  <2>4. QED
    BY <2>1, <2>2, <2>3
<1>13. CASE RewrapLists
  BY <1>13 DEF RewrapLists
<1>14. CASE RewrapServerKeys
  <2>1. /\ \A k \in self'.keys : \E l \in self.keys :
              /\ k.n = l.n /\ k.amid = l.amid
              /\ k.n \in rewrapping.rows => k.wrap = rewrapping.next
        /\ \A l \in self.keys : \E k \in self'.keys : k.amid = l.amid
    BY <1>14, RewrapRows
  <2>2. /\ UNCHANGED <<bundles, exporting, rotating>> /\ rotating.pc = "resting"
        /\ rewrapping.pc = "listed" /\ rewrapping'.pc = "written"
    BY <1>14 DEF RewrapServerKeys, Rests
  <2>3. QED
    BY <2>1, <2>2
<1>15. ASSUME NEW p \in 1..MaxPassphrases, ResolvePassphrase(p)
       PROVE  Wrapped'
  BY <1>15 DEF ResolvePassphrase
<1>16. CASE DatabaseIsLost
  BY <1>16 DEF DatabaseIsLost, NoServer, NotRun
<1>17. ASSUME NEW b \in bundles, ImportIdentity(b)
       PROVE  Wrapped'
  BY <1>17 DEF ImportIdentity, Imported, Present
<1>18. CASE UNCHANGED backupVars
  BY <1>18 DEF backupVars
<1>19. QED
  BY <1>1, <1>2, <1>3, <1>4, <1>5, <1>6, <1>7, <1>8, <1>9, <1>10, <1>11, <1>12, <1>13, <1>14,
     <1>15, <1>16, <1>17, <1>18 DEF BackupNext

\* A file that replaces another takes its place as the origin of what stems from it.
LEMMA WrittenTorn ==
    ASSUME Types, Numbered, Present, Torn, WriteBundle
    PROVE  Torn'
<1> DEFINE new == exporting.bundle
<1>1. /\ exporting.pc = "read"
      /\ bundles' = {c \in bundles : ~SameFile(c, new)} \cup {new}
      /\ exporting' = [pc |-> "written", bundle |-> new]
      /\ UNCHANGED self
  BY DEF WriteBundle, Exports
<1>2. exporting'.pc = "written" /\ exporting'.bundle = new
  BY <1>1
<1>3. new \in Files /\ \A b \in bundles : b \in Files /\ b.at <= new.at
  BY <1>1 DEF Types, Numbered, ReadTime, NotRun, Timings, SelfReads, KeyReads, FileReads
<1>4. /\ Revoked(new.keys, new.sign) =>
            Late(new.keys, new.at) \/ OldRoot(new.keys, new.id, new.sign, new.at)
      /\ Revoked(self.keys, self.sign) => new.sign = self.sign
      /\ Revoked(self.keys, self.sign) =>
            \A k \in self.keys : \E l \in new.keys : l.done = k.done
      /\ new.id = self.id
  BY <1>1 DEF Torn, Present, HasRead, HasKeys, ReadId, ReadSign, ReadKeys, ReadTime
<1> HIDE DEF new
<1>5. Revoked(new.keys, new.sign) => OldRoot(new.keys, new.id, new.sign, new.at)'
  <2> SUFFICES ASSUME Revoked(new.keys, new.sign)
               PROVE  \E c \in bundles' :
                         /\ c.sign = new.sign /\ c.id = new.id /\ Late(c.keys, c.at)
                         /\ Late(new.keys, c.at) /\ c.at <= new.at
    BY <1>1 DEF OldRoot, new, Late
  <2>1. new \in bundles' /\ new.at <= new.at
    BY <1>1, <1>3 DEF Files
  <2>2. CASE Late(new.keys, new.at)
    BY <2>1, <2>2
  <2>3. CASE OldRoot(new.keys, new.id, new.sign, new.at)
    <3>1. PICK c \in bundles : /\ c.sign = new.sign /\ c.id = new.id /\ Late(c.keys, c.at)
                               /\ Late(new.keys, c.at) /\ c.at <= new.at
      BY <2>3 DEF OldRoot
    <3>2. CASE SameFile(c, new)
      BY <2>2, <3>1, <3>2 DEF SameFile
    <3>3. CASE ~SameFile(c, new)
      BY <1>1, <3>1, <3>3
    <3>4. QED
      BY <3>2, <3>3
  <2>4. QED
    BY <1>4, <2>2, <2>3
<1>6. ASSUME NEW b \in bundles, ~SameFile(b, new), Revoked(b.keys, b.sign)
      PROVE  \E c \in bundles' :
                /\ c.sign = b.sign /\ c.id = b.id /\ Late(c.keys, c.at)
                /\ Late(b.keys, c.at) /\ c.at <= b.at
  <2>1. PICK c \in bundles : /\ c.sign = b.sign /\ c.id = b.id /\ Late(c.keys, c.at)
                             /\ Late(b.keys, c.at) /\ c.at <= b.at
    BY <1>6 DEF Torn, OldRoot
  <2>2. ~SameFile(c, new)
    BY <1>3, <1>6, <2>1 DEF SameFile, Files
  <2>3. QED
    BY <1>1, <2>1, <2>2
<1>7. ASSUME Revoked(self.keys, self.sign)
      PROVE  \E c \in bundles' :
                /\ c.sign = self.sign /\ c.id = self.id /\ Late(c.keys, c.at)
                /\ Late(self.keys, c.at)
  <2>1. PICK c \in bundles : /\ c.sign = self.sign /\ c.id = self.id /\ Late(c.keys, c.at)
                             /\ Late(self.keys, c.at)
    BY <1>7 DEF Torn, Root
  <2>2. CASE SameFile(c, new)
    <3>1. Late(self.keys, new.at)
      BY <2>1, <2>2 DEF SameFile
    <3>2. Late(new.keys, new.at)
      BY <1>4, <1>7, <3>1 DEF Late
    <3>3. QED
      BY <1>1, <1>4, <1>7, <3>1, <3>2
  <2>3. CASE ~SameFile(c, new)
    BY <1>1, <2>1, <2>3
  <2>4. QED
    BY <2>2, <2>3
<1>8. Revoked(self.keys, self.sign)' => Root(self.keys, self.id, self.sign)'
  BY <1>1, <1>7 DEF Root, Revoked, KeysNamed, Late
<1>9. (\A b \in bundles : Revoked(b.keys, b.sign) => OldRoot(b.keys, b.id, b.sign, b.at))'
  <2> SUFFICES ASSUME NEW b \in bundles', Revoked(b.keys, b.sign)
               PROVE  \E c \in bundles' :
                         /\ c.sign = b.sign /\ c.id = b.id /\ Late(c.keys, c.at)
                         /\ Late(b.keys, c.at) /\ c.at <= b.at
    BY DEF OldRoot, Late, Revoked, KeysNamed
  <2>1. CASE b = new
    <3>1. \E c \in bundles' : /\ c.sign = new.sign /\ c.id = new.id /\ Late(c.keys, c.at)
                              /\ Late(new.keys, c.at) /\ c.at <= new.at
      BY <1>1, <1>5, <2>1 DEF OldRoot, Late, new
    <3>2. QED
      BY <2>1, <3>1
  <2>2. CASE b # new
    BY <1>1, <1>6, <2>2
  <2>3. QED
    BY <2>1, <2>2
<1>10. QED
  <2>1. /\ ReadSign' = new.sign /\ ReadKeys' = new.keys /\ ReadTime' = new.at
        /\ ReadId' = new.id /\ exporting'.pc # "self"
    BY <1>2 DEF ReadSign, ReadKeys, ReadTime, ReadId
  <2>2. Revoked(ReadKeys', ReadSign') =>
           \E c \in bundles' :
                         /\ c.sign = ReadSign' /\ c.id = ReadId' /\ Late(c.keys, c.at)
                         /\ Late(ReadKeys', c.at) /\ c.at <= ReadTime'
    BY <1>1, <1>5, <2>1 DEF OldRoot, Late, new
  <2>3. (Revoked(ReadKeys, ReadSign) => OldRoot(ReadKeys, ReadId, ReadSign, ReadTime))'
    BY <2>2 DEF OldRoot, Late, Revoked, KeysNamed
  <2>4. (Revoked(self.keys, self.sign) => ReadSign = self.sign)'
    BY <1>1, <1>4, <2>1 DEF Revoked, KeysNamed
  <2>5. (Revoked(self.keys, self.sign) =>
            \A k \in self.keys : \E l \in ReadKeys : l.done = k.done)'
    BY <1>1, <1>4, <2>1 DEF Revoked, KeysNamed
  <2>6. QED
    BY <1>8, <1>9, <2>1, <2>3, <2>4, <2>5 DEF Torn

\* A signing key is revoked in what was read, or imported, only by a rotation in between.
LEMMA NextTorn ==
    Types /\ Numbered /\ Present /\ Torn /\ [BackupNext]_backupVars => Torn'
<1> SUFFICES ASSUME Types, Numbered, Present, Torn, [BackupNext]_backupVars
             PROVE  Torn'
  OBVIOUS
<1> USE DEF Torn, HasRead, HasKeys, ReadKeys, ReadTime, ReadSign, ReadId, Root, OldRoot, Late,
            Revoked, KeysNamed
<1>1. CASE InitServer
  <2>1. self = NoServer /\ self'.keys = self.keys /\ ~HasRead
    BY <1>1 DEF InitServer, Types, Identities, Present
  <2>2. QED
    BY <1>1, <2>1 DEF InitServer, NoServer
<1>2. CASE Boot \/ StopServer \/ StorePassphrase \/ RewrapEnds \/ RewrapLists
           \/ RotationFails \/ RevokeServerKey \/ SecondPasses
  BY <1>2 DEF Boot, StopServer, StorePassphrase, RewrapEnds, RewrapLists,
              RotationFails, RevokeServerKey, SecondPasses
<1>3. CASE MintFirstServerKey
  <2> DEFINE new == MintServerKey(second, passphrase)
  <2>1. self'.keys = {new} /\ UNCHANGED <<bundles, exporting>>
    BY <1>3 DEF MintFirstServerKey, Types, Identities
  <2>2. second \in Nat /\ passphrase \in Nat
    BY DEF Types
  <2>3. ~new.revoked
    BY <2>2, MintedRow
  <2> HIDE DEF new
  <2>4. QED
    BY <2>1, <2>3
<1>4. CASE RunExportIdentity
  BY <1>4 DEF RunExportIdentity, Exports
<1>5. CASE ExportReadsSelf
  <2>1. /\ exporting.pc = "timed"
        /\ exporting' = [pc |-> "self", at |-> exporting.at, id |-> self.id,
                         sign |-> self.sign]
        /\ UNCHANGED <<self, bundles>>
    BY <1>5 DEF ExportReadsSelf, Exports
  <2>2. \A b \in bundles : b.at <= exporting.at
    BY <2>1 DEF Numbered
  <2>3. QED
    BY <2>1, <2>2
<1>6. CASE ExportReadsKeys
  BY <1>6 DEF ExportReadsKeys, Exports
<1>7. CASE ExportReadsRevocations
  BY <1>7 DEF ExportReadsRevocations, Exports, NotRun
<1>8. CASE WriteBundle
  BY <1>8, WrittenTorn
<1>9. CASE SetIdentityBackupAt
  <2>1. self'.keys = self.keys /\ self'.sign = self.sign /\ self'.id = self.id
    BY <1>9 DEF SetIdentityBackupAt, Types, Identities
  <2>2. QED
    BY <1>9, <2>1 DEF SetIdentityBackupAt, Exports, NotRun
<1>10. CASE ExportEnds
  BY <1>10 DEF ExportEnds, NotRun
<1>11. CASE RotationCommits
  <2>1. PICK new \in Rows :
            /\ new.n = minted + 1 /\ new.done = second /\ ~new.revoked
            /\ \A k \in self'.keys : k = new \/ \E l \in self.keys : k.n = l.n
            /\ new \in self'.keys
            /\ self'.sign = minted + 1 /\ self'.id = self.id
    BY <1>11, RotationRows
  <2>2. UNCHANGED <<bundles, exporting>>
    BY <1>11 DEF RotationCommits
  <2>3. \A l \in self.keys : l.n # minted + 1
    BY DEF Numbered, Types, Identities, Rows
  <2>4. ~Revoked(self.keys, self.sign)'
    BY <2>1, <2>3
  <2>5. exporting.pc = "self" => Late(self.keys, ReadTime)'
    BY <2>1, <2>2 DEF Numbered
  <2>6. QED
    BY <2>2, <2>4, <2>5
<1>12. CASE RewrapServerKeys
  <2>1. /\ \A k \in self'.keys : \E l \in self.keys :
              k.n = l.n /\ k.done = l.done /\ k.revoked = l.revoked
        /\ \A l \in self.keys : \E k \in self'.keys :
              k.n = l.n /\ k.done = l.done /\ k.revoked = l.revoked
        /\ self'.sign = self.sign /\ self'.id = self.id
    BY <1>12, RewrapRows
  <2>2. UNCHANGED <<bundles, exporting>>
    BY <1>12 DEF RewrapServerKeys
  <2>3. /\ \A n : Revoked(self'.keys, n) <=> Revoked(self.keys, n)
        /\ \A at : Late(self'.keys, at) <=> Late(self.keys, at)
    BY <2>1
  <2>4. HasKeys /\ Revoked(self.keys, self.sign) =>
            \A k \in self'.keys : \E l \in ReadKeys : l.done = k.done
    BY <2>1
  <2>5. /\ (Revoked(self.keys, self.sign) => Root(self.keys, self.id, self.sign))'
        /\ (exporting.pc = "self" => (Revoked(self.keys, ReadSign) =>
              Late(self.keys, ReadTime) \/ OldRoot(self.keys, ReadId, ReadSign, ReadTime)))'
    BY <2>1, <2>2, <2>3
  <2>6. QED
    BY <2>1, <2>2, <2>3, <2>4, <2>5
<1>13. ASSUME NEW p \in 1..MaxPassphrases, ResolvePassphrase(p)
       PROVE  Torn'
  BY <1>13 DEF ResolvePassphrase
<1>14. CASE DatabaseIsLost
  BY <1>14 DEF DatabaseIsLost, NoServer, NotRun
<1>15. ASSUME NEW b \in bundles, ImportIdentity(b)
       PROVE  Torn'
  BY <1>15 DEF ImportIdentity, Imported, Present
<1>16. CASE UNCHANGED backupVars
  BY <1>16 DEF backupVars
<1>17. QED
  BY <1>1, <1>2, <1>3, <1>4, <1>5, <1>6, <1>7, <1>8, <1>9, <1>10, <1>11, <1>12, <1>13, <1>14,
     <1>15, <1>16 DEF BackupNext

-----------------------------------------------------------------------------
(* The theorems                                                            *)

\* The inductive invariant holds.
THEOREM BackupInvariant == BackupSpec => []IInv
<1>1. BackupInit => IInv
  <2>1. BackupInit => Covered /\ Torn /\ Wrapped
    BY DEF BackupInit, Covered, Torn, Wrapped, NoServer, Down, NotRun, HasRead, HasKeys,
           Revoked, KeysNamed, OneWrap
  <2>2. QED
    BY <2>1, InitTypes, InitPlaced DEF IInv
<1>2. IInv /\ [BackupNext]_backupVars => IInv'
  BY NextTypes, NextNumbered, NextPresent, NextCovered, NextTorn, NextWrapped DEF IInv
<1>3. QED
  BY <1>1, <1>2, PTL DEF BackupSpec

\* operators.md: "The server refuses to start until its identity is exported": a server that
\* runs has its key in a bundle, unless the key came in the second of the export, or across
\* it; a bundle that brings back a dead server stems from an export that a rotation cut in two;
\* and one passphrase opens all keys, unless one came amid a change of passphrase.
THEOREM BackupsHold == BackupSpec => []BackupHolds
<1>1. IInv => StartsAreBacked
  <2> SUFFICES ASSUME Covered, upWith.key # 0
               PROVE  StartsAreBacked
    BY DEF IInv, StartsAreBacked
  <2>1. CASE Named(upWith.key)
    <3>1. PICK b \in bundles : \E k \in b.keys : k.n = upWith.key
      BY <2>1 DEF Named, Names
    <3>2. KeysNamed(b.keys, upWith.key) # {}
      BY <3>1 DEF KeysNamed
    <3>3. QED
      BY <3>2 DEF StartsAreBacked
  <2>2. CASE ~Named(upWith.key)
    <3>1. PICK k \in self.keys : k.n = upWith.key /\ k.made <= upWith.backup
                                                 /\ upWith.backup <= k.done
      BY <2>2 DEF Covered
    <3>2. k \in KeysNamed(self.keys, upWith.key)
      BY <3>1 DEF KeysNamed
    <3>3. \E m \in KeysNamed(self.keys, upWith.key) :
             m.made <= upWith.backup /\ upWith.backup <= m.done
      <4> HIDE DEF KeysNamed
      <4>1. WITNESS k \in KeysNamed(self.keys, upWith.key)
      <4>2. QED
        BY <3>1
    <3>4. QED
      BY <3>3, Zenon DEF StartsAreBacked
  <2>3. QED
    BY <2>1, <2>2
<1>2. IInv => OnlyTornBundlesAreDead
  BY DEF IInv, Torn, OldRoot, Late, OnlyTornBundlesAreDead
<1>3. IInv => OnePassphraseOpens
  BY DEF IInv, Wrapped, OneWrap, OnePassphraseOpens
<1>4. IInv => BackupHolds
  BY <1>1, <1>2, <1>3 DEF BackupHolds
<1>5. QED
  BY <1>4, BackupInvariant, PTL

-----------------------------------------------------------------------------
(* RecoveryRun: the inductive invariant                                    *)

Statuses == {"due", "finished", "skipped"}
DueUnits == With(workLedger, "due")
Finished == With(workLedger, "finished")
Skipped == With(workLedger, "skipped")

RunShapes ==
    /\ workLedger = EmptyLedger \/ workLedger \in [Units -> Statuses]
    /\ account \in {"complete", "unclaimed", "ongoing"}
    /\ late \in Units \union {NoUnit}

\* A run that its gate holds: only its completion leads out.
InRun == Gated(importRun, recoveryRun) /\ place \in {"going", "recovery"}

\* What is done where.
DoneInPlace ==
    /\ doing \in {"markers", "items", "bind"} => place = "import" /\ importRun # "none"
    /\ doing = "bind" => whole
    /\ place = "going" => doing = "idle"
    /\ place = "recovery" => importRun = "completed"
    /\ place = "recovery" /\ doing = "ensuring" => InRun
    /\ doing = "running" => InRun
    /\ report # NoReport => doing = "running"
    /\ doing = "markers" /\ restoring.then = "resume" => recoveryRun = "started"
    /\ doing = "items" /\ restoring.then = "resume" => recoveryRun = "started" \/ outlived # {}

\* The ledger is worked off in order, and only by a run.
LedgerInOrder ==
    /\ Skipped \subseteq Unbuildable \union Refusable
    /\ DueUnits # {} => "complete" \in DueUnits
    /\ Own \in DueUnits => Finished = {}
    /\ DueUnits # {} /\ Finished # {} => InRun

\* The open call is for the next unit.
CallIsNext ==
    /\ report \in [unit : Units \union {NoUnit}, answer : {"none", "ok", "refused", "failed", "mismatch"}]
    /\ report # NoReport => /\ report.unit \in DueUnits
                            /\ \A v \in DueUnits : ~Earlier(v, report.unit)
    /\ report.answer # "none" => report # NoReport
    /\ report.answer = "refused" => report.unit \in Refusable

\* The server takes what this device reports, or a claim on its way will have it so.
Accepting ==
    \/ account # "unclaimed" /\ boundTo = "this"
    \/ late = Own
    \/ report.unit = Own /\ report.answer = "none"

\* A run under way that the server was rebuilt under: it never gets on.
Stale ==
    /\ DueUnits # {} /\ Finished # {} /\ ~Accepting
    /\ ~(report.unit = "complete" /\ report.answer = "ok")

Preceded(u) == \A v \in Units : Earlier(v, u) => v \in told \union Unbuildable \union Refusable

\* What the server was told is what a run it accepts has settled.
ToldIsSettled ==
    /\ account = "unclaimed" => told = {}
    /\ "complete" \in told /\ account = "ongoing" => reopened
    /\ report.answer = "ok" => report.unit \in told \union outlived
    /\ Accepting /\ DueUnits # {} => Finished \subseteq told
    /\ Accepting /\ report.answer = "ok" => report.unit \in told

\* A call given up comes in order too, or not at all; and an account whose
\* recovery goes on has its run, or was reopened.
LateIsHarmless ==
    /\ late \notin {NoUnit, Own} => Preceded(late) \/ Stale
    /\ late = Own => InRun \/ "complete" \in told
    /\ account = "ongoing" /\ boundTo = "this" => InRun \/ reopened

\* Only peers are left for the next pass.
ErredArePeers == erred \subseteq HeldPeers

RunInv ==
    /\ ErredArePeers /\ RunShapes /\ DoneInPlace /\ LedgerInOrder /\ CallIsNext /\ ToldIsSettled /\ LateIsHarmless
    /\ LedgerIsTrue /\ ReportedInOrder /\ OpenRunHasWork /\ NoWayOnOnlyInPlace /\ HalfIsNoAccount

-----------------------------------------------------------------------------
(* RecoveryRun: units and ledgers                                          *)

\* Every unit has its place in the order; the claim is first and the end last.
LEMMA UnitOrder ==
    /\ Own \in Units /\ "complete" \in Units
    /\ Own \notin Unbuildable \union Refusable /\ "complete" \notin Unbuildable \union Refusable
    /\ "complete" \notin HeldPeers \union HeldReeds /\ Own \notin HeldPeers
    /\ Own # "complete" /\ Own # NoUnit /\ "complete" # NoUnit
    /\ \A u \in Units : Stage(u) \in 1 .. 7
    /\ \A u \in HeldPeers : Stage(u) = 3
    /\ \A u \in Units : ~Earlier(u, Own)
    /\ \A u \in Units : u # Own => Earlier(Own, u)
    /\ \A u \in Units : u # "complete" => Earlier(u, "complete")
<1>1. /\ Own \in Units /\ "complete" \in Units
      /\ Own \notin Unbuildable \union Refusable /\ "complete" \notin Unbuildable \union Refusable
      /\ "complete" \notin HeldPeers \union HeldReeds /\ Own \notin HeldPeers
      /\ Own # "complete" /\ Own # NoUnit /\ "complete" # NoUnit
  BY RecoveryRunAssumption DEF Units, FixedUnits, Own, NoUnit
<1>a. /\ "complete" # Own /\ "complete" # "servers" /\ "complete" # "pins"
      /\ "complete" \notin HeldPeers /\ "complete" \notin HeldReeds /\ "complete" \notin RecordPages
      /\ Own # "servers" /\ Own # "pins"
      /\ Own \notin HeldPeers /\ Own \notin HeldReeds /\ Own \notin RecordPages
  BY RecoveryRunAssumption DEF Own, FixedUnits
<1>2. Stage(Own) = 1
  BY <1>a DEF Stage
<1>3. Stage("complete") = 7
  BY <1>a DEF Stage
<1>4. \A u \in Units : u # Own => Stage(u) \in 2 .. 7
  BY DEF Stage
<1>5. \A u \in Units : u # "complete" => Stage(u) \in 1 .. 6
  BY DEF Stage, Units, FixedUnits
<1>6. \A u \in Units : ~Earlier(u, Own)
  BY <1>2, <1>4 DEF Earlier
<1>7. \A u \in Units : u # Own => Earlier(Own, u)
  BY <1>2, <1>4 DEF Earlier
<1>8. \A u \in Units : u # "complete" => Earlier(u, "complete")
  BY <1>3, <1>5 DEF Earlier
<1>9. \A u \in Units : Stage(u) \in 1 .. 7
  BY DEF Stage
<1>10. \A u \in HeldPeers : Stage(u) = 3
  BY RecoveryRunAssumption DEF Stage, FixedUnits
<1> QED
  BY <1>1, <1>6, <1>7, <1>8, <1>9, <1>10

\* An empty ledger has no unit.
LEMMA NoLedger == \A s : With(EmptyLedger, s) = {}
  BY DEF With, EmptyLedger

\* A full one has every unit, in one status.
LEMMA LedgerParts ==
    ASSUME NEW l \in [Units -> Statuses]
    PROVE  /\ l # EmptyLedger /\ DOMAIN l = Units
           /\ \A s : With(l, s) \subseteq Units
           /\ \A u \in Units : u \in With(l, "due") \union With(l, "finished") \union With(l, "skipped")
           /\ With(l, "due") \cap With(l, "finished") = {}
<1>1. DOMAIN l = Units /\ DOMAIN EmptyLedger = {}
  BY DEF EmptyLedger
<1>2. l # EmptyLedger
  BY <1>1, UnitOrder
<1>3. \A s : With(l, s) \subseteq Units
  BY <1>1 DEF With
<1>4. \A u \in Units : u \in With(l, "due") \union With(l, "finished") \union With(l, "skipped")
  BY <1>1 DEF With, Statuses
<1>5. With(l, "due") \cap With(l, "finished") = {}
  BY DEF With
<1> QED
  BY <1>1, <1>2, <1>3, <1>4, <1>5

SettledLedger(l, u, s) == [l EXCEPT ![u] = s]

\* One unit is settled.
LEMMA LedgerSettles ==
    ASSUME NEW l \in [Units -> Statuses], NEW u \in With(l, "due"), NEW s \in {"finished", "skipped"},
           NEW m, m = SettledLedger(l, u, s)
    PROVE  /\ m \in [Units -> Statuses]
           /\ With(m, "due") = With(l, "due") \ {u}
           /\ s = "finished" => With(m, "finished") = With(l, "finished") \union {u}
                                /\ With(m, "skipped") = With(l, "skipped")
           /\ s = "skipped" => With(m, "skipped") = With(l, "skipped") \union {u}
                               /\ With(m, "finished") = With(l, "finished")
<1>1. u \in Units /\ l[u] = "due" /\ DOMAIN l = Units
  BY DEF With
<1>2. m \in [Units -> Statuses] /\ DOMAIN m = Units
  BY <1>1 DEF Statuses, SettledLedger
<1>3. m[u] = s /\ \A v \in Units \ {u} : m[v] = l[v]
  BY <1>1 DEF SettledLedger
<1> QED
  BY <1>1, <1>2, <1>3 DEF With

\* Enumerating again settles nothing but what cannot be built.
LEMMA LedgerMerges ==
    ASSUME NEW l, l = EmptyLedger \/ l \in [Units -> Statuses]
    PROVE  /\ Merged(l) \in [Units -> Statuses]
           /\ With(Merged(l), "finished") = With(l, "finished")
           /\ With(Merged(l), "skipped") \subseteq With(l, "skipped") \union Unbuildable
           /\ l = EmptyLedger => With(Merged(l), "due") = Units \ Unbuildable
           /\ l # EmptyLedger => With(Merged(l), "due") = With(l, "due") \ Unbuildable
<1> DEFINE m == Merged(l)
<1>1. \A u \in Units : Enumerated[u] = IF u \in Unbuildable THEN "skipped" ELSE "due"
  BY DEF Enumerated
<1>2. DOMAIN m = Units
  BY DEF Merged
<1>3. CASE l = EmptyLedger
  <2>1. \A u \in Units : m[u] = IF u \in Unbuildable THEN "skipped" ELSE "due"
    BY <1>1, <1>3 DEF Merged, EmptyLedger
  <2>2. m \in [Units -> Statuses]
    BY <1>1, <1>3 DEF Merged, EmptyLedger, Statuses
  <2> QED
    BY <1>2, <1>3, <2>1, <2>2, NoLedger DEF With
<1>4. CASE l \in [Units -> Statuses]
  <2>1. \A u \in Units : m[u] = IF l[u] # "due" THEN l[u]
                                ELSE IF u \in Unbuildable THEN "skipped" ELSE "due"
    BY <1>1, <1>4 DEF Merged
  <2>2. m \in [Units -> Statuses]
    BY <1>1, <1>4 DEF Merged, Statuses
  <2>3. l # EmptyLedger
    BY <1>4, LedgerParts
  <2>4. With(m, "finished") = With(l, "finished")
    BY <1>2, <1>4, <2>1 DEF With
  <2>5. With(m, "skipped") \subseteq With(l, "skipped") \union Unbuildable
    BY <1>2, <1>4, <2>1 DEF With
  <2>6. With(m, "due") = With(l, "due") \ Unbuildable
    BY <1>2, <1>4, <2>1 DEF With
  <2> QED
    BY <2>2, <2>3, <2>4, <2>5, <2>6
<1> QED
  BY <1>3, <1>4

\* The ledger of a run that came to its end.
LEMMA LedgerOfOld ==
    ASSUME NEW l, l = [u \in Units |-> IF u \in Unbuildable \union Refusable THEN "skipped" ELSE "finished"]
    PROVE  /\ l \in [Units -> Statuses]
           /\ With(l, "due") = {}
           /\ With(l, "finished") = Units \ (Unbuildable \union Refusable)
           /\ With(l, "skipped") \subseteq Unbuildable \union Refusable
<1>1. DOMAIN l = Units /\ \A u \in Units : l[u] = IF u \in Unbuildable \union Refusable THEN "skipped" ELSE "finished"
  OBVIOUS
<1>2. l \in [Units -> Statuses]
  BY DEF Statuses
<1> QED
  BY <1>1, <1>2 DEF With

\* With nothing due, the end was reached.
LEMMA EndIsLast ==
    ASSUME RunShapes, LedgerInOrder, workLedger # EmptyLedger, DueUnits = {}
    PROVE  "complete" \in Finished
<1>1. workLedger \in [Units -> Statuses]
  BY DEF RunShapes
<1>2. "complete" \in DueUnits \union Finished \union Skipped
  BY <1>1, LedgerParts, UnitOrder DEF DueUnits, Finished, Skipped
<1> QED
  BY <1>2, UnitOrder DEF LedgerInOrder

-----------------------------------------------------------------------------
(* RecoveryRun: what a step leaves alone                                   *)

\* What the invariant says of the ledger, the calls and the server.
Reported ==
    /\ RunShapes /\ LedgerInOrder /\ CallIsNext /\ ToldIsSettled /\ LateIsHarmless
    /\ LedgerIsTrue /\ ReportedInOrder

\* What it says of the page, besides.
OnPage == DoneInPlace /\ OpenRunHasWork /\ NoWayOnOnlyInPlace /\ HalfIsNoAccount

\* The invariant, as what the device has reported and the page it is on.
LEMMA RunInvParts == RunInv <=> Reported /\ OnPage /\ ErredArePeers
  BY DEF RunInv, Reported, OnPage

\* The page moves on, and no run is left.
LEMMA PageMoves ==
    ASSUME Reported,
           UNCHANGED <<workLedger, report, late, account, boundTo, told, outlived, reopened>>,
           InRun => InRun'
    PROVE  Reported'
<1>1. RunShapes' /\ CallIsNext' /\ LedgerIsTrue' /\ ReportedInOrder'
  BY DEF Reported, RunShapes, CallIsNext, LedgerIsTrue, ReportedInOrder, DueUnits, Earlier
<1>2. LedgerInOrder'
  BY DEF Reported, LedgerInOrder, DueUnits, Finished, Skipped
<1>3. (Accepting' <=> Accepting) /\ (Stale' <=> Stale)
  BY DEF Accepting, Stale, DueUnits, Finished
<1>4. ToldIsSettled'
  BY <1>3 DEF Reported, ToldIsSettled, DueUnits, Finished
<1>5. LateIsHarmless'
  BY <1>3 DEF Reported, LateIsHarmless, Preceded
<1> QED
  BY <1>1, <1>2, <1>4, <1>5 DEF Reported

\* A ledger is emptied outside of a run, with or without binding the device.
LEMMA LedgerEmptied ==
    ASSUME Reported, ~InRun, report = NoReport,
           workLedger' = EmptyLedger, outlived' = {},
           UNCHANGED <<report, late, account, told>>,
           reopened => reopened',
           boundTo' = boundTo \/ (account = "ongoing" => reopened')
    PROVE  Reported' /\ OpenRunHasWork'
<1>0. DueUnits' = {} /\ Finished' = {} /\ Skipped' = {} /\ DOMAIN workLedger' = {}
  BY NoLedger DEF DueUnits, Finished, Skipped, EmptyLedger
<1>1. ~Stale
  BY DEF Reported, LedgerInOrder, Stale
<1>2. RunShapes' /\ LedgerInOrder' /\ LedgerIsTrue' /\ ReportedInOrder' /\ OpenRunHasWork'
  BY <1>0 DEF Reported, RunShapes, LedgerInOrder, LedgerIsTrue, ReportedInOrder, OpenRunHasWork,
     DueUnits, Finished
<1>3. CallIsNext'
  BY DEF CallIsNext, NoReport
<1>4. ToldIsSettled'
  BY <1>0 DEF Reported, ToldIsSettled, NoReport
<1>5. LateIsHarmless'
  BY <1>1 DEF Reported, LateIsHarmless, Preceded
<1> QED
  BY <1>2, <1>3, <1>4, <1>5 DEF Reported

\* An account the server has going on: a ledger with nothing due is an old
\* one, or the account was reopened.
LEMMA OngoingHasWork ==
    ASSUME Reported, account = "ongoing", workLedger # EmptyLedger, DueUnits = {}
    PROVE  outlived # {} \/ reopened
<1>1. "complete" \in Finished
  BY EndIsLast DEF Reported
<1>2. "complete" \in told \union outlived
  BY <1>1 DEF Reported, LedgerIsTrue, Finished
<1> QED
  BY <1>2 DEF Reported, ToldIsSettled

\* An open run with an empty ledger is none yet.
LEMMA LedgerOpen ==
    ASSUME RunShapes
    PROVE  /\ DOMAIN workLedger # {} <=> workLedger # EmptyLedger
           /\ workLedger # EmptyLedger => workLedger \in [Units -> Statuses] /\ DOMAIN workLedger = Units
<1>1. DOMAIN EmptyLedger = {}
  BY DEF EmptyLedger
<1> QED
  BY <1>1, LedgerParts, UnitOrder DEF RunShapes

\* No call is open but in a run.
LEMMA NoCallOutside ==
    ASSUME DoneInPlace, doing # "running"
    PROVE  report = NoReport
  BY DEF DoneInPlace

\* What is before the unit that is called for was told, in any run that goes on.
LEMMA CallPreceded ==
    ASSUME Reported, report # NoReport, ~Stale, report.answer = "none"
    PROVE  Preceded(report.unit)
<1>1. /\ report.unit \in DueUnits /\ \A v \in DueUnits : ~Earlier(v, report.unit)
      /\ Skipped \subseteq Unbuildable \union Refusable
  BY DEF Reported, CallIsNext, LedgerInOrder
<1>2. \A v \in Units : v \in DueUnits \union Finished \union Skipped
  BY <1>1, LedgerOpen, LedgerParts, NoLedger DEF Reported, DueUnits, Finished, Skipped
<1>3. Finished \subseteq told
  BY <1>1 DEF Reported, ToldIsSettled, Stale
<1> QED
  BY <1>1, <1>2, <1>3 DEF Preceded

-----------------------------------------------------------------------------
(* RecoveryRun: the page                                                   *)

\* A tab that loads.
LEMMA ReloadHolds ==
    ASSUME Reported, OnPage, Reload
    PROVE  Reported' /\ OnPage'
<1>1. /\ UNCHANGED <<workLedger, recoveryRun, whole, inPlace, account, boundTo, told, outlived, reopened>>
      /\ report' = NoReport /\ doing' = "idle"
      /\ late' = late \/ (late' = report.unit /\ report.answer = "none")
  BY DEF Reload, Land
<1>2. InRun => InRun'
  BY DEF Reload, Land, InRun, Gated, IsLoggedIn, InProgress, GateRedirect
<1>3. OnPage'
  <2>1. DoneInPlace'
    BY <1>1 DEF Reload, Land, DoneInPlace, GateRedirect
  <2>2. HalfIsNoAccount'
    BY <1>1 DEF Reload, Land, HalfIsNoAccount, GateRedirect
  <2>3. NoWayOnOnlyInPlace'
    BY <1>1 DEF Reload, Land, OnPage, NoWayOnOnlyInPlace, IsLoggedIn, InProgress
  <2>4. OpenRunHasWork'
    BY <1>1 DEF OnPage, OpenRunHasWork
  <2> QED
    BY <2>1, <2>2, <2>3, <2>4 DEF OnPage
<1>4. RunShapes' /\ CallIsNext' /\ LedgerIsTrue' /\ ReportedInOrder' /\ LedgerInOrder'
  <2>1. late' \in Units \union {NoUnit}
    <3>1. report # NoReport => report.unit \in Units
      BY LedgerOpen, LedgerParts, NoLedger DEF Reported, CallIsNext, DueUnits
    <3> QED
      BY <1>1, <3>1 DEF Reported, RunShapes, NoReport
  <2> QED
    BY <1>1, <1>2, <2>1 DEF Reported, RunShapes, CallIsNext, LedgerIsTrue, ReportedInOrder, LedgerInOrder,
       DueUnits, Finished, Skipped, NoReport
<1>5. Accepting' => Accepting
  BY <1>1, UnitOrder DEF Accepting, NoReport
<1>6. ToldIsSettled'
  BY <1>1, <1>5 DEF Reported, ToldIsSettled, DueUnits, Finished, NoReport
<1>7. CASE report = NoReport
  <2>1. late' = late \/ late' = NoUnit
    BY <1>1, <1>7 DEF NoReport
  <2>2. Stale => Stale'
    BY <1>1, <1>5, UnitOrder DEF Stale, DueUnits, Finished, NoReport
  <2>3. LateIsHarmless'
    BY <1>1, <1>2, <2>1, <2>2, UnitOrder DEF Reported, LateIsHarmless, Preceded
  <2> QED
    BY <1>3, <1>4, <1>6, <2>3 DEF Reported
<1>8. CASE report # NoReport
  <2>1. InRun'
    BY <1>2, <1>8 DEF OnPage, DoneInPlace
  <2>2. Stale => Stale'
    BY <1>1, <1>5, UnitOrder DEF Stale, DueUnits, Finished, NoReport
  <2>3. report.answer = "none" => Preceded(report.unit) \/ Stale'
    BY <1>8, <2>2, CallPreceded
  <2>4. LateIsHarmless'
    BY <1>1, <2>1, <2>2, <2>3 DEF Reported, LateIsHarmless, Preceded
  <2> QED
    BY <1>3, <1>4, <1>6, <2>4 DEF Reported
<1> QED
  BY <1>7, <1>8

\* The import page: what it starts, writes, binds and discards.
LEMMA ImportHolds ==
    ASSUME Reported, OnPage,
           \/ \E file \in {"plain", "recovered"} : StartImport(file)
           \/ WriteMarkers \/ WriteItems \/ BindDevice \/ StepFails \/ CancelImport
    PROVE  Reported' /\ OnPage'
<1>1. /\ DoneInPlace /\ OpenRunHasWork /\ NoWayOnOnlyInPlace /\ HalfIsNoAccount
      /\ doing # "running" /\ report = NoReport
  BY DEF OnPage, DoneInPlace, StartImport, WriteMarkers, WriteItems, BindDevice, StepFails, CancelImport
<1>2. ASSUME NEW file \in {"plain", "recovered"}, StartImport(file)
      PROVE  Reported' /\ OnPage'
  <2>1. /\ place = "import" /\ doing = "idle" /\ place' = "import" /\ doing' = "markers"
        /\ importRun' = "started" /\ whole' = whole /\ ~InRun
        /\ UNCHANGED <<report, late, account, boundTo, told, reopened, inPlace>>
    BY <1>2 DEF StartImport, InRun
  <2>2. restoring'.then = "resume" => account # "complete" /\ recoveryRun = "started"
    BY <1>2 DEF StartImport, UserStatus, InProgress
  <2>3. CASE account = "complete" /\ InProgress(recoveryRun)
    <3>1. recoveryRun' = "none" /\ workLedger' = EmptyLedger /\ outlived' = {}
      BY <1>2, <2>3 DEF StartImport, UserStatus, ClearRecoveryRun
    <3>2. Reported' /\ OpenRunHasWork'
      BY <1>1, <2>1, <3>1, LedgerEmptied
    <3>3. DoneInPlace' /\ NoWayOnOnlyInPlace' /\ HalfIsNoAccount'
      BY <1>1, <2>1, <2>2, <2>3, <3>1 DEF DoneInPlace, NoWayOnOnlyInPlace, HalfIsNoAccount, InProgress
    <3> QED
      BY <3>2, <3>3 DEF OnPage
  <2>4. CASE ~(account = "complete" /\ InProgress(recoveryRun))
    <3>1. UNCHANGED <<recoveryRun, workLedger, outlived>>
      BY <1>2, <2>4 DEF StartImport, UserStatus
    <3>2. Reported'
      BY <2>1, <3>1, PageMoves
    <3>3. DoneInPlace' /\ NoWayOnOnlyInPlace' /\ HalfIsNoAccount' /\ OpenRunHasWork'
      BY <1>1, <2>1, <2>2, <3>1 DEF DoneInPlace, NoWayOnOnlyInPlace, HalfIsNoAccount, OpenRunHasWork
    <3> QED
      BY <3>2, <3>3 DEF OnPage
  <2> QED
    BY <2>3, <2>4
<1>3. CASE WriteMarkers
  <2>1. /\ doing = "markers" /\ place = "import" /\ doing' = "items" /\ importRun # "none" /\ ~InRun
        /\ UNCHANGED <<whole, place, restoring, report, late, account, boundTo, told, reopened, inPlace>>
    BY <1>1, <1>3 DEF WriteMarkers, DoneInPlace, InRun
  <2>2. CASE restoring.file = "recovered"
    <3> DEFINE l == [u \in Units |-> IF u \in Unbuildable \union Refusable THEN "skipped" ELSE "finished"]
    <3>1. /\ importRun' = "completed" /\ recoveryRun' = "completed" /\ workLedger' = l
          /\ outlived' = Units \ (Unbuildable \union Refusable)
      BY <1>3, <2>2 DEF WriteMarkers
    <3>2. /\ l \in [Units -> Statuses] /\ DueUnits' = {} /\ Finished' = outlived'
          /\ Skipped' \subseteq Unbuildable \union Refusable /\ outlived' # {}
      BY <3>1, LedgerOfOld, UnitOrder DEF DueUnits, Finished, Skipped
    <3>3. RunShapes' /\ LedgerInOrder' /\ CallIsNext' /\ LedgerIsTrue' /\ ReportedInOrder'
      BY <1>1, <2>1, <3>1, <3>2 DEF Reported, RunShapes, LedgerInOrder, CallIsNext, LedgerIsTrue,
         ReportedInOrder, DueUnits, Finished, NoReport
    <3>4. ToldIsSettled'
      BY <1>1, <2>1, <3>2 DEF Reported, ToldIsSettled, NoReport
    <3>5. ~Stale
      BY <2>1 DEF Reported, LedgerInOrder, Stale
    <3>6. LateIsHarmless'
      BY <2>1, <3>5 DEF Reported, LateIsHarmless, Preceded
    <3>7. DoneInPlace' /\ NoWayOnOnlyInPlace' /\ HalfIsNoAccount' /\ OpenRunHasWork'
      BY <1>1, <2>1, <3>1, <3>2 DEF DoneInPlace, NoWayOnOnlyInPlace, HalfIsNoAccount, OpenRunHasWork, InProgress
    <3> QED
      BY <3>3, <3>4, <3>6, <3>7 DEF Reported, OnPage
  <2>3. CASE restoring.file # "recovered"
    <3>1. UNCHANGED <<importRun, recoveryRun, workLedger, outlived>>
      BY <1>3, <2>3 DEF WriteMarkers
    <3>2. Reported'
      BY <2>1, <3>1, PageMoves
    <3>3. DoneInPlace' /\ NoWayOnOnlyInPlace' /\ HalfIsNoAccount' /\ OpenRunHasWork'
      BY <1>1, <2>1, <3>1 DEF DoneInPlace, NoWayOnOnlyInPlace, HalfIsNoAccount, OpenRunHasWork
    <3> QED
      BY <3>2, <3>3 DEF OnPage
  <2> QED
    BY <2>2, <2>3
<1>4. CASE WriteItems
  <2>1. /\ doing = "items" /\ place = "import" /\ doing' \in {"bind", "ensuring"} /\ importRun # "none" /\ ~InRun
        /\ whole' = TRUE
        /\ UNCHANGED <<importRun, place, report, late, account, boundTo, told, reopened, inPlace>>
    BY <1>1, <1>4 DEF WriteItems, DoneInPlace, InRun
  <2>2. DoneInPlace' /\ NoWayOnOnlyInPlace' /\ HalfIsNoAccount'
    BY <1>1, <2>1 DEF DoneInPlace, NoWayOnOnlyInPlace, HalfIsNoAccount
  <2>3. CASE restoring.then = "start"
    <3>1. workLedger' = EmptyLedger /\ outlived' = {}
      BY <1>4, <2>3 DEF WriteItems, StartRecoveryRun
    <3>2. Reported' /\ OpenRunHasWork'
      BY <1>1, <2>1, <3>1, LedgerEmptied
    <3> QED
      BY <2>2, <3>2 DEF OnPage
  <2>4. CASE restoring.then = "resume"
    <3>1. UNCHANGED <<workLedger, outlived>>
      BY <1>4, <2>4 DEF WriteItems, ResumeRecoveryRun
    <3>2. Reported'
      BY <2>1, <3>1, PageMoves
    <3>3. recoveryRun = "started" \/ outlived # {}
      BY <1>1, <2>1, <2>4 DEF DoneInPlace
    <3>4. OpenRunHasWork'
      BY <1>1, <2>1, <3>1, <3>3 DEF OpenRunHasWork, InProgress
    <3> QED
      BY <2>2, <3>2, <3>4 DEF OnPage
  <2>5. CASE restoring.then \notin {"start", "resume"}
    <3>1. UNCHANGED <<recoveryRun, workLedger, outlived>>
      BY <1>4, <2>5 DEF WriteItems
    <3>2. Reported'
      BY <2>1, <3>1, PageMoves
    <3>3. OpenRunHasWork'
      BY <1>1, <2>1, <3>1 DEF OpenRunHasWork
    <3> QED
      BY <2>2, <3>2, <3>3 DEF OnPage
  <2> QED
    BY <2>3, <2>4, <2>5
<1>5. CASE BindDevice
  <2>1. /\ doing = "bind" /\ place = "import" /\ whole /\ ~InRun /\ doing' = "idle" /\ place' = "home"
        /\ importRun' = "completed" /\ recoveryRun' = "none" /\ workLedger' = EmptyLedger /\ outlived' = {}
        /\ reopened' = (reopened \/ account = "ongoing")
        /\ UNCHANGED <<whole, report, late, account, told>>
    BY <1>1, <1>5 DEF BindDevice, DoneInPlace, InRun, ClearRecoveryRun
  <2>2. (reopened => reopened') /\ (account = "ongoing" => reopened')
    BY <2>1
  <2>3. Reported' /\ OpenRunHasWork'
    BY <1>1, <2>1, <2>2, LedgerEmptied
  <2>4. DoneInPlace' /\ NoWayOnOnlyInPlace' /\ HalfIsNoAccount'
    BY <1>1, <2>1 DEF DoneInPlace, NoWayOnOnlyInPlace, HalfIsNoAccount, InProgress
  <2> QED
    BY <2>3, <2>4 DEF OnPage
<1>6. CASE StepFails
  <2>1. /\ doing' = "idle"
        /\ UNCHANGED <<importRun, recoveryRun, workLedger, whole, place, report, late, account, boundTo, told,
                       outlived, reopened, inPlace>>
    BY <1>6 DEF StepFails
  <2>2. Reported'
    BY <2>1, PageMoves DEF InRun
  <2>3. DoneInPlace' /\ NoWayOnOnlyInPlace' /\ HalfIsNoAccount' /\ OpenRunHasWork'
    BY <1>1, <2>1 DEF DoneInPlace, NoWayOnOnlyInPlace, HalfIsNoAccount, OpenRunHasWork
  <2> QED
    BY <2>2, <2>3 DEF OnPage
<1>7. CASE CancelImport
  <2>1. /\ place = "import" /\ place' = "import" /\ doing = "idle" /\ doing' = "idle" /\ ~InRun
        /\ recoveryRun' = "none" /\ workLedger' = EmptyLedger /\ outlived' = {}
        /\ UNCHANGED <<report, late, account, boundTo, told, reopened>>
    BY <1>7 DEF CancelImport, InRun, ClearRecoveryRun
  <2>2. Reported' /\ OpenRunHasWork'
    BY <1>1, <2>1, LedgerEmptied
  <2>3. DoneInPlace' /\ NoWayOnOnlyInPlace' /\ HalfIsNoAccount'
    BY <1>1, <2>1 DEF DoneInPlace, NoWayOnOnlyInPlace, HalfIsNoAccount, InProgress
  <2> QED
    BY <2>2, <2>3 DEF OnPage
<1> QED
  BY <1>2, <1>3, <1>4, <1>5, <1>6, <1>7

\* A device that is signed in, and the gate.
LEMMA SignedInHolds ==
    ASSUME Reported, OnPage,
           RecoverInPlace \/ FinishRecoveryForbidden \/ DeviceMismatch \/ MountRecovery
    PROVE  Reported' /\ OnPage'
<1>1. /\ DoneInPlace /\ OpenRunHasWork /\ NoWayOnOnlyInPlace /\ HalfIsNoAccount
      /\ doing = "idle" /\ report = NoReport
  BY DEF OnPage, DoneInPlace, RecoverInPlace, FinishRecoveryForbidden, DeviceMismatch, MountRecovery
<1>2. CASE RecoverInPlace
  <2>1. /\ place = "home" /\ place' = "home" /\ doing' \in {"idle", "ensuring"} /\ whole /\ ~InRun
        /\ inPlace' = (UserStatus # "complete" \/ inPlace)
        /\ UNCHANGED <<importRun, whole, report, late, account, boundTo, told, reopened>>
    BY <1>2 DEF RecoverInPlace, InRun
  <2>2. DoneInPlace' /\ HalfIsNoAccount'
    BY <1>1, <2>1 DEF DoneInPlace, HalfIsNoAccount
  <2>3. CASE account = "unclaimed"
    <3>1. workLedger' = EmptyLedger /\ outlived' = {}
      BY <1>2, <2>3 DEF RecoverInPlace, UserStatus, StartRecoveryRun
    <3>2. Reported' /\ OpenRunHasWork'
      BY <1>1, <2>1, <3>1, LedgerEmptied
    <3>3. NoWayOnOnlyInPlace'
      BY <2>1, <2>3 DEF NoWayOnOnlyInPlace, UserStatus
    <3> QED
      BY <2>2, <3>2, <3>3 DEF OnPage
  <2>4. CASE account = "ongoing"
    <3>1. UNCHANGED <<workLedger, outlived>>
      BY <1>2, <2>4 DEF RecoverInPlace, UserStatus, ResumeRecoveryRun
    <3>2. Reported'
      BY <2>1, <3>1, PageMoves
    <3>3. OpenRunHasWork'
      BY <2>1, <2>4, <3>1, OngoingHasWork, LedgerOpen DEF OpenRunHasWork, Reported, DueUnits
    <3>4. NoWayOnOnlyInPlace'
      BY <2>1, <2>4 DEF NoWayOnOnlyInPlace, UserStatus
    <3> QED
      BY <2>2, <3>2, <3>3, <3>4 DEF OnPage
  <2>5. CASE account \notin {"unclaimed", "ongoing"}
    <3>1. UNCHANGED <<recoveryRun, workLedger, outlived>>
      BY <1>2, <2>5 DEF RecoverInPlace, UserStatus
    <3>2. Reported'
      BY <2>1, <3>1, PageMoves
    <3>3. OpenRunHasWork' /\ NoWayOnOnlyInPlace'
      BY <1>1, <2>1, <3>1 DEF OpenRunHasWork, NoWayOnOnlyInPlace
    <3> QED
      BY <2>2, <3>2, <3>3 DEF OnPage
  <2> QED
    BY <2>3, <2>4, <2>5
<1>3. CASE FinishRecoveryForbidden
  <2>1. /\ place = "home" /\ place' = "going" /\ account = "ongoing" /\ importRun = "completed" /\ ~InRun
        /\ UNCHANGED <<doing, importRun, whole, workLedger, outlived, report, late, account, boundTo, told,
                       reopened>>
    BY <1>3 DEF FinishRecoveryForbidden, ImportGated, ResumeRecoveryRun, InRun
  <2>2. Reported'
    BY <2>1, PageMoves
  <2>3. OpenRunHasWork'
    BY <2>1, OngoingHasWork, LedgerOpen DEF OpenRunHasWork, Reported, DueUnits
  <2>4. DoneInPlace' /\ HalfIsNoAccount' /\ NoWayOnOnlyInPlace'
    BY <1>1, <2>1 DEF DoneInPlace, HalfIsNoAccount, NoWayOnOnlyInPlace
  <2> QED
    BY <2>2, <2>3, <2>4 DEF OnPage
<1>4. CASE DeviceMismatch
  <2>1. /\ place = "home" /\ place' = "import" /\ ~InRun
        /\ UNCHANGED <<doing, importRun, recoveryRun, whole, workLedger, outlived, report, late, account, boundTo,
                       told, reopened, inPlace>>
    BY <1>4 DEF DeviceMismatch, InRun
  <2>2. Reported'
    BY <2>1, PageMoves
  <2>3. DoneInPlace' /\ HalfIsNoAccount' /\ NoWayOnOnlyInPlace' /\ OpenRunHasWork'
    BY <1>1, <2>1 DEF DoneInPlace, HalfIsNoAccount, NoWayOnOnlyInPlace, OpenRunHasWork
  <2> QED
    BY <2>2, <2>3 DEF OnPage
<1>5. CASE MountRecovery
  <2>1. /\ place = "going"
        /\ UNCHANGED <<importRun, recoveryRun, whole, workLedger, outlived, report, late, account, boundTo,
                       told, reopened, inPlace>>
    BY <1>5 DEF MountRecovery
  <2>2. /\ place' \in {"home", "import", "recovery"} /\ doing' \in {"idle", "ensuring"}
        /\ place' = "home" => whole
        /\ place' = "recovery" => importRun = "completed"
        /\ Gated(importRun, recoveryRun) => place' = "recovery"
        /\ doing' = "ensuring" => Gated(importRun, recoveryRun)
    BY <1>5 DEF MountRecovery, Gated, IsLoggedIn, InProgress
  <2>3. Reported'
    BY <2>1, <2>2, PageMoves DEF InRun
  <2>4. DoneInPlace' /\ HalfIsNoAccount' /\ NoWayOnOnlyInPlace' /\ OpenRunHasWork'
    BY <1>1, <2>1, <2>2 DEF DoneInPlace, HalfIsNoAccount, NoWayOnOnlyInPlace, OpenRunHasWork, InRun
  <2> QED
    BY <2>3, <2>4 DEF OnPage
<1> QED
  BY <1>2, <1>3, <1>4, <1>5

\* The ledger is filled.
LEMMA EnsureHolds ==
    ASSUME Reported, OnPage, EnsureProgress
    PROVE  Reported' /\ OnPage'
<1>1. /\ DoneInPlace /\ OpenRunHasWork /\ NoWayOnOnlyInPlace /\ HalfIsNoAccount
      /\ report = NoReport /\ place # "going" /\ (place = "recovery" => InRun)
  BY DEF OnPage, DoneInPlace, EnsureProgress
<1>2. /\ workLedger' = Merged(workLedger)
      /\ importRun' = IF place = "import" THEN "completed" ELSE importRun
      /\ doing' = IF place = "recovery" THEN "running" ELSE "idle"
      /\ place' = IF place = "recovery" THEN place ELSE "going"
      /\ inPlace' = (inPlace /\ place # "import")
      /\ UNCHANGED <<recoveryRun, whole, report, late, account, boundTo, told, outlived, reopened>>
  BY DEF EnsureProgress
<1>3. /\ workLedger' \in [Units -> Statuses]
      /\ Finished' = Finished
      /\ Skipped' \subseteq Skipped \union Unbuildable
      /\ workLedger = EmptyLedger => DueUnits' = Units \ Unbuildable /\ Finished = {}
      /\ workLedger # EmptyLedger => DueUnits' = DueUnits \ Unbuildable
  BY <1>2, LedgerMerges, NoLedger DEF Reported, RunShapes, DueUnits, Finished, Skipped
<1>4. InRun => InRun'
  BY <1>1, <1>2 DEF InRun, Gated
<1>5. DueUnits # {} => "complete" \in DueUnits'
  BY <1>3, UnitOrder, NoLedger DEF Reported, LedgerInOrder, DueUnits
<1>6. DueUnits' # {} /\ Finished' # {} => DueUnits # {} /\ Finished # {}
  BY <1>3
<1>7. RunShapes' /\ LedgerIsTrue' /\ ReportedInOrder'
  BY <1>2, <1>3 DEF Reported, RunShapes, LedgerIsTrue, ReportedInOrder, Finished
<1>8. LedgerInOrder'
  <2>1. DueUnits' # {} => "complete" \in DueUnits'
    BY <1>3, UnitOrder DEF Reported, LedgerInOrder
  <2> QED
    BY <1>3, <1>4, <1>6, <2>1 DEF Reported, LedgerInOrder
<1>9. CallIsNext'
  BY <1>1, <1>2 DEF CallIsNext, NoReport
<1>10. Accepting' <=> Accepting
  BY <1>2 DEF Accepting
<1>11. ToldIsSettled'
  BY <1>1, <1>2, <1>3, <1>6, <1>10 DEF Reported, ToldIsSettled, NoReport
<1>12. Stale => Stale'
  BY <1>2, <1>3, <1>5, <1>10 DEF Stale
<1>13. LateIsHarmless'
  BY <1>2, <1>4, <1>12 DEF Reported, LateIsHarmless, Preceded
<1>14. DoneInPlace' /\ HalfIsNoAccount' /\ NoWayOnOnlyInPlace'
  BY <1>1, <1>2, <1>4 DEF DoneInPlace, HalfIsNoAccount, NoWayOnOnlyInPlace
<1>15. OpenRunHasWork'
  <2>1. DueUnits' = {} => workLedger # EmptyLedger /\ DueUnits = {}
    BY <1>3, <1>5, UnitOrder
  <2> QED
    BY <1>1, <1>2, <2>1, LedgerOpen DEF OpenRunHasWork, DueUnits, Reported
<1> QED
  BY <1>7, <1>8, <1>9, <1>11, <1>13, <1>14, <1>15 DEF Reported, OnPage

\* The runner calls, or its pass ends.
LEMMA RunnerHolds ==
    ASSUME Reported, OnPage, ErredArePeers,
           (\E u \in Units : CallNext(u)) \/ PassEnds \/ Retry
    PROVE  Reported' /\ OnPage'
<1>1. DoneInPlace /\ OpenRunHasWork /\ NoWayOnOnlyInPlace /\ HalfIsNoAccount
  BY DEF OnPage
<1>2. ASSUME NEW u \in Units, CallNext(u)
      PROVE  Reported' /\ OnPage'
  <2>1. /\ doing = "running" /\ report = NoReport /\ report' = [unit |-> u, answer |-> Opens(u)]
        /\ u \in Due /\ \A v \in Due : ~Earlier(v, u)
        /\ Stage(u) <= 3 \/ erred = {}
        /\ UNCHANGED <<importRun, recoveryRun, workLedger, whole, place, doing, restoring, late, account, boundTo,
                       told, outlived, reopened, inPlace>>
    BY <1>2 DEF CallNext
  <2>2. report'.unit = u /\ report'.answer \in {"none", "failed"}
    BY <2>1 DEF Opens, ClaimOpens, PeerOpens
  <2>3. u \in DueUnits /\ \A v \in DueUnits : ~Earlier(v, u)
    <3>1. u \in DueUnits
      BY <2>1 DEF Due, DueUnits
    <3>2. ASSUME NEW v \in DueUnits, Earlier(v, u)
          PROVE  FALSE
      <4>1. v \in erred
        BY <2>1, <3>2 DEF Due, DueUnits
      <4>2. Stage(v) = 3
        BY <4>1, UnitOrder DEF ErredArePeers
      <4> QED
        BY <2>1, <3>2, <4>1, <4>2, UnitOrder DEF Earlier
    <3> QED
      BY <3>1, <3>2
  <2>4. RunShapes' /\ LedgerInOrder' /\ LedgerIsTrue' /\ ReportedInOrder'
    BY <2>1 DEF Reported, RunShapes, LedgerInOrder, LedgerIsTrue, ReportedInOrder, DueUnits, Finished,
       Skipped, InRun
  <2>5. CallIsNext'
    BY <2>1, <2>2, <2>3 DEF Reported, CallIsNext, DueUnits
  <2>6. u = Own => Finished = {}
    BY <2>3 DEF Reported, LedgerInOrder
  <2>7. u # Own => (Accepting' <=> Accepting)
    BY <2>1, <2>2, UnitOrder DEF Accepting, NoReport
  <2>8. ToldIsSettled'
    BY <2>1, <2>2, <2>6, <2>7 DEF Reported, ToldIsSettled, DueUnits, Finished
  <2>9. Stale => Stale'
    BY <2>1, <2>2, <2>6, <2>7 DEF Stale, DueUnits, Finished
  <2>10. LateIsHarmless'
    BY <2>1, <2>9 DEF Reported, LateIsHarmless, Preceded, InRun
  <2>11. OnPage'
    BY <1>1, <2>1 DEF OnPage, DoneInPlace, HalfIsNoAccount, NoWayOnOnlyInPlace, OpenRunHasWork, InRun
  <2> QED
    BY <2>4, <2>5, <2>8, <2>10, <2>11 DEF Reported
<1>3. CASE PassEnds
  <2>1. /\ doing' = "idle" /\ report = NoReport
        /\ UNCHANGED <<importRun, recoveryRun, workLedger, whole, place, report, late, account, boundTo,
                       told, outlived, reopened, inPlace>>
    BY <1>3 DEF PassEnds
  <2>2. Reported'
    BY <2>1, PageMoves DEF InRun
  <2>3. OnPage'
    BY <1>1, <2>1 DEF OnPage, DoneInPlace, HalfIsNoAccount, NoWayOnOnlyInPlace, OpenRunHasWork, InRun
  <2> QED
    BY <2>2, <2>3
<1>4. CASE Retry
  <2>1. /\ doing = "idle" /\ doing' = "running" /\ place = "recovery" /\ InProgress(recoveryRun)
        /\ UNCHANGED <<importRun, recoveryRun, workLedger, whole, place, report, late, account, boundTo,
                       told, outlived, reopened, inPlace>>
    BY <1>4 DEF Retry
  <2>2. Reported'
    BY <2>1, PageMoves DEF InRun
  <2>3. InRun'
    BY <1>1, <2>1 DEF DoneInPlace, InRun, Gated
  <2>4. OnPage'
    BY <1>1, <2>1, <2>3 DEF OnPage, DoneInPlace, HalfIsNoAccount, NoWayOnOnlyInPlace, OpenRunHasWork
  <2> QED
    BY <2>2, <2>4
<1> QED
  BY <1>2, <1>3, <1>4

\* A call that is over makes the server take nothing it would not have taken.
LEMMA CallOver ==
    ASSUME report' = NoReport, UNCHANGED <<account, boundTo>>,
           late' = late \/ (late' = report.unit /\ report.answer = "none")
    PROVE  Accepting' => Accepting
  BY UnitOrder DEF Accepting, NoReport

\* The runner hears of its call, or gives it up: a failure.
LEMMA FailHolds ==
    ASSUME Reported, OnPage, report # NoReport, report' = NoReport, NEW mismatch, Fail(report.unit, mismatch),
           UNCHANGED <<importRun, whole, place, restoring, account, boundTo, told, outlived, reopened, inPlace>>,
           late' = late \/ (late' = report.unit /\ report.answer = "none")
    PROVE  Reported' /\ OnPage'
<1>1. /\ DoneInPlace /\ OpenRunHasWork /\ NoWayOnOnlyInPlace /\ HalfIsNoAccount
      /\ doing = "running" /\ InRun /\ place \in {"going", "recovery"}
  BY DEF OnPage, DoneInPlace, InRun
<1>2. UNCHANGED <<workLedger, recoveryRun>> /\ doing' \in {"running", "idle"} /\ InRun'
  BY <1>1 DEF Fail, InRun
<1>3. OnPage'
  BY <1>1, <1>2 DEF OnPage, DoneInPlace, HalfIsNoAccount, NoWayOnOnlyInPlace, OpenRunHasWork
<1>4. report.unit \in Units
  BY LedgerOpen, LedgerParts, NoLedger DEF Reported, CallIsNext, DueUnits
<1>5. RunShapes' /\ CallIsNext' /\ LedgerIsTrue' /\ ReportedInOrder' /\ LedgerInOrder'
  BY <1>2, <1>4 DEF Reported, RunShapes, CallIsNext, LedgerIsTrue, ReportedInOrder, LedgerInOrder,
     DueUnits, Finished, Skipped, NoReport
<1>6. Accepting' => Accepting
  BY CallOver
<1>7. ToldIsSettled'
  BY <1>2, <1>6 DEF Reported, ToldIsSettled, DueUnits, Finished, NoReport
<1>8. Stale => Stale'
  BY <1>2, <1>6, UnitOrder DEF Stale, DueUnits, Finished, NoReport
<1>9. report.answer = "none" => Preceded(report.unit) \/ Stale'
  BY <1>8, CallPreceded
<1>10. LateIsHarmless'
  BY <1>2, <1>8, <1>9 DEF Reported, LateIsHarmless, Preceded
<1> QED
  BY <1>3, <1>5, <1>7, <1>10 DEF Reported

\* A unit is settled.
LEMMA SettleHolds ==
    ASSUME Reported, OnPage, report # NoReport, report' = NoReport,
           NEW u, u = report.unit, NEW status, Settle(u, status),
           \/ status = "finished" /\ report.answer = "ok"
           \/ status = "skipped" /\ report.answer = "refused" /\ u \in HeldPeers \union HeldReeds,
           UNCHANGED <<importRun, whole, place, restoring, late, account, boundTo, told, outlived, reopened, inPlace>>
    PROVE  Reported' /\ OnPage'
<1>1. /\ DoneInPlace /\ OpenRunHasWork /\ NoWayOnOnlyInPlace /\ HalfIsNoAccount
      /\ doing = "running" /\ InRun /\ place \in {"going", "recovery"}
  BY DEF OnPage, DoneInPlace, InRun
<1>2. u \in DueUnits /\ \A v \in DueUnits : ~Earlier(v, u)
  BY DEF Reported, CallIsNext
<1>3. workLedger \in [Units -> Statuses] /\ u \in Units
  BY <1>2, LedgerParts, NoLedger DEF Reported, RunShapes, DueUnits
<1>4. workLedger' = [workLedger EXCEPT ![u] = status]
  BY DEF Settle
<1>5. /\ workLedger' \in [Units -> Statuses]
      /\ DueUnits' = DueUnits \ {u}
      /\ status = "finished" => Finished' = Finished \union {u} /\ Skipped' = Skipped
      /\ status = "skipped" => Skipped' = Skipped \union {u} /\ Finished' = Finished
  <2>1. status \in {"finished", "skipped"} /\ u \in With(workLedger, "due")
    BY <1>2 DEF DueUnits
  <2>2. PICK m : m = workLedger'
    OBVIOUS
  <2>3. PICK l : l = workLedger
    OBVIOUS
  <2>4. m = SettledLedger(l, u, status) /\ l \in [Units -> Statuses] /\ u \in With(l, "due")
    BY <1>3, <1>4, <2>1, <2>2, <2>3 DEF SettledLedger
  <2>5. /\ m \in [Units -> Statuses]
        /\ With(m, "due") = With(l, "due") \ {u}
        /\ status = "finished" => With(m, "finished") = With(l, "finished") \union {u}
                                  /\ With(m, "skipped") = With(l, "skipped")
        /\ status = "skipped" => With(m, "skipped") = With(l, "skipped") \union {u}
                                 /\ With(m, "finished") = With(l, "finished")
    <3>1. CASE status = "finished"
      BY <2>4, <3>1, LedgerSettles
    <3>2. CASE status = "skipped"
      BY <2>4, <3>2, LedgerSettles
    <3> QED
      BY <2>1, <3>1, <3>2
  <2>6. /\ DueUnits = With(l, "due") /\ Finished = With(l, "finished") /\ Skipped = With(l, "skipped")
        /\ DueUnits' = With(m, "due") /\ Finished' = With(m, "finished") /\ Skipped' = With(m, "skipped")
    BY <2>2, <2>3 DEF DueUnits, Finished, Skipped, With
  <2> QED
    BY <2>2, <2>5, <2>6
<1>6. u # "complete" => "complete" \in DueUnits' /\ InRun' /\ UNCHANGED <<recoveryRun, doing>>
  BY <1>1, <1>2, <1>5 DEF Reported, LedgerInOrder, Settle, InRun
<1>7. u = "complete" => /\ DueUnits' = {} /\ recoveryRun' = "completed" /\ doing' = "idle"
                        /\ status = "finished"
  <2> SUFFICES ASSUME u = "complete"
               PROVE  DueUnits' = {} /\ recoveryRun' = "completed" /\ doing' = "idle" /\ status = "finished"
    OBVIOUS
  <2>1. DueUnits \subseteq Units
    BY <1>3, LedgerParts DEF DueUnits
  <2>2. DueUnits \subseteq {u}
    BY <1>2, <2>1, UnitOrder
  <2> QED
    BY <1>5, <2>2, UnitOrder DEF Settle
<1>8. OnPage'
  <2>1. CASE u = "complete"
    BY <1>1, <1>7, <2>1 DEF OnPage, DoneInPlace, HalfIsNoAccount, NoWayOnOnlyInPlace, OpenRunHasWork, InProgress
  <2>2. CASE u # "complete"
    <3>1. DoneInPlace' /\ HalfIsNoAccount' /\ NoWayOnOnlyInPlace'
      BY <1>1, <1>6, <2>2 DEF DoneInPlace, HalfIsNoAccount, NoWayOnOnlyInPlace
    <3>2. OpenRunHasWork'
      BY <1>6, <2>2 DEF OpenRunHasWork, DueUnits
    <3> QED
      BY <3>1, <3>2 DEF OnPage
  <2> QED
    BY <2>1, <2>2
<1>9. (Accepting' => Accepting) /\ report'.answer = "none" /\ report'.unit = NoUnit
  BY CallOver DEF NoReport
<1>10. RunShapes' /\ CallIsNext' /\ ReportedInOrder'
  BY <1>5, <1>9 DEF Reported, RunShapes, CallIsNext, ReportedInOrder, NoReport
<1>11. Own \in DueUnits' => Finished' = {}
  BY <1>2, <1>3, <1>5, UnitOrder DEF Reported, LedgerInOrder
<1>12. LedgerInOrder'
  <2>1. Skipped' \subseteq Unbuildable \union Refusable
    BY <1>5 DEF Reported, LedgerInOrder, CallIsNext
  <2> QED
    BY <1>6, <1>7, <1>11, <2>1 DEF LedgerInOrder
<1>13. LedgerIsTrue'
  BY <1>5 DEF Reported, LedgerIsTrue, ToldIsSettled, Finished
<1>14. ToldIsSettled'
  <2>1. Accepting' /\ DueUnits' # {} => Finished' \subseteq told'
    BY <1>2, <1>5, <1>9 DEF Reported, ToldIsSettled
  <2> QED
    BY <1>9, <2>1 DEF Reported, ToldIsSettled
<1>15. LateIsHarmless'
  <2>1. CASE u = "complete"
    <3>1. ~Stale
      BY <1>7, <2>1 DEF Stale
    <3>2. Accepting => "complete" \in told
      BY <1>7, <2>1 DEF Reported, ToldIsSettled
    <3>3. late = Own => "complete" \in told
      BY <3>2 DEF Accepting
    <3>4. account = "ongoing" /\ boundTo = "this" => reopened
      BY <3>2 DEF Accepting, Reported, ToldIsSettled
    <3> QED
      BY <3>1, <3>3, <3>4 DEF Reported, LateIsHarmless, Preceded
  <2>2. CASE u # "complete"
    <3>1. Stale => Stale'
      BY <1>5, <1>6, <1>9, <2>2 DEF Stale
    <3> QED
      BY <1>6, <2>2, <3>1 DEF Reported, LateIsHarmless, Preceded
  <2> QED
    BY <2>1, <2>2
<1> QED
  BY <1>8, <1>10, <1>12, <1>13, <1>14, <1>15 DEF Reported

\* The runner hears of its call, or not.
LEMMA AnswerHolds ==
    ASSUME Reported, OnPage, Answered \/ AnswerLost
    PROVE  Reported' /\ OnPage'
<1>1. CASE Answered
  <2>1. report # NoReport /\ report' = NoReport /\ report.answer # "none"
    BY <1>1 DEF Answered, NoReport
  <2>2. UNCHANGED <<importRun, whole, place, restoring, late, account, boundTo, told, outlived, reopened, inPlace>>
    BY <1>1 DEF Answered
  <2>3. CASE report.answer = "ok"
    <3>1. Settle(report.unit, "finished")
      BY <1>1, <2>3 DEF Answered
    <3> QED
      BY <2>1, <2>2, <2>3, <3>1, SettleHolds
  <2>4. CASE report.answer = "refused" /\ report.unit \in HeldPeers \union HeldReeds
    <3>1. Settle(report.unit, "skipped")
      BY <1>1, <2>4 DEF Answered
    <3> QED
      BY <2>1, <2>2, <2>4, <3>1, SettleHolds
  <2>5. CASE report.answer # "ok" /\ ~(report.answer = "refused" /\ report.unit \in HeldPeers \union HeldReeds)
    <3>1. Fail(report.unit, report.answer = "mismatch")
      BY <1>1, <2>5 DEF Answered
    <3> QED
      BY <2>1, <2>2, <3>1, FailHolds
  <2> QED
    BY <2>3, <2>4, <2>5
<1>2. CASE AnswerLost
  <2>1. /\ report # NoReport /\ report' = NoReport /\ Fail(report.unit, FALSE)
        /\ late' = late \/ (late' = report.unit /\ report.answer = "none")
        /\ UNCHANGED <<importRun, whole, place, restoring, account, boundTo, told, outlived, reopened, inPlace>>
    BY <1>2 DEF AnswerLost
  <2> QED
    BY <2>1, FailHolds
<1> QED
  BY <1>1, <1>2

-----------------------------------------------------------------------------
(* RecoveryRun: the server                                                 *)

\* What handling a call does.
LEMMA HandleServer ==
    ASSUME RunShapes, ToldIsSettled, ReportedInOrder, NEW u \in Units, Handle(u),
           u # Own /\ Turned = "ok" => Preceded(u)
    PROVE  /\ told \subseteq told' /\ ReportedInOrder'
           /\ account' \in {"complete", "unclaimed", "ongoing"}
           /\ account' = "unclaimed" => told' = {}
           /\ "complete" \in told' /\ account' = "ongoing" => reopened'
           /\ reopened => reopened'
           /\ u # Own => /\ boundTo' = boundTo
                         /\ account' = account \/ (account # "unclaimed" /\ account' = "complete")
           /\ u = Own /\ "complete" \in told => reopened'
           /\ AnswerTo(u) = "ok" => u \in told'
           /\ AnswerTo(u) = "ok" /\ u # Own => account # "unclaimed" /\ boundTo = "this"
           /\ AnswerTo(u) = "refused" => u \in Refusable
           /\ AnswerTo(u) \in {"ok", "refused", "failed", "mismatch"}
<1>1. Turned \in {"failed", "mismatch", "ok"} /\ (Turned = "ok" <=> account # "unclaimed" /\ boundTo = "this")
  BY DEF Turned
<1>2. /\ u = Own => AnswerTo(u) = "ok"
      /\ u # Own /\ Turned = "ok" /\ u \in Refusable => AnswerTo(u) = "refused"
      /\ u # Own /\ ~(Turned = "ok" /\ u \in Refusable) => AnswerTo(u) = Turned
  <2>1. CASE u = Own
    <3>1. Own \notin Refusable
      BY RecoveryRunAssumption DEF FixedUnits
    <3> QED
      BY <2>1, <3>1 DEF AnswerTo
  <2>2. CASE u # Own /\ Turned = "ok" /\ u \in Refusable
    BY <2>2 DEF AnswerTo
  <2>3. CASE u # Own /\ ~(Turned = "ok" /\ u \in Refusable)
    BY <2>3 DEF AnswerTo
  <2> QED
    BY <2>1, <2>2, <2>3
<1>3. told' = told \/ (told' = told \union {u} /\ (u = Own \/ Turned = "ok"))
  BY DEF Handle, HandleClaim, HandleUnit, HandleComplete
<1>4. ReportedInOrder'
  <2> SUFFICES ASSUME NEW w \in told', NEW v \in Units, Earlier(v, w)
               PROVE  v \in told' \union Unbuildable \union Refusable
    BY DEF ReportedInOrder, Earlier
  <2>1. CASE w \in told
    BY <1>3, <2>1 DEF ReportedInOrder
  <2>2. CASE w \notin told
    <3>1. w = u /\ (u = Own \/ Turned = "ok")
      BY <1>3, <2>2
    <3>2. u # Own
      BY <3>1, UnitOrder
    <3> QED
      BY <1>3, <3>1, <3>2 DEF Preceded
  <2> QED
    BY <2>1, <2>2
<1>5. CASE u = Own
  <2>1. /\ told' = told \union {u} /\ account' = "ongoing"
        /\ reopened' = (reopened \/ account = "complete")
    BY <1>5, UnitOrder DEF Handle, HandleClaim, HandleUnit, HandleComplete
  <2>2. "complete" \in told => reopened'
    BY <2>1 DEF RunShapes, ToldIsSettled
  <2> QED
    BY <1>2, <1>4, <1>5, <2>1, <2>2, UnitOrder
<1>6. CASE u \notin {Own, "complete"}
  <2>1. /\ told' = IF Turned = "ok" /\ u \notin Refusable THEN told \union {u} ELSE told
        /\ UNCHANGED <<account, boundTo, reopened>>
    BY <1>6 DEF Handle, HandleClaim, HandleUnit, HandleComplete
  <2>2. account' = "unclaimed" => told' = {}
    BY <1>1, <2>1 DEF ToldIsSettled
  <2>3. "complete" \in told' /\ account' = "ongoing" => reopened'
    BY <1>6, <2>1 DEF ToldIsSettled
  <2>4. AnswerTo(u) = "ok" => u \in told' /\ Turned = "ok"
    BY <1>1, <1>2, <1>6, <2>1
  <2>5. AnswerTo(u) = "refused" => u \in Refusable
    BY <1>1, <1>2, <1>6
  <2> QED
    BY <1>1, <1>2, <1>3, <1>4, <1>6, <2>1, <2>2, <2>3, <2>4, <2>5 DEF RunShapes
<1>7. CASE u = "complete"
  <2>1. /\ told' = IF Turned = "ok" THEN told \union {u} ELSE told
        /\ account' = IF Turned = "ok" THEN "complete" ELSE account
        /\ UNCHANGED <<boundTo, reopened>>
    BY <1>7, UnitOrder DEF Handle, HandleClaim, HandleUnit, HandleComplete
  <2>2. account' = "unclaimed" => told' = {}
    BY <1>1, <2>1 DEF ToldIsSettled
  <2>3. "complete" \in told' /\ account' = "ongoing" => reopened'
    BY <1>1, <2>1 DEF ToldIsSettled
  <2>4. AnswerTo(u) = "ok" => u \in told' /\ Turned = "ok"
    BY <1>1, <1>2, <1>7, <2>1, UnitOrder
  <2>5. AnswerTo(u) # "refused" /\ u # Own
    BY <1>1, <1>2, <1>7, UnitOrder
  <2> QED
    BY <1>1, <1>2, <1>3, <1>4, <1>7, <2>1, <2>2, <2>3, <2>4, <2>5 DEF RunShapes
<1> QED
  BY <1>5, <1>6, <1>7

\* The server hears a call, in time or late.
LEMMA HandleHolds ==
    ASSUME Reported, OnPage, HandleReport \/ HandleLate
    PROVE  Reported' /\ OnPage'
<1>1. /\ UNCHANGED <<importRun, recoveryRun, workLedger, whole, place, doing, restoring, outlived, inPlace>>
      /\ (InRun' <=> InRun) /\ DueUnits' = DueUnits /\ Finished' = Finished /\ Skipped' = Skipped
  BY DEF HandleReport, HandleLate, deviceVars, InRun, DueUnits, Finished, Skipped
<1>2. DoneInPlace /\ OpenRunHasWork /\ NoWayOnOnlyInPlace /\ HalfIsNoAccount
  BY DEF OnPage
<1>3. Turned = "ok" => Accepting
  BY DEF Turned, Accepting
<1>4. CASE HandleReport
  <2>1. /\ report # NoReport /\ report.answer = "none" /\ Handle(report.unit)
        /\ report' = [report EXCEPT !.answer = AnswerTo(report.unit)]
        /\ late' = late /\ InRun /\ doing = "running"
    BY <1>2, <1>4 DEF HandleReport, DoneInPlace
  <2>2. PICK u \in Units : u = report.unit /\ u \in DueUnits /\ \A v \in DueUnits : ~Earlier(v, u)
    BY <2>1, LedgerParts, NoLedger DEF Reported, RunShapes, CallIsNext, DueUnits
  <2>3. report'.unit = u /\ report'.answer = AnswerTo(u)
    BY <2>1, <2>2 DEF Reported, CallIsNext
  <2>4. u # Own /\ Turned = "ok" => Preceded(u)
    BY <1>3, <2>1, <2>2, CallPreceded DEF Stale
  <2>5. /\ told \subseteq told' /\ ReportedInOrder'
        /\ account' \in {"complete", "unclaimed", "ongoing"}
        /\ account' = "unclaimed" => told' = {}
        /\ "complete" \in told' /\ account' = "ongoing" => reopened'
        /\ reopened => reopened'
        /\ u # Own => /\ boundTo' = boundTo
                      /\ account' = account \/ (account # "unclaimed" /\ account' = "complete")
        /\ AnswerTo(u) = "ok" => u \in told'
        /\ AnswerTo(u) = "ok" /\ u # Own => account # "unclaimed" /\ boundTo = "this"
        /\ AnswerTo(u) = "refused" => u \in Refusable
        /\ AnswerTo(u) \in {"ok", "refused", "failed", "mismatch"}
    <3>1. Handle(u)
      BY <2>1, <2>2
    <3> HIDE <2>2
    <3> QED
      BY <2>4, <3>1, HandleServer DEF Reported
  <2>6. Accepting' => Accepting
    BY <2>1, <2>2, <2>3, <2>5 DEF Accepting
  <2>7. CallIsNext'
    <3>1. report' \in [unit : Units \union {NoUnit}, answer : {"none", "ok", "refused", "failed", "mismatch"}]
      BY <2>1, <2>5, <2>2 DEF Reported, CallIsNext
    <3>2. report' # NoReport
      BY <2>3, <2>5 DEF NoReport
    <3> QED
      BY <1>1, <2>2, <2>3, <2>5, <3>1, <3>2 DEF CallIsNext, Earlier, Stage
  <2>8. ToldIsSettled'
    BY <1>1, <2>3, <2>5, <2>6 DEF Reported, ToldIsSettled
  <2>9. Stale => Stale'
    BY <1>1, <2>1, <2>2, <2>3, <2>5, <2>6 DEF Stale, Accepting
  <2>10. LateIsHarmless'
    BY <1>1, <2>1, <2>5, <2>9 DEF Reported, LateIsHarmless, Preceded
  <2>11. RunShapes' /\ LedgerInOrder' /\ LedgerIsTrue'
    BY <1>1, <2>1, <2>5 DEF Reported, RunShapes, LedgerInOrder, LedgerIsTrue
  <2>12. OnPage'
    BY <1>1, <1>2, <2>1, <2>5 DEF OnPage, DoneInPlace, OpenRunHasWork, NoWayOnOnlyInPlace, HalfIsNoAccount
  <2> QED
    BY <2>5, <2>7, <2>8, <2>10, <2>11, <2>12 DEF Reported
<1>5. CASE HandleLate
  <2>1. late # NoUnit /\ Handle(late) /\ late' = NoUnit /\ report' = report
    BY <1>5 DEF HandleLate, deviceVars
  <2>2. PICK u \in Units : u = late
    BY <2>1 DEF Reported, RunShapes
  <2>3. Handle(u)
    BY <2>1, <2>2
  <2>4. u # Own /\ Turned = "ok" => Preceded(u)
    BY <1>3, <2>1, <2>2 DEF Stale, Reported, LateIsHarmless
  <2>5. /\ told \subseteq told' /\ ReportedInOrder'
        /\ account' \in {"complete", "unclaimed", "ongoing"}
        /\ account' = "unclaimed" => told' = {}
        /\ "complete" \in told' /\ account' = "ongoing" => reopened'
        /\ reopened => reopened'
        /\ u # Own => /\ boundTo' = boundTo
                      /\ account' = account \/ (account # "unclaimed" /\ account' = "complete")
        /\ u = Own /\ "complete" \in told => reopened'
    BY <2>3, <2>4, HandleServer DEF Reported
  <2>6. Accepting' => Accepting
    BY <2>1, <2>2, <2>5, UnitOrder DEF Accepting
  <2>7. CallIsNext'
    BY <1>1, <2>1 DEF Reported, CallIsNext, Earlier
  <2>8. ToldIsSettled'
    BY <1>1, <2>1, <2>5, <2>6 DEF Reported, ToldIsSettled
  <2>9. account' = "ongoing" /\ boundTo' = "this" => InRun' \/ reopened'
    BY <1>1, <2>2, <2>5 DEF Reported, LateIsHarmless
  <2>10. LateIsHarmless'
    BY <2>1, <2>9, UnitOrder DEF LateIsHarmless
  <2>11. RunShapes' /\ LedgerInOrder' /\ LedgerIsTrue'
    BY <1>1, <2>1, <2>5 DEF Reported, RunShapes, LedgerInOrder, LedgerIsTrue
  <2>12. OnPage'
    BY <1>1, <1>2, <2>1, <2>5 DEF OnPage, DoneInPlace, OpenRunHasWork, NoWayOnOnlyInPlace, HalfIsNoAccount
  <2> QED
    BY <2>5, <2>7, <2>8, <2>10, <2>11, <2>12 DEF Reported
<1> QED
  BY <1>4, <1>5

\* Another device, and a server that starts over.
LEMMA OthersHold ==
    ASSUME Reported, OnPage, OtherClaims \/ OtherCompletes \/ Rebuild
    PROVE  Reported' /\ OnPage'
<1>1. /\ UNCHANGED <<importRun, recoveryRun, workLedger, whole, place, doing, restoring, report, inPlace>>
      /\ (InRun' <=> InRun) /\ DueUnits' = DueUnits /\ Finished' = Finished /\ Skipped' = Skipped
  BY DEF OtherClaims, OtherCompletes, Rebuild, deviceVars, InRun, DueUnits, Finished, Skipped
<1>2. DoneInPlace /\ OpenRunHasWork /\ NoWayOnOnlyInPlace /\ HalfIsNoAccount
  BY DEF OnPage
<1>3. CallIsNext' /\ LedgerInOrder'
  BY <1>1 DEF Reported, CallIsNext, LedgerInOrder, Earlier
<1>4. CASE OtherClaims \/ OtherCompletes
  <2>1. /\ UNCHANGED <<late, told, outlived>> /\ boundTo' # "this"
        /\ account' \in {"complete", "ongoing"} /\ (reopened => reopened')
        /\ account' = "ongoing" => account # "complete" \/ reopened'
    <3>1. CASE OtherClaims
      <4>1. UNCHANGED <<late, told, outlived>> /\ boundTo' = "other"
        BY <3>1 DEF OtherClaims
      <4>2. account' \in {"complete", "ongoing"} /\ (account = "complete" \/ account' = "ongoing")
        BY <3>1 DEF OtherClaims
      <4>3. reopened' = (reopened \/ (account = "complete" /\ account' = "ongoing"))
        BY <3>1 DEF OtherClaims
      <4> QED
        BY <4>1, <4>2, <4>3
    <3>2. CASE OtherCompletes
      BY <3>2 DEF OtherCompletes
    <3> QED
      BY <1>4, <3>1, <3>2
  <2>2. RunShapes' /\ LedgerIsTrue' /\ ReportedInOrder'
    BY <1>1, <2>1 DEF Reported, RunShapes, LedgerIsTrue, ReportedInOrder
  <2>3. Accepting' => Accepting
    BY <1>1, <2>1 DEF Accepting
  <2>4. "complete" \in told' /\ account' = "ongoing" => reopened'
    BY <2>1 DEF Reported, RunShapes, ToldIsSettled
  <2>5. ToldIsSettled'
    BY <1>1, <2>1, <2>3, <2>4 DEF Reported, ToldIsSettled
  <2>6. LateIsHarmless'
    BY <1>1, <2>1, <2>3 DEF Reported, LateIsHarmless, Preceded, Stale
  <2>7. OnPage'
    BY <1>1, <1>2, <2>1 DEF OnPage, DoneInPlace, OpenRunHasWork, NoWayOnOnlyInPlace, HalfIsNoAccount
  <2> QED
    BY <1>3, <2>2, <2>5, <2>6, <2>7 DEF Reported
<1>5. CASE Rebuild
  <2>1. /\ account' = "unclaimed" /\ told' = {} /\ late' = NoUnit
        /\ outlived \subseteq outlived' /\ Finished \subseteq outlived'
        /\ report.answer = "ok" => report.unit \in outlived'
    BY <1>5 DEF Rebuild, Finished
  <2>2. RunShapes' /\ LedgerIsTrue' /\ ReportedInOrder'
    BY <1>1, <2>1 DEF Reported, RunShapes, LedgerIsTrue, ReportedInOrder, Finished
  <2>3. Accepting' => report.unit = Own /\ report.answer = "none"
    BY <1>1, <2>1, UnitOrder DEF Accepting
  <2>4. ToldIsSettled'
    <3>1. Accepting' => Finished' = {}
      BY <1>1, <2>3, UnitOrder DEF Reported, CallIsNext, LedgerInOrder, NoReport
    <3> QED
      BY <1>1, <2>1, <2>3, <3>1 DEF ToldIsSettled
  <2>5. LateIsHarmless'
    BY <2>1, UnitOrder DEF LateIsHarmless
  <2>6. OpenRunHasWork'
    <3> SUFFICES ASSUME workLedger # EmptyLedger, DueUnits = {} PROVE outlived' # {}
      BY <1>1, LedgerOpen DEF OpenRunHasWork, Reported, DueUnits
    <3> QED
      BY <2>1, EndIsLast DEF Reported
  <2>7. DoneInPlace' /\ NoWayOnOnlyInPlace' /\ HalfIsNoAccount'
    BY <1>1, <1>2, <2>1 DEF DoneInPlace, NoWayOnOnlyInPlace, HalfIsNoAccount
  <2> QED
    BY <1>3, <2>2, <2>4, <2>5, <2>6, <2>7 DEF Reported, OnPage
<1> QED
  BY <1>4, <1>5

-----------------------------------------------------------------------------
(* RecoveryRun: the theorem                                                *)

\* The next pass is for peers only.
LEMMA ErredStep ==
    ASSUME ErredArePeers, [RunNext]_runVars
    PROVE  ErredArePeers'
<1>1. erred' = erred \/ erred' = {} \/ \E u \in {report.unit} : erred' = erred \union ({u} \intersect HeldPeers)
  BY DEF RunNext, runVars, deviceVars, Reload, Land, StartImport, WriteMarkers, WriteItems, BindDevice, StepFails,
     CancelImport, RecoverInPlace, FinishRecoveryForbidden, DeviceMismatch, MountRecovery, EnsureProgress, CallNext,
     PassEnds, Retry, Answered, Settle, Fail, AnswerLost, HandleReport, HandleLate, OtherClaims,
     OtherCompletes, Rebuild
<1> QED
  BY <1>1 DEF ErredArePeers

\* The invariant of one step.
LEMMA RunStep ==
    ASSUME RunInv, [RunNext]_runVars
    PROVE  RunInv'
<1>1. Reported /\ OnPage /\ ErredArePeers
  BY RunInvParts
<1>2. ErredArePeers'
  BY <1>1, ErredStep
<1>3. CASE UNCHANGED runVars
  <2>1. Reported'
    BY <1>1, <1>3, PageMoves DEF runVars, InRun
  <2>2. OnPage'
    BY <1>1, <1>3 DEF runVars, OnPage, DoneInPlace, OpenRunHasWork, NoWayOnOnlyInPlace, HalfIsNoAccount, InRun
  <2> QED
    BY <1>2, <2>1, <2>2, RunInvParts DEF RunInv, Reported, OnPage
<1>4. CASE RunNext
  <2>1. Reported' /\ OnPage'
    BY <1>1, <1>4, ReloadHolds, ImportHolds, SignedInHolds, EnsureHolds, RunnerHolds, AnswerHolds, HandleHolds,
       OthersHold DEF RunNext
  <2> QED
    BY <1>2, <2>1 DEF RunInv, Reported, OnPage
<1> QED
  BY <1>3, <1>4

\* A device that signed up has nothing to recover.
LEMMA RunStart ==
    ASSUME RunInit
    PROVE  RunInv
<1>1. DueUnits = {} /\ Finished = {} /\ Skipped = {} /\ DOMAIN workLedger = {}
  BY NoLedger DEF RunInit, DueUnits, Finished, Skipped, EmptyLedger
<1>2. RunShapes /\ DoneInPlace /\ LedgerInOrder /\ ErredArePeers
  BY <1>1, UnitOrder DEF RunInit, RunShapes, DoneInPlace, LedgerInOrder, ErredArePeers, InRun
<1>3. CallIsNext /\ ToldIsSettled /\ LateIsHarmless
  BY <1>1, UnitOrder DEF RunInit, CallIsNext, ToldIsSettled, LateIsHarmless, NoReport
<1>4. LedgerIsTrue /\ ReportedInOrder /\ OpenRunHasWork /\ NoWayOnOnlyInPlace /\ HalfIsNoAccount
  BY <1>1 DEF RunInit, LedgerIsTrue, ReportedInOrder, OpenRunHasWork, NoWayOnOnlyInPlace, HalfIsNoAccount,
     Finished, InProgress
<1> QED
  BY <1>2, <1>3, <1>4 DEF RunInv

\* A device's restore and recovery hold what they promise, for any peers,
\* reeds and pages of records and any number of rebuilds: the ledger says what
\* the server was told, reports come in order, an open run has work, and page
\* and server agree about who is let in (recoveryRun.ts, recoveryRunner.ts).
THEOREM RecoveryAlwaysHolds == RunSpec => []RecoveryHolds
<1>1. RunInit => RunInv
  BY RunStart
<1>2. RunInv /\ [RunNext]_runVars => RunInv'
  BY RunStep
<1>3. RunInv => RecoveryHolds
  <2> SUFFICES ASSUME RunInv PROVE RecoveryHolds
    OBVIOUS
  <2>1. GatesAgree
    BY DEF RunInv, LateIsHarmless, GatesAgree, InRun, Gated, IsLoggedIn, InProgress
  <2> QED
    BY <2>1 DEF RunInv, RecoveryHolds
<1> QED
  BY <1>1, <1>2, <1>3, PTL DEF RunSpec
=============================================================================
