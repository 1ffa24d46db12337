--------------------------- MODULE IdentityBackup ---------------------------
(***************************************************************************)
(* The server's identity, its keys and the bundles that bring them back:   *)
(* `ops export-identity`, `import-identity`, `rotate-key`, and             *)
(* `rotate-passphrase`, each a process of its own beside the boot of the   *)
(* server, which refuses while its newest key is newer than its backup.    *)
(* Keys, identities and passphrases are numbered as they are made.  Time   *)
(* is in seconds, as the code stores it.                                   *)
(***************************************************************************)
EXTENDS Naturals, FiniteSets

CONSTANTS
    MaxServerKeys,      \* BOUND: keys minted
    MaxIdentities,      \* BOUND: server rows made
    MaxPassphrases,     \* BOUND: passphrases in turn
    MaxDisasters,       \* BOUND: databases lost
    MaxSecond           \* BOUND: seconds that pass

ASSUME IdentityBackupAssumption ==
    /\ MaxServerKeys \in Nat \ {0} /\ MaxIdentities \in Nat \ {0}
    /\ MaxPassphrases \in Nat \ {0} /\ MaxDisasters \in Nat /\ MaxSecond \in Nat \ {0}

\* A database without a server; 0 is NULL.
NoServer == [id |-> 0, sign |-> 0, keys |-> {}, links |-> {}, backup |-> 0]
NotRun == [pc |-> "resting"]
Down == [key |-> 0, backup |-> 0]

VARIABLES
    self,           \* server_self, private_keys, server_key_revocations
    bundles,        \* the files exported
    upWith,         \* the running server: its key, and the backup it found at boot
    exporting,      \* ops export-identity
    rotating,       \* the transaction of ops rotate-key
    rewrapping,     \* ops rotate-passphrase
    passphrase,     \* what resolvePassphrase returns
    passphrases,    \* how many there were
    minted,         \* how many keys were minted
    identities,     \* how many server rows were made
    disasters,      \* how many databases were lost
    second          \* the time

backupVars == <<self, bundles, upWith, exporting, rotating, rewrapping, passphrase, passphrases,
                minted, identities, disasters, second>>

BackupInit ==
    /\ self = NoServer /\ bundles = {} /\ upWith = Down
    /\ exporting = NotRun /\ rotating = NotRun /\ rewrapping = NotRun
    /\ passphrase = 1 /\ passphrases = 1
    /\ minted = 0 /\ identities = 0 /\ disasters = 0 /\ second = 1

Rests(p) == p.pc = "resting"
KeysNamed(keys, n) == {k \in keys : k.n = n}
Revoked(keys, n) == \E k \in KeysNamed(keys, n) : k.revoked
Opened(keys, pass) == \A k \in keys : k.wrap = pass

\* A key made at `made` whose row is committed now.  `amid` is history: it was committed
\* between the listing and the writing of a change of passphrase.
MintServerKey(made, wrap) ==
    [n |-> minted + 1, made |-> made, done |-> second, wrap |-> wrap, revoked |-> FALSE,
     amid |-> rewrapping.pc = "listed"]

----------------------------------------------------------------------------
(* The boot of the server.                                                 *)

\* Only with RECOVERY_MODE off: a recovering server refuses to make an identity.
InitServer ==
    /\ self.id = 0 /\ identities < MaxIdentities
    /\ identities' = identities + 1
    /\ self' = [self EXCEPT !.id = identities + 1]
    /\ UNCHANGED <<bundles, upWith, exporting, rotating, rewrapping, passphrase, passphrases,
                   minted, disasters, second>>

MintFirstServerKey ==
    /\ self.id # 0 /\ self.sign = 0 /\ self.keys = {} /\ minted < MaxServerKeys
    /\ minted' = minted + 1
    /\ self' = [self EXCEPT !.sign = minted + 1, !.keys = {MintServerKey(second, passphrase)}]
    /\ UNCHANGED <<bundles, upWith, exporting, rotating, rewrapping, passphrase, passphrases,
                   identities, disasters, second>>

\* Variant that must fail: one second of grace.
BackupIsStale_Lax ==
    \/ self.backup = 0
    \/ \E k \in self.keys : self.backup + 1 < k.made
\* staleIdentityBackupMessage.
BackupIsStale ==
    \/ self.backup = 0
    \/ \E k \in self.keys : self.backup < k.made

\* The key that signs opens with the passphrase and still stands.
SigningKeyOpens == \A k \in KeysNamed(self.keys, self.sign) : ~k.revoked /\ k.wrap = passphrase
InitServerKey == self.sign # 0 /\ SigningKeyOpens

\* The server is up once the steps of main passed.
Boot ==
    /\ upWith = Down /\ InitServerKey /\ ~BackupIsStale
    /\ upWith' = [key |-> self.sign, backup |-> self.backup]
    /\ UNCHANGED <<self, bundles, exporting, rotating, rewrapping, passphrase, passphrases,
                   minted, identities, disasters, second>>

StopServer ==
    /\ upWith # Down /\ upWith' = Down
    /\ UNCHANGED <<self, bundles, exporting, rotating, rewrapping, passphrase, passphrases,
                   minted, identities, disasters, second>>

----------------------------------------------------------------------------
(* ops export-identity: three statements read the identity, the operator   *)
(* types the bundle's password, the file is written, the time is recorded. *)

Exports(step) ==
    /\ exporting.pc = step
    /\ UNCHANGED <<upWith, rotating, rewrapping, passphrase, passphrases, minted, identities,
                   disasters, second>>

RunExportIdentity ==
    /\ Exports("resting")
    /\ exporting' = [pc |-> "timed", at |-> second]
    /\ UNCHANGED <<self, bundles>>

ExportReadsSelf ==
    /\ Exports("timed") /\ self.sign # 0
    /\ exporting' = [pc |-> "self", at |-> exporting.at, id |-> self.id, sign |-> self.sign]
    /\ UNCHANGED <<self, bundles>>

ExportReadsKeys ==
    /\ Exports("self")
    /\ exporting' = [pc |-> "keys", at |-> exporting.at, id |-> exporting.id,
                      sign |-> exporting.sign, keys |-> self.keys]
    /\ UNCHANGED <<self, bundles>>

\* validateBundleShape.
WellShaped(b) ==
    /\ KeysNamed(b.keys, b.sign) # {}
    /\ \A l \in b.links : KeysNamed(b.keys, l.revoked) # {} /\ KeysNamed(b.keys, l.next) # {}

ExportReadsRevocations ==
    /\ Exports("keys")
    /\ \E b \in {[at |-> exporting.at, id |-> exporting.id, sign |-> exporting.sign,
                  keys |-> exporting.keys, links |-> self.links]} :
          exporting' = IF WellShaped(b) THEN [pc |-> "read", bundle |-> b] ELSE NotRun
    /\ UNCHANGED <<self, bundles>>

\* The name of the file is the server's id and the second.
SameFile(b, c) == b.id = c.id /\ b.at = c.at
WriteBundle ==
    /\ Exports("read")
    /\ bundles' = {c \in bundles : ~SameFile(c, exporting.bundle)} \cup {exporting.bundle}
    /\ exporting' = [pc |-> "written", bundle |-> exporting.bundle]
    /\ UNCHANGED self

\* Variant that must fail: the time of the record, and not of the reading, is recorded.
SetIdentityBackupAt_Now ==
    /\ Exports("written")
    /\ self' = [self EXCEPT !.backup = second]
    /\ exporting' = NotRun
    /\ UNCHANGED bundles
SetIdentityBackupAt ==
    /\ Exports("written")
    /\ self' = [self EXCEPT !.backup = exporting.bundle.at]
    /\ exporting' = NotRun
    /\ UNCHANGED bundles

\* Interrupted at the prompt, at the file, or before the record.
ExportEnds ==
    /\ ~Rests(exporting) /\ exporting' = NotRun
    /\ UNCHANGED <<self, bundles, upWith, rotating, rewrapping, passphrase, passphrases, minted,
                   identities, disasters, second>>

----------------------------------------------------------------------------
(* ops rotate-key: one transaction, which holds the key it retires.        *)

RevokeServerKey ==
    /\ Rests(rotating) /\ self.sign # 0 /\ minted < MaxServerKeys
    /\ SigningKeyOpens
    /\ rotating' = [pc |-> "made", made |-> second, wrap |-> passphrase]
    /\ UNCHANGED <<self, bundles, upWith, exporting, rewrapping, passphrase, passphrases, minted,
                   identities, disasters, second>>

RotationCommits ==
    /\ ~Rests(rotating) /\ rotating' = NotRun
    /\ minted' = minted + 1
    /\ self' = [self EXCEPT
          !.sign = minted + 1,
          !.keys = {[k EXCEPT !.revoked = @ \/ k.n = self.sign] : k \in self.keys}
                     \cup {MintServerKey(rotating.made, rotating.wrap)},
          !.links = @ \cup {[revoked |-> self.sign, next |-> minted + 1]}]
    /\ UNCHANGED <<bundles, upWith, exporting, rewrapping, passphrase, passphrases, identities,
                   disasters, second>>

RotationFails ==
    /\ ~Rests(rotating) /\ rotating' = NotRun
    /\ UNCHANGED <<self, bundles, upWith, exporting, rewrapping, passphrase, passphrases, minted,
                   identities, disasters, second>>

----------------------------------------------------------------------------
(* ops rotate-passphrase: the rows are listed and decrypted, written in a  *)
(* transaction, and the keychain is told last.                             *)

RewrapLists ==
    /\ Rests(rewrapping) /\ passphrases < MaxPassphrases
    /\ self.keys # {} /\ Opened(self.keys, passphrase)
    /\ passphrases' = passphrases + 1
    /\ rewrapping' = [pc |-> "listed", rows |-> {k.n : k \in self.keys},
                      next |-> passphrases + 1]
    /\ UNCHANGED <<self, bundles, upWith, exporting, rotating, passphrase, minted, identities,
                   disasters, second>>

\* Variant that must fail: the rotation holds nothing.
RewrapServerKeys_Unlocked ==
    /\ rewrapping.pc = "listed"
    /\ self' = [self EXCEPT !.keys =
          {[k EXCEPT !.wrap = IF k.n \in rewrapping.rows THEN rewrapping.next ELSE @] : k \in @}]
    /\ rewrapping' = [pc |-> "written", next |-> rewrapping.next]
    /\ UNCHANGED <<bundles, upWith, exporting, rotating, passphrase, passphrases, minted,
                   identities, disasters, second>>
\* It waits for a rotation that holds a row; that key's successor is not among the rows.
RewrapServerKeys ==
    /\ rewrapping.pc = "listed" /\ Rests(rotating)
    /\ self' = [self EXCEPT !.keys =
          {[k EXCEPT !.wrap = IF k.n \in rewrapping.rows THEN rewrapping.next ELSE @] : k \in @}]
    /\ rewrapping' = [pc |-> "written", next |-> rewrapping.next]
    /\ UNCHANGED <<bundles, upWith, exporting, rotating, passphrase, passphrases, minted,
                   identities, disasters, second>>

StorePassphrase ==
    /\ rewrapping.pc = "written" /\ rewrapping' = NotRun
    /\ passphrase' = rewrapping.next
    /\ UNCHANGED <<self, bundles, upWith, exporting, rotating, passphrases, minted, identities,
                   disasters, second>>

\* Also the end of a run whose passphrase comes from SERVER_KEY_PASSPHRASE.
RewrapEnds ==
    /\ ~Rests(rewrapping) /\ rewrapping' = NotRun
    /\ UNCHANGED <<self, bundles, upWith, exporting, rotating, passphrase, passphrases, minted,
                   identities, disasters, second>>

\* The operator sets SERVER_KEY_PASSPHRASE, or is asked on a machine with no keychain.
ResolvePassphrase(p) ==
    /\ p <= passphrases /\ p # passphrase /\ passphrase' = p
    /\ UNCHANGED <<self, bundles, upWith, exporting, rotating, rewrapping, passphrases, minted,
                   identities, disasters, second>>

----------------------------------------------------------------------------
(* A disaster, and what comes after it.                                    *)

DatabaseIsLost ==
    /\ disasters < MaxDisasters /\ self # NoServer
    /\ disasters' = disasters + 1
    /\ self' = NoServer /\ upWith' = Down
    /\ exporting' = NotRun /\ rotating' = NotRun /\ rewrapping' = NotRun
    /\ UNCHANGED <<bundles, passphrase, passphrases, minted, identities, second>>

Imported(b) ==
    [id |-> b.id, sign |-> b.sign, keys |-> b.keys, links |-> b.links, backup |-> b.at]

\* A server that is there is only compared with the bundle: nothing is written.
ImportIdentity(b) ==
    /\ self.id = 0 /\ Opened(b.keys, passphrase)
    /\ self' = Imported(b)
    /\ UNCHANGED <<bundles, upWith, exporting, rotating, rewrapping, passphrase, passphrases,
                   minted, identities, disasters, second>>

SecondPasses ==
    /\ second < MaxSecond /\ second' = second + 1
    /\ UNCHANGED <<self, bundles, upWith, exporting, rotating, rewrapping, passphrase,
                   passphrases, minted, identities, disasters>>

BackupNext ==
    \/ InitServer \/ MintFirstServerKey \/ Boot \/ StopServer
    \/ RunExportIdentity \/ ExportReadsSelf \/ ExportReadsKeys \/ ExportReadsRevocations
    \/ WriteBundle \/ SetIdentityBackupAt \/ ExportEnds
    \/ RevokeServerKey \/ RotationCommits \/ RotationFails
    \/ RewrapLists \/ RewrapServerKeys \/ StorePassphrase \/ RewrapEnds
    \/ \E p \in 1..MaxPassphrases : ResolvePassphrase(p)
    \/ DatabaseIsLost \/ SecondPasses
    \/ \E b \in bundles : ImportIdentity(b)

BackupSpec == BackupInit /\ [][BackupNext]_backupVars

----------------------------------------------------------------------------
(* Properties.                                                             *)

\* operators.md: "The server refuses to start until its identity is exported, and again after
\* a new signing key".  A server that runs has its key in a bundle, but for one window: the
\* key was made no later than the second of the export, and its row came no earlier, so that
\* the export read the keys without it.
StartsAreBacked ==
    \/ upWith.key = 0
    \/ \E b \in bundles : KeysNamed(b.keys, upWith.key) # {}
    \/ \E k \in KeysNamed(self.keys, upWith.key) :
          k.made <= upWith.backup /\ upWith.backup <= k.done

\* A bundle whose signing key is revoked, which brings back a server that can neither start
\* nor rotate, goes back to an export that a rotation cut in two.
OnlyTornBundlesAreDead ==
    \A b \in bundles : Revoked(b.keys, b.sign) =>
        \E c \in bundles : c.sign = b.sign /\ \E k \in c.keys : k.done >= c.at

\* The keys of a server, and those of a bundle, open with one passphrase, unless a key was
\* committed between the listing and the writing of a change of passphrase.
OnePassphraseOpens ==
    \A keys \in {self.keys} \cup {b.keys : b \in bundles} :
        \/ \A k, l \in keys : k.wrap = l.wrap
        \/ \E k \in keys : k.amid

BackupHolds == StartsAreBacked /\ OnlyTornBundlesAreDead /\ OnePassphraseOpens

\* The rows and the files keep their shape.
ServerKeyRows ==
    [n : 1..MaxServerKeys, made : 1..MaxSecond, done : 1..MaxSecond, wrap : 1..MaxPassphrases,
     revoked : BOOLEAN, amid : BOOLEAN]
BackupTypeOK ==
    /\ self.id \in 0..MaxIdentities /\ self.sign \in 0..MaxServerKeys
    /\ self.backup \in 0..MaxSecond
    /\ \A k \in self.keys : k \in ServerKeyRows
    /\ \A b \in bundles : WellShaped(b) /\ b.at \in 1..MaxSecond /\ b.id \in 1..MaxIdentities
    /\ upWith.key \in 0..MaxServerKeys /\ upWith.backup \in 0..MaxSecond
    /\ exporting.pc \in {"resting", "timed", "self", "keys", "read", "written"}
    /\ rotating.pc \in {"resting", "made"}
    /\ rewrapping.pc \in {"resting", "listed", "written"}
    /\ passphrase \in 1..MaxPassphrases /\ passphrases \in 1..MaxPassphrases
    /\ minted \in 0..MaxServerKeys /\ identities \in 0..MaxIdentities
    /\ disasters \in 0..MaxDisasters /\ second \in 1..MaxSecond
=============================================================================
