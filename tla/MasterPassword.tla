---------------------------- MODULE MasterPassword ----------------------------
(***************************************************************************)
(* The master password of FaTTY: the dialog that asks for it when the      *)
(* program starts and counts wrong ones (src/ui/dialogs.cpp,               *)
(* src/core/lockout.cpp), the vault that encrypts the passwords of the     *)
(* servers with a key made from it (src/core/vault.cpp), config.json, which *)
(* holds them (src/core/store.cpp), and the copies of config.json          *)
(* (src/core/backup.cpp), across restarts and on a disk that may fail.     *)
(*                                                                         *)
(* One instance runs at a time and every handler runs on its GUI thread.   *)
(* Encryption is perfect: a secret opens with the key it was sealed with.  *)
(***************************************************************************)
EXTENDS Integers, Sequences, FiniteSets

CONSTANTS
  Passwords,     \* master passwords that the user enters
  Servers,
  Secrets,       \* passwords of servers
  None,          \* no secret, no vault
  MaxAttempts,   \* master_password_max_attempts; 0: wrong passwords are not counted
  LockTime,      \* master_password_lockout_minutes, in half seconds
  Interval,      \* kBackupIntervalSec, in half seconds
  Keep,          \* kBackupKeep
  MaxClock,      \* bound: half seconds
  MaxSalts,      \* bound: keys ever made
  MaxEdits,      \* bound: passwords of servers entered
  MaxFailures,   \* bound: writes of files that fail and say so
  MaxCuts        \* bound: writes that are cut short in silence

ASSUME MasterPasswordAssumption ==
  /\ {MaxAttempts, MaxClock, MaxSalts, MaxEdits, MaxFailures, MaxCuts} \subseteq Nat
  /\ {LockTime, Interval, Keep} \subseteq Nat \ {0}
  /\ None \notin Secrets /\ IsFiniteSet(Servers)
  /\ None \notin [key : {None} \cup [password : Passwords, salt : 1 .. MaxSalts], secret : Secrets]

VARIABLES
  phase,      \* "off", "dialog" (the program asks), "locked" (the dialog, when it
              \* takes no input), "open" (the window is there)
  key,        \* key_ and meta_ of the SessionVault
  config,     \* Config: its vault, the passwords of the servers, last_backup
  file,       \* config.json
  lockout,    \* lockout.json
  backups,    \* the copies of config.json
  clock,      \* now, in half seconds
  used,       \* how much of the bounds is used up
  saved,      \* history: the passwords that the last save to return has written
  guesses     \* history: when the last wrong passwords were tried, since a right one

vars == <<phase, key, config, file, lockout, backups, clock, used, saved, guesses>>

-----------------------------------------------------------------------------
(* SessionVault                                                             *)

Key(password, salt) == [password |-> password, salt |-> salt]   \* derive_key

\* encrypt_secret and decrypt_secret
Seal(k, secret)   == IF secret = None THEN None ELSE [key |-> k, secret |-> secret]
Opens(k, blob)    == blob = None \/ blob.key = k
Unsealed(blob)    == IF blob = None THEN None ELSE blob.secret

\* unlock: the key made with the salt of the vault opens its verifier.
Unlocks(password, vault) == vault # None /\ vault.password = password

-----------------------------------------------------------------------------
(* Files                                                                    *)

NoFile == [there |-> FALSE]
NoSecrets == [s \in Servers |-> None]
NoLockout == [failed |-> 0, until |-> 0]
NewConfig == [vault |-> None, password |-> NoSecrets, last_backup |-> 0]

\* load_config_from: the passwords of the servers stay sealed.
Loaded(f) ==
  IF f.there THEN [NewConfig EXCEPT !.vault = f.vault, !.last_backup = f.last_backup] ELSE NewConfig

\* unlock_secrets
SecretsIn(f) == [s \in Servers |-> Unsealed(f.blob[s])]

\* Mutant: a password that has not changed keeps the text it had in the file.
ContentKept(k, cfg) ==
  [there |-> TRUE, whole |-> TRUE, vault |-> k, last_backup |-> cfg.last_backup,
   blob |-> [s \in Servers |->
     IF file.there /\ file.whole /\ Unsealed(file.blob[s]) = cfg.password[s] THEN file.blob[s]
     ELSE Seal(k, cfg.password[s])]]

\* What save_config_to writes: every password is sealed anew.
Content(k, cfg) ==
  [there |-> TRUE, whole |-> TRUE, vault |-> k, last_backup |-> cfg.last_backup,
   blob |-> [s \in Servers |-> Seal(k, cfg.password[s])]]

\* The outcomes of atomic_write_text over the file f, which does not look at the stream
\* that it has written to.
Writes(f, new, budget) ==
  {[file |-> new, thrown |-> FALSE, used |-> budget]}
  \cup (IF budget.failures = MaxFailures THEN {}
        ELSE {[file |-> f, thrown |-> TRUE, used |-> [budget EXCEPT !.failures = @ + 1]]})
  \cup (IF budget.cuts = MaxCuts THEN {}
        ELSE {[file |-> [new EXCEPT !.whole = FALSE], thrown |-> FALSE, used |-> [budget EXCEPT !.cuts = @ + 1]]})

-----------------------------------------------------------------------------
(* Backups                                                                  *)

\* maybe_backup_config: is one due? The clock may have been behind last_backup.
Due(cfg) == cfg.last_backup = 0 \/ clock - cfg.last_backup >= Interval

\* Mutant: one less is kept.
PrunedShort(B) ==
  IF Cardinality(B) < Keep THEN {B}
  ELSE {P \in SUBSET B : /\ Cardinality(P) = Keep - 1
                         /\ \A p \in P, q \in B \ P : p.at >= q.at}

\* prune_backups: the newest stay; of those made at one time, any.
Pruned(B) ==
  IF Cardinality(B) <= Keep THEN {B}
  ELSE {P \in SUBSET B : /\ Cardinality(P) = Keep
                         /\ \A p \in P, q \in B \ P : p.at >= q.at}

\* maybe_run_backup, when config.json is f: a copy of it is made and the time of it saved.
\* What that save throws is ignored.
BackedUp(f, cfg, k, budget) ==
  IF ~Due(cfg) THEN {[file |-> f, config |-> cfg, backups |-> backups, used |-> budget]}
  ELSE LET copied == [cfg EXCEPT !.last_backup = clock]
           copy   == [n |-> budget.backups + 1, at |-> clock, whole |-> f.whole]
       IN {[file |-> w.file, config |-> copied, backups |-> left, used |-> w.used] :
             left \in Pruned(backups \cup {copy}),
             w \in Writes(f, Content(k, copied), [budget EXCEPT !.backups = @ + 1])}

\* save_config and then maybe_run_backup; if the first throws, the phase is ifThrown.
SaveAndBackUp(cfg, k, budget, ifThrown) ==
  \E w \in Writes(file, Content(k, cfg), budget) :
    IF w.thrown
    THEN /\ config' = cfg /\ file' = w.file /\ used' = w.used /\ phase' = ifThrown
         /\ UNCHANGED <<backups, saved>>
    ELSE \E b \in BackedUp(w.file, [cfg EXCEPT !.vault = k], k, w.used) :
         /\ config' = b.config /\ file' = b.file /\ used' = b.used /\ phase' = "open"
         /\ backups' = b.backups /\ saved' = cfg.password

\* persist of AppFrame swallows what is thrown; OnInit ends the program.
Persist(cfg, k, budget) == SaveAndBackUp(cfg, k, budget, "open")
Enter(cfg, k, budget)   == SaveAndBackUp(cfg, k, budget, "off")

-----------------------------------------------------------------------------
(* Starting                                                                 *)

Init ==
  /\ phase = "off"
  /\ key = None
  /\ config = NewConfig
  /\ file = NoFile
  /\ lockout = NoLockout
  /\ backups = {}
  /\ clock = 1
  /\ used = [salts |-> 0, edits |-> 0, failures |-> 0, cuts |-> 0, backups |-> 0]
  /\ saved = NoSecrets
  /\ guesses = <<>>

\* normalize: a lockout that is over counts for nothing.
Normalized(l) == IF l.until > 0 /\ clock >= l.until THEN NoLockout ELSE l

\* lockout_message is not empty: whole seconds are left of the lockout l.
Blocks(l) ==
  LET n == Normalized(l) IN MaxAttempts > 0 /\ n.until > 0 /\ (n.until - clock) \div 2 > 0

Blocked == Blocks(lockout)

\* refresh_lockout: nothing enables the controls of the dialog again while it is open.
DialogUnder(l) == IF Blocks(l) THEN "locked" ELSE "dialog"

\* OnInit as far as the dialog: load_config. A file that cannot be parsed ends the program.
Start ==
  /\ phase = "off"
  /\ file.there => file.whole
  /\ phase' = IF file.there THEN DialogUnder(lockout) ELSE "dialog"
  /\ config' = Loaded(file)
  /\ UNCHANGED <<key, file, lockout, backups, clock, used, saved, guesses>>

\* on_submit of the dialog that sets a master password up.
SetUp(password) ==
  /\ phase = "dialog" /\ config.vault = None /\ used.salts < MaxSalts
  /\ key' = Key(password, used.salts + 1)
  /\ Enter([config EXCEPT !.vault = key'], key', [used EXCEPT !.salts = @ + 1])
  /\ UNCHANGED <<lockout, clock, guesses>>

\* record_success removes lockout.json.
Unlock(password) ==
  /\ phase = "dialog" /\ ~Blocked /\ Unlocks(password, config.vault)
  /\ key' = config.vault
  /\ lockout' = NoLockout /\ guesses' = <<>>
  /\ IF \A s \in Servers : Opens(key', file.blob[s])
     THEN Enter([config EXCEPT !.password = SecretsIn(file)], key', used)
     ELSE UNCHANGED <<phase, config, file, backups, used, saved>>   \* VaultError: the dialog stays
  /\ UNCHANGED clock

LastTries(tries) == SubSeq(tries, IF Len(tries) > MaxAttempts THEN Len(tries) - MaxAttempts ELSE 1, Len(tries))

\* A wrong password is tried, and counted as new.
TryWrong(new) ==
  /\ phase = "dialog" /\ ~Blocked
  /\ \E password \in Passwords : config.vault # None /\ ~Unlocks(password, config.vault)
  /\ guesses' = LastTries(Append(guesses, clock))
  /\ \/ lockout' = new /\ UNCHANGED used
     \/ /\ new # lockout /\ used.failures < MaxFailures
        /\ used' = [used EXCEPT !.failures = @ + 1] /\ UNCHANGED lockout
     \/ /\ new # lockout /\ used.cuts < MaxCuts             \* load_lockout cannot read it
        /\ used' = [used EXCEPT !.cuts = @ + 1] /\ lockout' = NoLockout
  /\ phase' = DialogUnder(lockout')
  /\ UNCHANGED <<key, config, file, backups, clock, saved>>

Counted(failed) ==
  [failed |-> failed, until |-> IF failed >= MaxAttempts THEN clock + LockTime ELSE 0]

\* Mutant: the count is written down only when it leads to a lockout.
TryPasswordCountsLate ==
  LET l == Normalized(lockout) IN
  TryWrong(IF MaxAttempts = 0 THEN lockout
           ELSE IF l.failed + 1 < MaxAttempts THEN l ELSE Counted(l.failed + 1))

\* record_failed_attempt: one more, and the last one that is allowed begins a lockout.
TryPassword ==
  TryWrong(IF MaxAttempts = 0 THEN lockout ELSE Counted(Normalized(lockout).failed + 1))

\* The dialog is cancelled, or the program is killed, in whatever phase.
Ends ==
  /\ phase # "off"
  /\ phase' = "off" /\ key' = None /\ config' = NewConfig
  /\ UNCHANGED <<file, lockout, backups, clock, used, saved, guesses>>

-----------------------------------------------------------------------------
(* The window is open                                                       *)

\* The dialog of a server, and every other handler that saves.
SetSecret(s, secret) ==
  /\ phase = "open" /\ used.edits < MaxEdits
  /\ Persist([config EXCEPT !.password[s] = secret], key, [used EXCEPT !.edits = @ + 1])
  /\ UNCHANGED <<key, lockout, clock, guesses>>

\* ChangeMasterDialog, after which its callers persist. A wrong current password is
\* refused and not counted.
ChangeMaster(old, password) ==
  /\ phase = "open" /\ used.salts < MaxSalts
  /\ Unlocks(old, key)
  /\ key' = Key(password, used.salts + 1)
  /\ Persist(config, key', [used EXCEPT !.salts = @ + 1])
  /\ UNCHANGED <<lockout, clock, guesses>>

Tick ==
  /\ clock < MaxClock
  /\ clock' = clock + 1
  /\ UNCHANGED <<phase, key, config, file, lockout, backups, used, saved, guesses>>

Next ==
  \/ Start \/ TryPassword \/ Ends \/ Tick
  \/ \E p \in Passwords : SetUp(p) \/ Unlock(p) \/ \E q \in Passwords : ChangeMaster(p, q)
  \/ \E s \in Servers, x \in Secrets \cup {None} : SetSecret(s, x)

Spec == Init /\ [][Next]_vars

-----------------------------------------------------------------------------
(* Properties                                                               *)

\* Whoever opens config.json with the master password that it was written with reads
\* every password as the last save to return has written it: after the master password
\* was changed, saves failed and the program was started again there is no secret of
\* another key in it (save_config_to, ChangeMasterDialog, unlock_secrets).
SecretsReadable ==
  file.there /\ file.whole =>
    \A s \in Servers : Opens(file.vault, file.blob[s]) /\ Unsealed(file.blob[s]) = saved[s]

\* While files can be written, no more than MaxAttempts wrong passwords are tried
\* within the time of a lockout, but for its last second, which lockout_message rounds
\* to none; starting the program anew gives no further tries.
GuessesBounded ==
  /\ MaxAttempts > 0 /\ used.failures = 0 /\ used.cuts = 0
  /\ Len(guesses) > MaxAttempts
  => guesses[MaxAttempts + 1] - guesses[1] > LockTime - 2

\* A whole copy of config.json survives a full disk: once one has been made, it or a later
\* one is there as long as fewer than Keep writes have been cut short (maybe_backup_config
\* copies what is there, whole or not; prune_backups goes by age).
BackupSurvives ==
  /\ used.cuts < Keep
  /\ used.backups > used.cuts
  => \E b \in backups : b.whole
=============================================================================
