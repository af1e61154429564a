----------------------------- MODULE StartProofs -----------------------------
(***************************************************************************)
(* What holds, for every value of their constants, of the two components   *)
(* an instance goes through when it starts and ends.                       *)
(*                                                                         *)
(* MasterPassword: what a whole config.json holds opens with the key it    *)
(* was written with, and is what the last save to return has written,      *)
(* through failed and cut writes, changes of the master password and       *)
(* restarts; a whole copy of it outlives any number of cut writes below    *)
(* the number of copies kept; and wrong passwords are bounded across       *)
(* restarts.                                                               *)
(*                                                                         *)
(* Updates: the installer closes a running instance only where its user    *)
(* has been told, and a refused version is not offered again unasked.      *)
(***************************************************************************)
EXTENDS MasterPassword, FiniteSetTheorems, SequenceTheorems, TLAPS

Keys        == {None} \cup [password : Passwords, salt : 1 .. MaxSalts]
Held        == [Servers -> Secrets \cup {None}]
ConfigShape == [vault : Keys, password : Held, last_backup : Nat]
Budget      == [salts : Nat, edits : Nat, failures : Nat, cuts : Nat, backups : Nat]

\* A whole file was written with one key, and holds these secrets.
Holds(f, secrets) ==
  f.there /\ f.whole =>
    /\ f.vault \in Keys /\ f.last_backup \in Nat
    /\ \A s \in Servers : f.blob[s] = Seal(f.vault, secrets[s])

\* The inductive invariant. The dialog asks for the password of the file that is there:
\* what Unlock opens and saves again is what the file holds.
IInv ==
  /\ key \in Keys
  /\ config \in ConfigShape
  /\ used \in Budget
  /\ saved \in Held
  /\ clock \in Nat
  /\ Holds(file, saved)
  /\ phase \in {"dialog", "locked"} /\ config.vault # None => file.there /\ file.whole

-----------------------------------------------------------------------------
(* Secrets                                                                  *)

\* A sealed secret opens with its key, and with no other; no secret is not sealed.
LEMMA SealOpens ==
  ASSUME NEW k \in Keys, NEW secret \in Secrets \cup {None}
  PROVE  Opens(k, Seal(k, secret)) /\ Unsealed(Seal(k, secret)) = secret
  <1>1. CASE secret = None
    BY <1>1 DEF Seal, Opens, Unsealed
  <1>2. CASE secret # None
    <2>1. Seal(k, secret) = [key |-> k, secret |-> secret]
      BY <1>2 DEF Seal
    <2>2. [key |-> k, secret |-> secret] # None
      BY <1>2, MasterPasswordAssumption DEF Keys
    <2>3. QED
      BY <2>1, <2>2 DEF Opens, Unsealed
  <1>3. QED
    BY <1>1, <1>2

\* What is written with a key holds what it was given.
LEMMA ContentHolds ==
  ASSUME NEW k \in Keys, NEW cfg \in ConfigShape
  PROVE  Holds(Content(k, cfg), cfg.password)
  BY DEF Holds, Content, ConfigShape

\* A cut file holds nothing that anybody could open.
LEMMA CutHolds ==
  ASSUME NEW k, NEW cfg, NEW secrets
  PROVE  Holds([Content(k, cfg) EXCEPT !.whole = FALSE], secrets)
  BY DEF Holds, Content

-----------------------------------------------------------------------------
(* Saving                                                                   *)

\* atomic_write_text leaves the file, or writes the new one, whole or not.
LEMMA WritesHold ==
  ASSUME NEW f, NEW k \in Keys, NEW cfg \in ConfigShape, NEW budget \in Budget,
         NEW w \in Writes(f, Content(k, cfg), budget)
  PROVE  /\ w.used \in Budget
         /\ w.thrown => w.file = f
         /\ ~w.thrown => Holds(w.file, cfg.password)
         /\ Holds(f, cfg.password) => Holds(w.file, cfg.password)
  <1>1. CASE w = [file |-> Content(k, cfg), thrown |-> FALSE, used |-> budget]
    BY <1>1, ContentHolds
  <1>2. CASE w = [file |-> f, thrown |-> TRUE, used |-> [budget EXCEPT !.failures = @ + 1]]
    BY <1>2 DEF Budget
  <1>3. CASE w = [file |-> [Content(k, cfg) EXCEPT !.whole = FALSE], thrown |-> FALSE,
                  used |-> [budget EXCEPT !.cuts = @ + 1]]
    BY <1>3, CutHolds DEF Budget
  <1>4. QED
    BY <1>1, <1>2, <1>3 DEF Writes

\* The backup saves the same secrets once more.
LEMMA BackedUpHolds ==
  ASSUME NEW f, NEW cfg \in ConfigShape, NEW k \in Keys, NEW budget \in Budget,
         clock \in Nat, Holds(f, cfg.password), NEW b \in BackedUp(f, cfg, k, budget)
  PROVE  b.config \in ConfigShape /\ b.used \in Budget /\ Holds(b.file, cfg.password)
  <1>1. CASE Due(cfg)
    <2> DEFINE copied == [cfg EXCEPT !.last_backup = clock]
               spent  == [budget EXCEPT !.backups = @ + 1]
    <2>1. copied \in ConfigShape /\ copied.password = cfg.password /\ spent \in Budget
      BY DEF ConfigShape, Budget
    <2>2. PICK w \in Writes(f, Content(k, copied), spent) :
            b.file = w.file /\ b.config = copied /\ b.used = w.used
      BY <1>1 DEF BackedUp
    <2> HIDE DEF copied, spent
    <2>3. w.used \in Budget /\ (Holds(f, copied.password) => Holds(w.file, copied.password))
      BY <2>1, WritesHold
    <2>4. QED
      BY <2>1, <2>2, <2>3
  <1>2. CASE ~Due(cfg)
    BY <1>2 DEF BackedUp
  <1>3. QED
    BY <1>1, <1>2

\* save_config and maybe_run_backup, whatever fails of it.
LEMMA SaveKeeps ==
  ASSUME IInv, NEW cfg \in ConfigShape, NEW k \in Keys, NEW budget \in Budget, NEW ifThrown,
         SaveAndBackUp(cfg, k, budget, ifThrown)
  PROVE  /\ config' \in ConfigShape /\ used' \in Budget /\ saved' \in Held
         /\ Holds(file', saved')
         /\ phase' \in {ifThrown, "open"}
  <1>1. PICK w \in Writes(file, Content(k, cfg), budget) :
          IF w.thrown
          THEN /\ config' = cfg /\ file' = w.file /\ used' = w.used /\ phase' = ifThrown
               /\ UNCHANGED <<backups, saved>>
          ELSE \E b \in BackedUp(w.file, [cfg EXCEPT !.vault = k], k, w.used) :
               /\ config' = b.config /\ file' = b.file /\ used' = b.used /\ phase' = "open"
               /\ backups' = b.backups /\ saved' = cfg.password
    BY DEF SaveAndBackUp
  <1>2. /\ w.used \in Budget
        /\ w.thrown => w.file = file
        /\ ~w.thrown => Holds(w.file, cfg.password)
    BY WritesHold
  <1>3. CASE w.thrown
    BY <1>1, <1>2, <1>3 DEF IInv
  <1>4. CASE ~w.thrown
    <2> DEFINE new == [cfg EXCEPT !.vault = k]
    <2>1. new \in ConfigShape /\ new.password = cfg.password /\ cfg.password \in Held
      BY DEF ConfigShape
    <2>2. PICK b \in BackedUp(w.file, new, k, w.used) :
            /\ config' = b.config /\ file' = b.file /\ used' = b.used /\ phase' = "open"
            /\ saved' = cfg.password
      BY <1>1, <1>4
    <2>3. b.config \in ConfigShape /\ b.used \in Budget /\ Holds(b.file, new.password)
      BY <1>2, <1>4, <2>1, BackedUpHolds DEF IInv
    <2>4. QED
      BY <2>1, <2>2, <2>3
  <1>5. QED
    BY <1>3, <1>4

-----------------------------------------------------------------------------
(* The handlers                                                             *)

LEMMA StartKeeps == IInv /\ Start => IInv'
  <1> SUFFICES ASSUME IInv, Start PROVE IInv'
    OBVIOUS
  <1>1. NoSecrets \in Held
    BY DEF NoSecrets, Held
  <1>2. NewConfig \in ConfigShape
    BY <1>1 DEF NewConfig, ConfigShape, Keys
  <1>3. config' \in ConfigShape /\ (config'.vault # None => file.there /\ file.whole)
    <2>1. CASE file.there
      BY <1>2, <2>1 DEF Start, Loaded, ConfigShape, IInv, Holds, NewConfig
    <2>2. CASE ~file.there
      BY <1>2, <2>2 DEF Start, Loaded, NewConfig
    <2>3. QED
      BY <2>1, <2>2
  <1>4. QED
    BY <1>3 DEF Start, IInv, Holds

\* A key that is made anew.
LEMMA NewKey ==
  ASSUME IInv, NEW password \in Passwords, used.salts < MaxSalts
  PROVE  /\ Key(password, used.salts + 1) \in Keys
         /\ [used EXCEPT !.salts = @ + 1] \in Budget
  BY MasterPasswordAssumption DEF IInv, Budget, Key, Keys

LEMMA SetUpKeeps ==
  ASSUME IInv, NEW password \in Passwords, SetUp(password)
  PROVE  IInv'
  <1> DEFINE k == Key(password, used.salts + 1)
             cfg == [config EXCEPT !.vault = k]
             budget == [used EXCEPT !.salts = @ + 1]
  <1>1. k \in Keys /\ budget \in Budget
    BY NewKey DEF SetUp
  <1>2. cfg \in ConfigShape
    BY <1>1 DEF IInv, ConfigShape
  <1>3. SaveAndBackUp(cfg, k, budget, "off") /\ key' = k /\ clock' = clock
    BY DEF SetUp, Enter
  <1>4. QED
    BY <1>1, <1>2, <1>3, SaveKeeps DEF IInv

\* The secrets that are loaded are those of the file.
LEMMA UnlockKeeps ==
  ASSUME IInv, NEW password \in Passwords, Unlock(password)
  PROVE  IInv'
  <1>1. config.vault # None /\ file.there /\ file.whole /\ phase = "dialog"
    BY DEF Unlock, Unlocks, IInv
  <1>2. key' \in Keys /\ clock' = clock
    BY DEF Unlock, IInv, ConfigShape
  <1>3. CASE \A s \in Servers : Opens(key', file.blob[s])
    <2> DEFINE cfg == [config EXCEPT !.password = SecretsIn(file)]
    <2>1. SecretsIn(file) \in Held
      <3>1. \A s \in Servers : Unsealed(file.blob[s]) = saved[s]
        BY <1>1, SealOpens DEF IInv, Holds, Held
      <3>2. QED
        BY <3>1 DEF SecretsIn, IInv, Held
    <2>2. cfg \in ConfigShape
      BY <2>1 DEF IInv, ConfigShape
    <2>3. SaveAndBackUp(cfg, key', used, "off")
      BY <1>3 DEF Unlock, Enter
    <2>4. /\ config' \in ConfigShape /\ used' \in Budget /\ saved' \in Held
          /\ Holds(file', saved') /\ phase' \in {"off", "open"}
      <3> DEFINE k == key'
      <3>1. \A x \in Keys : SaveAndBackUp(cfg, x, used, "off") =>
               /\ config' \in ConfigShape /\ used' \in Budget /\ saved' \in Held
               /\ Holds(file', saved') /\ phase' \in {"off", "open"}
        BY <2>2, SaveKeeps DEF IInv
      <3>2. QED
        BY <1>2, <2>3, <3>1
    <2>5. QED
      BY <1>2, <2>4 DEF IInv
  <1>4. CASE ~\A s \in Servers : Opens(key', file.blob[s])
    BY <1>1, <1>2, <1>4 DEF Unlock, IInv
  <1>5. QED
    BY <1>3, <1>4

LEMMA TryPasswordKeeps == IInv /\ TryPassword => IInv'
  <1> SUFFICES ASSUME IInv, TryPassword PROVE IInv'
    OBVIOUS
  <1>1. PICK new : TryWrong(new)
    BY DEF TryPassword
  <1>2. used' \in Budget
    BY <1>1 DEF TryWrong, IInv, Budget
  <1>3. UNCHANGED <<key, config, file, clock, saved>> /\ phase = "dialog"
    BY <1>1 DEF TryWrong
  <1>4. QED
    BY <1>2, <1>3 DEF IInv, Holds

LEMMA EndsKeeps == IInv /\ Ends => IInv'
  <1>1. NewConfig \in ConfigShape
    BY DEF NewConfig, ConfigShape, NoSecrets, Held, Keys
  <1>2. QED
    BY <1>1 DEF IInv, Ends, Keys, Holds

LEMMA SetSecretKeeps ==
  ASSUME IInv, NEW s \in Servers, NEW secret \in Secrets \cup {None}, SetSecret(s, secret)
  PROVE  IInv'
  <1> DEFINE cfg == [config EXCEPT !.password[s] = secret]
             budget == [used EXCEPT !.edits = @ + 1]
  <1>1. cfg \in ConfigShape /\ budget \in Budget
    BY DEF IInv, ConfigShape, Held, Budget
  <1>2. SaveAndBackUp(cfg, key, budget, "open") /\ UNCHANGED <<key, clock>>
    BY DEF SetSecret, Persist
  <1>3. QED
    BY <1>1, <1>2, SaveKeeps DEF IInv

LEMMA ChangeMasterKeeps ==
  ASSUME IInv, NEW old \in Passwords, NEW password \in Passwords, ChangeMaster(old, password)
  PROVE  IInv'
  <1> DEFINE k == Key(password, used.salts + 1)
             budget == [used EXCEPT !.salts = @ + 1]
  <1>1. k \in Keys /\ budget \in Budget
    BY NewKey DEF ChangeMaster
  <1>2. SaveAndBackUp(config, k, budget, "open") /\ key' = k /\ clock' = clock
    BY DEF ChangeMaster, Persist
  <1>3. config \in ConfigShape
    BY DEF IInv
  <1>4. QED
    BY <1>1, <1>2, <1>3, SaveKeeps DEF IInv

-----------------------------------------------------------------------------
(* The theorem                                                              *)

\* Before the first start there is nothing to hold.
LEMMA InitHolds == Init => IInv
  BY DEF Init, IInv, NoFile, Holds, NewConfig, ConfigShape, NoSecrets, Held, Keys, Budget

LEMMA NextKeeps == IInv /\ [Next]_vars => IInv'
  <1> SUFFICES ASSUME IInv, [Next]_vars PROVE IInv'
    OBVIOUS
  <1>1. CASE Tick
    BY <1>1 DEF Tick, IInv, Holds
  <1>2. CASE UNCHANGED vars
    BY <1>2 DEF vars, IInv, Holds
  <1>3. QED
    BY <1>1, <1>2, StartKeeps, TryPasswordKeeps, EndsKeeps, SetUpKeeps, UnlockKeeps,
       ChangeMasterKeeps, SetSecretKeeps DEF Next

\* Whoever opens a whole config.json with the key it was written with reads every
\* password as the last save to return has written it (save_config_to, unlock_secrets,
\* ChangeMasterDialog), for any number of passwords, servers, failures and restarts.
THEOREM SecretsAlwaysReadable == Spec => []SecretsReadable
  <1>1. IInv => SecretsReadable
    BY SealOpens DEF IInv, Holds, Held, SecretsReadable
  <1>2. QED
    BY <1>1, InitHolds, NextKeeps, PTL DEF Spec
-----------------------------------------------------------------------------
(* Copies                                                                   *)

Cut(B) == {b \in B : ~b.whole}

\* Of the copies B, when u is used up: all that were made are there, or as many as are
\* kept; and each cut one has cost a write that was cut short.
Copies(B, u) ==
  /\ IsFiniteSet(B)
  /\ Cardinality(B) \in {Keep, u.backups}
  /\ \A b \in B : b.n \in Nat /\ b.n <= u.backups
  /\ Cardinality(Cut(B)) <= u.cuts

\* Pruning leaves the number of copies that is kept, and makes no cut copy.
LEMMA PrunedCopies ==
  ASSUME NEW B, NEW u \in Budget, IsFiniteSet(B),
         Cardinality(B) \in {Keep + 1, u.backups},
         \A b \in B : b.n \in Nat /\ b.n <= u.backups,
         Cardinality(Cut(B)) <= u.cuts,
         NEW P \in Pruned(B)
  PROVE  Copies(P, u)
  <1>1. P \subseteq B /\ Cardinality(P) \in {Keep, u.backups}
    BY MasterPasswordAssumption DEF Pruned, Budget
  <1>2. IsFiniteSet(P)
    BY <1>1, FS_Subset
  <1>3. Cardinality(Cut(P)) <= u.cuts
    <2>1. IsFiniteSet(Cut(B)) /\ Cut(P) \subseteq Cut(B)
      BY <1>1, FS_Subset DEF Cut
    <2>2. /\ Cardinality(Cut(P)) <= Cardinality(Cut(B)) /\ IsFiniteSet(Cut(P))
      BY <2>1, FS_Subset
    <2>3. Cardinality(Cut(P)) \in Nat /\ Cardinality(Cut(B)) \in Nat
      BY <2>1, <2>2, FS_CardinalityType
    <2>4. QED
      BY <2>2, <2>3 DEF Budget
  <1>4. QED
    BY <1>1, <1>2, <1>3 DEF Copies

\* One more copy, whole or paid for.
LEMMA CopyAdded ==
  ASSUME NEW B, NEW u \in Budget, NEW u2 \in Budget, Copies(B, u),
         u2.backups = u.backups + 1, u2.cuts >= u.cuts,
         NEW c, c.n = u2.backups, ~c.whole => u2.cuts >= u.cuts + 1,
         NEW P \in Pruned(B \cup {c})
  PROVE  Copies(P, u2)
  <1>1. c \notin B
    BY DEF Copies, Budget
  <1>2. /\ IsFiniteSet(B \cup {c})
        /\ Cardinality(B \cup {c}) \in {Keep + 1, u2.backups}
    <2>1. IsFiniteSet(B) /\ Cardinality(B) \in {Keep, u.backups}
      BY DEF Copies
    <2>2. IsFiniteSet(B \cup {c}) /\ Cardinality(B \cup {c}) = Cardinality(B) + 1
      BY <1>1, <2>1, FS_AddElement
    <2>3. QED
      BY <2>1, <2>2
  <1>3. \A b \in B \cup {c} : b.n \in Nat /\ b.n <= u2.backups
    BY DEF Copies, Budget
  <1>4. Cardinality(Cut(B \cup {c})) <= u2.cuts
    <2>1. IsFiniteSet(Cut(B)) /\ Cardinality(Cut(B)) \in Nat /\ Cardinality(Cut(B)) <= u.cuts
      BY FS_Subset, FS_CardinalityType DEF Copies, Cut
    <2>2. CASE c.whole
      <3>1. Cut(B \cup {c}) = Cut(B)
        BY <2>2 DEF Cut
      <3>2. QED
        BY <2>1, <3>1 DEF Budget
    <2>3. CASE ~c.whole
      <3>1. Cut(B \cup {c}) = Cut(B) \cup {c} /\ c \notin Cut(B)
        BY <1>1, <2>3 DEF Cut
      <3>2. Cardinality(Cut(B \cup {c})) = Cardinality(Cut(B)) + 1
        BY <2>1, <3>1, FS_AddElement
      <3>3. QED
        BY <2>1, <2>3, <3>2 DEF Budget
    <2>4. QED
      BY <2>2, <2>3
  <1>5. QED
    BY <1>2, <1>3, <1>4, PrunedCopies

\* A write that leaves a cut file has used up one of those that may be cut short.
LEMMA WriteCounts ==
  ASSUME NEW f, NEW k, NEW cfg, NEW u \in Budget, NEW w \in Writes(f, Content(k, cfg), u)
  PROVE  /\ w.used \in Budget /\ w.used.backups = u.backups /\ w.used.cuts >= u.cuts
         /\ ~w.thrown /\ ~w.file.whole => w.used.cuts >= u.cuts + 1
  <1>1. CASE w = [file |-> Content(k, cfg), thrown |-> FALSE, used |-> u]
    BY <1>1 DEF Content, Budget
  <1>2. CASE w = [file |-> f, thrown |-> TRUE, used |-> [u EXCEPT !.failures = @ + 1]]
    BY <1>2 DEF Budget
  <1>3. CASE w = [file |-> [Content(k, cfg) EXCEPT !.whole = FALSE], thrown |-> FALSE,
                  used |-> [u EXCEPT !.cuts = @ + 1]]
    BY <1>3 DEF Budget
  <1>4. QED
    BY <1>1, <1>2, <1>3 DEF Writes

\* A save keeps what Copies says, whichever of its writes fails or is cut.
LEMMA SaveCopies ==
  ASSUME Copies(backups, used), used \in Budget,
         NEW cfg, NEW k, NEW u \in Budget, u.backups = used.backups, u.cuts = used.cuts,
         NEW ifThrown, SaveAndBackUp(cfg, k, u, ifThrown)
  PROVE  Copies(backups, used)'
  <1>0. Copies(backups, u)
    BY DEF Copies
  <1>1. PICK w \in Writes(file, Content(k, cfg), u) :
          \/ w.thrown /\ used' = w.used /\ backups' = backups
          \/ /\ ~w.thrown
             /\ \E b \in BackedUp(w.file, [cfg EXCEPT !.vault = k], k, w.used) :
                  used' = b.used /\ backups' = b.backups
    BY DEF SaveAndBackUp
  <1>2. /\ w.used \in Budget /\ w.used.backups = u.backups /\ w.used.cuts >= u.cuts
        /\ ~w.thrown /\ ~w.file.whole => w.used.cuts >= u.cuts + 1
    BY WriteCounts
  <1>3. Cardinality(Cut(backups)) \in Nat
    BY <1>0, FS_Subset, FS_CardinalityType DEF Copies, Cut
  <1>4. Copies(backups, w.used)
    BY <1>0, <1>2, <1>3 DEF Copies, Budget
  <1>5. CASE w.thrown \/ (used' = w.used /\ backups' = backups)
    BY <1>1, <1>4, <1>5 DEF Copies
  <1>6. ASSUME ~w.thrown, NEW new,
               NEW b \in BackedUp(w.file, new, k, w.used), used' = b.used, backups' = b.backups
        PROVE  Copies(backups, used)'
    <2>1. CASE ~Due(new)
      BY <1>4, <1>6, <2>1 DEF BackedUp, Copies
    <2>2. CASE Due(new)
      <3> DEFINE copied == [new EXCEPT !.last_backup = clock]
                 spent  == [w.used EXCEPT !.backups = @ + 1]
                 copy   == [n |-> w.used.backups + 1, at |-> clock, whole |-> w.file.whole]
                 Lefts  == Pruned(backups \cup {copy})
                 Again  == Writes(w.file, Content(k, copied), spent)
      <3>1. PICK left \in Lefts, v \in Again : used' = v.used /\ backups' = left
        <4> DEFINE Outcome(left, v) ==
                     [file |-> v.file, config |-> copied, backups |-> left, used |-> v.used]
        <4>1. BackedUp(w.file, new, k, w.used) = {Outcome(left, v) : left \in Lefts, v \in Again}
          BY <2>2 DEF BackedUp
        <4>2. \A left, v : Outcome(left, v).used = v.used /\ Outcome(left, v).backups = left
          OBVIOUS
        <4> HIDE DEF Outcome, Lefts, Again
        <4>3. PICK left \in Lefts, v \in Again : b = Outcome(left, v)
          BY <1>6, <4>1
        <4>4. QED
          BY <1>6, <4>2, <4>3
      <3>2. spent \in Budget /\ spent.backups = w.used.backups + 1 /\ spent.cuts = w.used.cuts
        BY <1>2 DEF Budget
      <3>3. copy.n = w.used.backups + 1 /\ copy.whole = w.file.whole
        OBVIOUS
      <3> HIDE DEF copied, spent, copy
      <3>4. v.used \in Budget /\ v.used.backups = spent.backups /\ v.used.cuts >= spent.cuts
        BY <3>2, WriteCounts
      <3>5. /\ v.used.backups = u.backups + 1 /\ v.used.cuts >= u.cuts
            /\ ~copy.whole => v.used.cuts >= u.cuts + 1
            /\ copy.n = v.used.backups
        BY <1>2, <1>6, <3>2, <3>3, <3>4 DEF Budget
      <3>6. Copies(left, v.used)
        BY <1>0, <3>4, <3>5, CopyAdded
      <3>7. QED
        BY <3>1, <3>6 DEF Copies
    <2>3. QED
      BY <2>1, <2>2
  <1>7. QED
    BY <1>1, <1>5, <1>6

LEMMA NextCopies == IInv /\ Copies(backups, used) /\ [Next]_vars => Copies(backups, used)'
  <1> SUFFICES ASSUME IInv, Copies(backups, used), [Next]_vars PROVE Copies(backups, used)'
    OBVIOUS
  <1>1. used \in Budget
    BY DEF IInv
  <1>2. ASSUME UNCHANGED backups, used'.backups = used.backups, used'.cuts >= used.cuts,
               used' \in Budget
        PROVE  Copies(backups, used)'
    <2>1. Cardinality(Cut(backups)) \in Nat
      BY FS_Subset, FS_CardinalityType DEF Copies, Cut
    <2>2. QED
      BY <1>1, <1>2, <2>1 DEF Copies, Budget
  <1>3. CASE Start \/ Ends \/ Tick \/ UNCHANGED vars
    BY <1>1, <1>2, <1>3 DEF Start, Ends, Tick, vars, Budget
  <1>4. CASE TryPassword
    BY <1>1, <1>2, <1>4 DEF TryPassword, TryWrong, Budget
  <1>5. CASE \E p \in Passwords : SetUp(p)
    BY <1>1, <1>5, SaveCopies DEF SetUp, Enter, Budget
  <1>6. CASE \E p \in Passwords : Unlock(p)
    BY <1>1, <1>2, <1>6, SaveCopies DEF Unlock, Enter, Budget
  <1>7. CASE \E p, q \in Passwords : ChangeMaster(p, q)
    BY <1>1, <1>7, SaveCopies DEF ChangeMaster, Persist, Budget
  <1>8. CASE \E s \in Servers, x \in Secrets \cup {None} : SetSecret(s, x)
    BY <1>1, <1>8, SaveCopies DEF SetSecret, Persist, Budget
  <1>9. QED
    BY <1>3, <1>4, <1>5, <1>6, <1>7, <1>8 DEF Next

\* Once a copy of config.json has been made, a whole one is there as long as fewer writes
\* have been cut short than copies are kept, whatever the copies' times, the clock and the
\* order of saves (maybe_backup_config, prune_backups, atomic_write_text).
THEOREM AWholeCopySurvives == Spec => []BackupSurvives
  <1>1. IInv /\ Copies(backups, used) => BackupSurvives
    <2> SUFFICES ASSUME used \in Budget, Copies(backups, used), used.cuts < Keep,
                        used.backups > used.cuts, Cut(backups) = backups
                 PROVE  FALSE
      BY DEF IInv, BackupSurvives, Cut
    <2>1. QED
      BY MasterPasswordAssumption DEF Copies, Budget
  <1>2. Init => Copies(backups, used)
    BY FS_EmptySet DEF Init, Copies, Cut
  <1>3. QED
    BY <1>1, <1>2, InitHolds, NextKeeps, NextCopies, PTL DEF Spec
-----------------------------------------------------------------------------
(* Wrong passwords                                                          *)

\* The tries i and i + 1 of g are a lockout apart, but for its last second.
Apart(g, i) == g[i + 1] - g[i] > LockTime - 2

\* What lockout.json says at the time c of the tries g: nothing, when there were none since
\* a right password; fewer than are allowed, all of them since the last lockout or the
\* beginning; or a lockout that began with the last of them.
Tallied(g, l, c) ==
  /\ g \in Seq(Nat) /\ Len(g) <= MaxAttempts + 1
  /\ \A i \in 1 .. Len(g) : g[i] <= c
  /\ \A i, j \in 1 .. Len(g) : i <= j => g[i] <= g[j]
  /\ l \in [failed : Nat, until : Nat]
  /\ \/ l = NoLockout /\ g = <<>>
     \/ /\ l.until = 0 /\ l.failed \in 1 .. MaxAttempts - 1 /\ l.failed <= Len(g)
        /\ l.failed < Len(g) => Apart(g, Len(g) - l.failed)
     \/ /\ l.failed >= MaxAttempts /\ g # <<>>
        /\ l.until = g[Len(g)] + LockTime
  /\ Len(g) > MaxAttempts => g[MaxAttempts + 1] - g[1] > LockTime - 2

GuessInv == MaxAttempts > 0 /\ used.failures = 0 /\ used.cuts = 0 => Tallied(guesses, lockout, clock)

\* Of the tries g and one more, the last MaxAttempts + 1 stay, in their order.
LEMMA LastTriesAre ==
  ASSUME NEW g \in Seq(Nat), Len(g) <= MaxAttempts + 1, MaxAttempts > 0, NEW c \in Nat
  PROVE  \E d \in {0, 1} :
           /\ d = 1 <=> Len(g) = MaxAttempts + 1
           /\ LastTries(Append(g, c)) \in Seq(Nat)
           /\ Len(LastTries(Append(g, c))) = Len(g) + 1 - d
           /\ \A i \in 1 .. Len(g) - d : LastTries(Append(g, c))[i] = g[i + d]
           /\ LastTries(Append(g, c))[Len(g) + 1 - d] = c
  <1> DEFINE t == Append(g, c)
             d == IF Len(g) = MaxAttempts + 1 THEN 1 ELSE 0
  <1>1. /\ t \in Seq(Nat) /\ Len(t) = Len(g) + 1 /\ t[Len(g) + 1] = c
        /\ \A i \in 1 .. Len(g) : t[i] = g[i]
    OBVIOUS
  <1>2. MaxAttempts \in Nat /\ Len(g) \in Nat /\ d \in {0, 1}
    BY MasterPasswordAssumption
  <1> HIDE DEF t
  <1>3. LastTries(t) = SubSeq(t, d + 1, Len(t))
    <2>1. (IF Len(t) > MaxAttempts THEN Len(t) - MaxAttempts ELSE 1) = d + 1
      BY <1>1, <1>2
    <2> HIDE DEF d
    <2>2. QED
      BY <2>1 DEF LastTries
  <1>4. /\ SubSeq(t, d + 1, Len(t)) \in Seq(Nat)
        /\ Len(SubSeq(t, d + 1, Len(t))) = Len(t) - d
        /\ \A i \in 1 .. Len(t) - d : SubSeq(t, d + 1, Len(t))[i] = t[i + d]
    <2>1. d + 1 \in 1 .. Len(t) + 1 /\ Len(t) \in Nat /\ d \in Nat
      BY <1>1, <1>2
    <2>2. DOMAIN SubSeq(t, d + 1, Len(t)) = 1 .. Len(t) - d
      BY <1>1, <2>1
    <2> HIDE DEF d
    <2>3. QED
      BY <1>1, <2>1
  <1>5. /\ d = 1 <=> Len(g) = MaxAttempts + 1
        /\ Len(LastTries(t)) = Len(g) + 1 - d
        /\ \A i \in 1 .. Len(g) - d : LastTries(t)[i] = g[i + d]
        /\ LastTries(t)[Len(g) + 1 - d] = c
    <2>1. Len(t) - d = Len(g) + 1 - d /\ (d = 1 <=> Len(g) = MaxAttempts + 1)
      BY <1>1, <1>2
    <2>2. ASSUME NEW i \in 1 .. Len(g) - d PROVE LastTries(t)[i] = g[i + d]
      <3>1. i \in 1 .. Len(t) - d /\ i + d \in 1 .. Len(g)
        BY <1>1, <1>2
      <3> HIDE DEF d
      <3>2. QED
        BY <1>1, <1>3, <1>4, <3>1
    <2>3. LastTries(t)[Len(g) + 1 - d] = c
      <3>1. Len(g) + 1 - d \in 1 .. Len(t) - d /\ Len(g) + 1 - d + d = Len(g) + 1
        BY <1>1, <1>2
      <3>2. QED
        BY <1>1, <1>3, <1>4, <3>1
    <2>4. Len(LastTries(t)) = Len(g) + 1 - d
      BY <1>3, <1>4, <2>1
    <2> HIDE DEF d
    <2>5. QED
      BY <2>1, <2>2, <2>3, <2>4
  <1>6. QED
    BY <1>2, <1>3, <1>4, <1>5 DEF t

\* A wrong password that is not refused comes a lockout after the one that began the last
\* lockout, but for its last second.
LEMMA NotBlocked ==
  ASSUME MaxAttempts > 0, clock \in Nat, NEW g, NEW l, Tallied(g, l, clock), ~Blocks(l),
         l.failed >= MaxAttempts
  PROVE  g # <<>> /\ clock - g[Len(g)] > LockTime - 2
  <1>1. MaxAttempts \in Nat /\ LockTime \in Nat \ {0}
    BY MasterPasswordAssumption
  <1>2. g # <<>> /\ g[Len(g)] \in Nat /\ l.until = g[Len(g)] + LockTime /\ l.until \in Nat
    BY <1>1 DEF Tallied, NoLockout
  <1>3. CASE clock >= l.until
    BY <1>1, <1>2, <1>3
  <1>4. CASE clock < l.until
    <2>1. Normalized(l) = l /\ l.until > 0
      BY <1>1, <1>2, <1>4 DEF Normalized
    <2>2. ~((l.until - clock) \div 2 > 0)
      BY <2>1 DEF Blocks
    <2>3. l.until - clock < 2
      BY <1>2, <1>4, <2>2
    <2>4. QED
      BY <1>1, <1>2, <2>3
  <1>5. QED
    BY <1>2, <1>3, <1>4

\* One more is counted: what lockout.json says then is still true of the tries.
LEMMA CountedTallies ==
  ASSUME MaxAttempts > 0, clock \in Nat, NEW g, NEW l, Tallied(g, l, clock), ~Blocks(l)
  PROVE  Tallied(LastTries(Append(g, clock)), Counted(Normalized(l).failed + 1), clock)
  <1> DEFINE t == LastTries(Append(g, clock))
             n == Len(g)
             f == Normalized(l).failed + 1
  <1>1. MaxAttempts \in Nat /\ LockTime \in Nat \ {0}
    BY MasterPasswordAssumption
  <1>2. /\ g \in Seq(Nat) /\ n \in Nat /\ n <= MaxAttempts + 1
        /\ \A i \in 1 .. n : g[i] \in Nat /\ g[i] <= clock
        /\ \A i, j \in 1 .. n : i <= j => g[i] <= g[j]
        /\ l \in [failed : Nat, until : Nat]
    BY DEF Tallied
  <1>3. PICK d \in {0, 1} :
          /\ d = 1 <=> n = MaxAttempts + 1
          /\ t \in Seq(Nat) /\ Len(t) = n + 1 - d
          /\ \A i \in 1 .. n - d : t[i] = g[i + d]
          /\ t[n + 1 - d] = clock
    BY <1>1, <1>2, LastTriesAre
  <1> HIDE DEF t, n
  <1>4. /\ Len(t) <= MaxAttempts + 1
        /\ \A i \in 1 .. Len(t) : t[i] \in Nat /\ t[i] <= clock
        /\ \A i, j \in 1 .. Len(t) : i <= j => t[i] <= t[j]
    <2>1. \A i \in 1 .. n - d : t[i] = g[i + d] /\ i + d \in 1 .. n
      BY <1>2, <1>3
    <2>2. \A i \in 1 .. Len(t) : i \in 1 .. n - d \/ i = n + 1 - d
      BY <1>2, <1>3
    <2>3. ASSUME NEW i \in 1 .. Len(t) PROVE t[i] \in Nat /\ t[i] <= clock
      <3>1. CASE i \in 1 .. n - d
        BY <1>2, <2>1, <3>1
      <3>2. CASE i = n + 1 - d
        BY <1>3, <3>2
      <3>3. QED
        BY <2>2, <3>1, <3>2
    <2>4. ASSUME NEW i \in 1 .. Len(t), NEW j \in 1 .. Len(t), i <= j PROVE t[i] <= t[j]
      <3>1. CASE j = n + 1 - d
        BY <1>3, <2>3, <3>1
      <3>2. CASE j \in 1 .. n - d
        <4>1. i \in 1 .. n - d
          BY <1>2, <1>3, <2>4, <3>2
        <4>2. i + d \in 1 .. n /\ j + d \in 1 .. n /\ i + d <= j + d
          BY <2>1, <2>4, <3>2, <4>1
        <4>3. QED
          BY <1>2, <2>1, <3>2, <4>1, <4>2
      <3>3. QED
        BY <2>2, <3>1, <3>2
    <2>5. QED
      BY <1>1, <1>2, <1>3, <2>3, <2>4
  <1>5. f \in Nat \ {0}
    BY <1>2 DEF Normalized, NoLockout
  <1>6. /\ f < MaxAttempts =>
             \/ f = 1 /\ n > 0 /\ clock - g[n] > LockTime - 2
             \/ f = 1 /\ n = 0
             \/ f - 1 \in 1 .. n /\ (f - 1 < n => Apart(g, n - (f - 1)))
        /\ n >= MaxAttempts => \/ clock - g[n] > LockTime - 2
                               \/ l.failed \in 1 .. MaxAttempts - 1 /\ Apart(g, n - l.failed)
    <2>1. CASE l = NoLockout /\ g = <<>>
      <3>1. f = 1 /\ n = 0
        BY <2>1 DEF Normalized, NoLockout, n
      <3>2. QED
        BY <1>1, <3>1
    <2>2. CASE /\ l.until = 0 /\ l.failed \in 1 .. MaxAttempts - 1 /\ l.failed <= n
               /\ l.failed < n => Apart(g, n - l.failed)
      <3>1. f - 1 = l.failed
        BY <1>2, <2>2 DEF Normalized
      <3>2. QED
        BY <1>1, <1>2, <2>2, <3>1
    <2>3. CASE /\ l.failed >= MaxAttempts /\ g # <<>> /\ l.until = g[n] + LockTime
      <3>1. clock - g[n] > LockTime - 2 /\ n > 0
        BY <1>2, <2>3, NotBlocked DEF n
      <3>2. f < MaxAttempts => f = 1
        BY <1>1, <1>2, <2>3 DEF Normalized, NoLockout
      <3>3. QED
        BY <3>1, <3>2
    <2>4. QED
      BY <2>1, <2>2, <2>3 DEF Tallied, n
  <1>7. ASSUME NEW i \in 1 .. n - 1, Apart(g, i), i - d >= 1
        PROVE  Apart(t, i - d)
    <2>1. i - d \in 1 .. n - d /\ i + 1 - d \in 1 .. n - d
      BY <1>2, <1>3, <1>7
    <2>2. t[i - d] = g[i] /\ t[i - d + 1] = g[i + 1]
      <3>1. t[i - d] = g[i - d + d] /\ t[i + 1 - d] = g[i + 1 - d + d]
        BY <1>3, <2>1
      <3>2. i - d + d = i /\ i + 1 - d + d = i + 1 /\ i - d + 1 = i + 1 - d
        BY <1>3
      <3>3. QED
        BY <3>1, <3>2
    <2>3. QED
      BY <1>7, <2>2 DEF Apart
  <1>8. ASSUME n > d, clock - g[n] > LockTime - 2 PROVE Apart(t, n - d)
    <2>1. t[n - d] = g[n] /\ t[n - d + 1] = clock
      <3>1. n - d \in 1 .. n - d /\ n - d + d = n /\ n - d + 1 = n + 1 - d
        BY <1>2, <1>3, <1>8
      <3>2. QED
        BY <1>3, <3>1
    <2>2. QED
      BY <1>8, <2>1 DEF Apart
  <1>9. Len(t) > MaxAttempts => t[MaxAttempts + 1] - t[1] > LockTime - 2
    <2> SUFFICES ASSUME Len(t) > MaxAttempts PROVE t[MaxAttempts + 1] - t[1] > LockTime - 2
      OBVIOUS
    <2>1. Len(t) = MaxAttempts + 1 /\ n = MaxAttempts + d
      BY <1>1, <1>2, <1>3
    <2>2. PICK k \in 1 .. MaxAttempts : Apart(t, k)
      <3>1. CASE clock - g[n] > LockTime - 2
        BY <1>1, <1>2, <1>3, <1>8, <2>1, <3>1
      <3>2. CASE l.failed \in 1 .. MaxAttempts - 1 /\ Apart(g, n - l.failed)
        <4>1. n - l.failed \in 1 .. n - 1 /\ n - l.failed - d \in 1 .. MaxAttempts
          <5> DEFINE x == l.failed
          <5>1. x \in 1 .. MaxAttempts - 1 /\ d \in {0, 1}
            BY <1>3, <3>2
          <5> HIDE DEF x
          <5>2. n - x \in 1 .. n - 1 /\ n - x - d \in 1 .. MaxAttempts
            BY <1>1, <2>1, <5>1
          <5>3. QED
            BY <5>2 DEF x
        <4>2. QED
          BY <1>7, <3>2, <4>1
      <3>3. n >= MaxAttempts
        BY <1>1, <1>2, <1>3, <2>1
      <3>4. QED
        BY <1>6, <3>1, <3>2, <3>3
    <2>3. /\ k \in 1 .. Len(t) /\ k + 1 \in 1 .. Len(t) /\ 1 \in 1 .. Len(t)
          /\ MaxAttempts + 1 \in 1 .. Len(t)
      BY <1>1, <2>1, <2>2
    <2>4. t[1] <= t[k] /\ t[k + 1] <= t[MaxAttempts + 1]
      BY <1>1, <1>4, <2>1, <2>2, <2>3
    <2>5. /\ t[1] \in Nat /\ t[k] \in Nat /\ t[k + 1] \in Nat /\ t[MaxAttempts + 1] \in Nat
      BY <1>4, <2>3
    <2>6. t[k + 1] - t[k] > LockTime - 2
      BY <2>2 DEF Apart
    <2>7. QED
      BY <1>1, <2>4, <2>5, <2>6
  <1>10. ASSUME f >= MaxAttempts PROVE Tallied(t, Counted(f), clock)
    <2> DEFINE new == [failed |-> f, until |-> clock + LockTime]
    <2>1. Counted(f) = new
      BY <1>10 DEF Counted
    <2>2. new \in [failed : Nat, until : Nat] /\ new.failed = f /\ new.until = clock + LockTime
      BY <1>1, <1>5
    <2>3. t # <<>> /\ t[Len(t)] = clock
      BY <1>2, <1>3, <1>1
    <2> HIDE DEF new, f
    <2>4. QED
      BY <1>3, <1>4, <1>9, <1>10, <2>1, <2>2, <2>3 DEF Tallied
  <1>11. ASSUME f < MaxAttempts PROVE Tallied(t, Counted(f), clock)
    <2> DEFINE new == [failed |-> f, until |-> 0]
    <2>1. Counted(f) = new
      BY <1>5, <1>1, <1>11 DEF Counted
    <2>2. new \in [failed : Nat, until : Nat] /\ new.failed = f /\ new.until = 0
      BY <1>5
    <2>3. f \in 1 .. MaxAttempts - 1
      BY <1>1, <1>5, <1>11
    <2>4. f <= Len(t) /\ (f < Len(t) => Apart(t, Len(t) - f))
      <3>1. CASE f = 1 /\ n > 0 /\ clock - g[n] > LockTime - 2
        <4>1. n > d /\ Len(t) - f = n - d /\ f <= Len(t)
          <5> HIDE DEF f
          <5>1. f = 1 /\ n > 0
            BY <3>1
          <5>2. n > d
            BY <1>1, <1>2, <1>3, <5>1
          <5>3. QED
            BY <1>2, <1>3, <5>1, <5>2
        <4>2. QED
          BY <1>8, <3>1, <4>1
      <3>2. CASE f = 1 /\ n = 0
        BY <1>1, <1>3, <3>2
      <3>3. CASE f - 1 \in 1 .. n /\ (f - 1 < n => Apart(g, n - (f - 1)))
        <4>1. f <= Len(t)
          <5> HIDE DEF f
          <5>1. f - 1 <= n /\ f < MaxAttempts
            BY <1>2, <1>11, <3>3
          <5>2. QED
            BY <1>1, <1>2, <1>3, <1>5, <5>1
        <4>2. ASSUME f < Len(t) PROVE Apart(t, Len(t) - f)
          <5>1. /\ f - 1 < n /\ n - (f - 1) \in 1 .. n - 1 /\ n - (f - 1) - d >= 1
                /\ Len(t) - f = n - (f - 1) - d
            <6> HIDE DEF f
            <6>1. f - 1 < n /\ f - 1 >= 1
              BY <1>2, <1>3, <1>5, <3>3, <4>2
            <6>2. QED
              BY <1>2, <1>3, <1>5, <4>2, <6>1
          <5>2. QED
            BY <1>7, <3>3, <5>1
        <4>3. QED
          BY <4>1, <4>2
      <3>4. QED
        BY <1>6, <1>11, <3>1, <3>2, <3>3
    <2> HIDE DEF new, f
    <2>5. QED
      BY <1>3, <1>4, <1>9, <2>1, <2>2, <2>3, <2>4 DEF Tallied
  <1>12. QED
    BY <1>1, <1>5, <1>10, <1>11 DEF t

\* What failed stays on record.
LEMMA WriteSpends ==
  ASSUME NEW f, NEW new, NEW u \in Budget, NEW w \in Writes(f, new, u)
  PROVE  w.used \in Budget /\ w.used.failures >= u.failures /\ w.used.cuts >= u.cuts
  <1>1. CASE w = [file |-> new, thrown |-> FALSE, used |-> u]
    BY <1>1 DEF Budget
  <1>2. CASE w = [file |-> f, thrown |-> TRUE, used |-> [u EXCEPT !.failures = @ + 1]]
    BY <1>2 DEF Budget
  <1>3. CASE w = [file |-> [new EXCEPT !.whole = FALSE], thrown |-> FALSE,
                  used |-> [u EXCEPT !.cuts = @ + 1]]
    BY <1>3 DEF Budget
  <1>4. QED
    BY <1>1, <1>2, <1>3 DEF Writes

\* A save takes back no failure and no cut.
LEMMA SaveSpends ==
  ASSUME NEW cfg, NEW k, NEW u \in Budget, NEW ifThrown, SaveAndBackUp(cfg, k, u, ifThrown)
  PROVE  used'.failures >= u.failures /\ used'.cuts >= u.cuts
  <1>1. PICK w \in Writes(file, Content(k, cfg), u) :
          \/ used' = w.used
          \/ \E b \in BackedUp(w.file, [cfg EXCEPT !.vault = k], k, w.used) : used' = b.used
    BY DEF SaveAndBackUp
  <1>2. w.used \in Budget /\ w.used.failures >= u.failures /\ w.used.cuts >= u.cuts
    BY WriteSpends
  <1>3. ASSUME NEW new, NEW b \in BackedUp(w.file, new, k, w.used), used' = b.used
        PROVE  used' \in Budget /\ used'.failures >= w.used.failures /\ used'.cuts >= w.used.cuts
    <2>1. CASE ~Due(new)
      BY <1>2, <1>3, <2>1 DEF BackedUp, Budget
    <2>2. CASE Due(new)
      <3> DEFINE copied == [new EXCEPT !.last_backup = clock]
                 spent  == [w.used EXCEPT !.backups = @ + 1]
      <3>1. PICK v \in Writes(w.file, Content(k, copied), spent) : b.used = v.used
        BY <1>3, <2>2 DEF BackedUp
      <3>2. spent \in Budget /\ spent.failures = w.used.failures /\ spent.cuts = w.used.cuts
        BY <1>2 DEF Budget
      <3> HIDE DEF copied, spent
      <3>3. v.used \in Budget /\ v.used.failures >= spent.failures /\ v.used.cuts >= spent.cuts
        BY <3>2, WriteSpends
      <3>4. QED
        BY <1>3, <3>1, <3>2, <3>3
    <2>3. QED
      BY <2>1, <2>2
  <1>4. QED
    BY <1>1, <1>2, <1>3 DEF Budget

\* A handler that leaves the tries and what is on record of them.
LEMMA GuessesStay ==
  ASSUME IInv, GuessInv, UNCHANGED <<lockout, guesses, clock>>,
         used'.failures >= used.failures, used'.cuts >= used.cuts, used' \in Budget
  PROVE  GuessInv'
  <1>1. used'.failures = 0 /\ used'.cuts = 0 => used.failures = 0 /\ used.cuts = 0
    BY DEF IInv, Budget
  <1>2. QED
    BY <1>1 DEF GuessInv, Tallied, Apart

\* A save leaves what was guessed as it is.
LEMMA SaveLeavesGuesses ==
  ASSUME IInv, GuessInv, IInv', UNCHANGED <<lockout, guesses, clock>>,
         NEW cfg, NEW k, NEW u \in Budget, u.failures = used.failures, u.cuts = used.cuts,
         NEW ifThrown, SaveAndBackUp(cfg, k, u, ifThrown)
  PROVE  GuessInv'
  <1>1. used'.failures >= used.failures /\ used'.cuts >= used.cuts
    BY SaveSpends
  <1>2. QED
    BY <1>1, GuessesStay DEF IInv

LEMMA UnlockTallies ==
  ASSUME IInv, GuessInv, NEW password \in Passwords, Unlock(password)
  PROVE  GuessInv'
  <1>1. lockout' = NoLockout /\ guesses' = <<>>
    BY DEF Unlock
  <1>2. NoLockout \in [failed : Nat, until : Nat]
    BY DEF NoLockout
  <1>3. MaxAttempts \in Nat /\ <<>> \in Seq(Nat) /\ Len(<<>>) = 0
    BY MasterPasswordAssumption
  <1>4. \A c : MaxAttempts > 0 => Tallied(<<>>, NoLockout, c)
    BY <1>2, <1>3 DEF Tallied
  <1>5. QED
    BY <1>1, <1>4 DEF GuessInv

LEMMA TryTallies == IInv /\ GuessInv /\ TryPassword => GuessInv'
  <1> SUFFICES ASSUME IInv, GuessInv, TryPassword,
                      MaxAttempts > 0, used'.failures = 0, used'.cuts = 0
               PROVE  Tallied(guesses', lockout', clock')
    BY DEF GuessInv
  <1>1. TryWrong(Counted(Normalized(lockout).failed + 1))
    BY MasterPasswordAssumption DEF TryPassword
  <1>2. used' = used /\ lockout' = Counted(Normalized(lockout).failed + 1)
    BY <1>1 DEF TryWrong, IInv, Budget
  <1>3. guesses' = LastTries(Append(guesses, clock)) /\ clock' = clock /\ ~Blocks(lockout)
    BY <1>1 DEF TryWrong, Blocked
  <1>4. Tallied(guesses, lockout, clock)
    BY <1>2 DEF GuessInv
  <1>5. QED
    BY <1>2, <1>3, <1>4, CountedTallies DEF IInv

LEMMA TickTallies == IInv /\ GuessInv /\ Tick => GuessInv'
  <1> SUFFICES ASSUME IInv, GuessInv, Tick PROVE GuessInv'
    OBVIOUS
  <1>1. UNCHANGED <<lockout, guesses, used>> /\ clock' = clock + 1 /\ clock \in Nat
    BY DEF Tick, IInv
  <1>2. ASSUME NEW g, NEW l, Tallied(g, l, clock) PROVE Tallied(g, l, clock + 1)
    <2>1. \A i \in 1 .. Len(g) : g[i] \in Nat /\ g[i] <= clock
      BY <1>2 DEF Tallied
    <2>2. \A i \in 1 .. Len(g) : g[i] <= clock + 1
      BY <1>1, <2>1
    <2>3. QED
      BY <1>2, <2>2 DEF Tallied
  <1>3. QED
    BY <1>1, <1>2 DEF GuessInv

LEMMA NextTallies == IInv /\ IInv' /\ GuessInv /\ [Next]_vars => GuessInv'
  <1> SUFFICES ASSUME IInv, IInv', GuessInv, [Next]_vars PROVE GuessInv'
    OBVIOUS
  <1>1. used \in Budget /\ used' \in Budget
    BY DEF IInv
  <1>2. CASE Start \/ Ends \/ UNCHANGED vars
    BY <1>1, <1>2, GuessesStay DEF Start, Ends, vars, Budget
  <1>3. CASE \E p \in Passwords : SetUp(p)
    BY <1>1, <1>3, SaveLeavesGuesses DEF SetUp, Enter, Budget
  <1>4. CASE \E p \in Passwords, q \in Passwords : ChangeMaster(p, q)
    BY <1>1, <1>4, SaveLeavesGuesses DEF ChangeMaster, Persist, Budget
  <1>5. CASE \E s \in Servers, x \in Secrets \cup {None} : SetSecret(s, x)
    BY <1>1, <1>5, SaveLeavesGuesses DEF SetSecret, Persist, Budget
  <1>6. QED
    BY <1>2, <1>3, <1>4, <1>5, UnlockTallies, TryTallies, TickTallies DEF Next

\* While files can be written, no more than MaxAttempts wrong passwords are tried within
\* the time of a lockout but for its last second, for every number of tries that is
\* allowed, every length of the lockout, and however often the program is started anew
\* (record_failed_attempt, normalize, lockout_message, refresh_lockout).
THEOREM GuessesAreBounded == Spec => []GuessesBounded
  <1>1. GuessInv => GuessesBounded
    BY DEF GuessInv, Tallied, GuessesBounded
  <1>2. Init => GuessInv
    <2>1. NoLockout \in [failed : Nat, until : Nat]
      BY DEF NoLockout
    <2>2. MaxAttempts \in Nat /\ <<>> \in Seq(Nat) /\ Len(<<>>) = 0
      BY MasterPasswordAssumption
    <2>3. QED
      BY <2>1, <2>2 DEF Init, GuessInv, Tallied
  <1>3. QED
    BY <1>1, <1>2, InitHolds, NextKeeps, NextTallies, PTL DEF Spec

-----------------------------------------------------------------------------
(* Updates                                                                  *)

CONSTANTS MaxVersion, MaxUses, MaxChecks, MaxLaunches, MaxSetups

VARIABLES github, installed, settings_file, app, dialogs, thread, events, temp, setup, uses,
          settled, noticed, declined

\* Updates, whose config.json is the settings_file here
U == INSTANCE Updates WITH file <- settings_file, used <- uses

Choices  == [skipped : Nat, seen : Nat, due : BOOLEAN]
Dialog  == [kind : {"news", "editor", "question", "message", "exit?"}]
             \cup [kind : {"offer"}, latest : Nat, interactive : BOOLEAN]
Running == [at : {"password", "open", "ending", "exiting"}, version : Nat, config : Choices,
            work : SUBSET U!Works, checking : BOOLEAN]
Thread  == {U!NoThread}
             \cup [kind : {"check"}, interactive : BOOLEAN, done : BOOLEAN,
                   result : [status : {"none", "update", "current", "error"}, latest : Nat]]
             \cup [kind : {"download"}, version : Nat, done : BOOLEAN,
                   result : {"whole", "cut", "error"}]
Signals == [close : BOOLEAN, busy : BOOLEAN, modal : BOOLEAN]
Started == [at : {"looks", "asks", "closes", "waits", "asks again", "kills", "waits again", "copies"},
            version : Nat, silent : BOOLEAN, asked : BOOLEAN, ipc : BOOLEAN]

AppType == app \in {U!NoApp} \cup Running

UpdatesTypes ==
  /\ github \in [released : Nat, tagged : Nat]
  /\ installed \in Nat
  /\ settings_file \in Choices
  /\ AppType
  /\ dialogs \in Seq(Dialog)
  /\ thread \in Thread
  /\ events \in Signals
  /\ temp \in [version : Nat, whole : BOOLEAN]
  /\ setup \in {U!NoSetup} \cup Started
  /\ declined \in Nat

\* What is settled belongs to an instance with a frame, and while that has the events they
\* say that there is something.
Told ==
  /\ settled # {} => app.at \in {"open", "ending", "exiting"}
  /\ settled # {} /\ U!HasIpc => events.busy \/ events.modal

\* Of what Setup noticed it has asked, by the time it closes or kills.
Asked ==
  /\ setup.at \in {"closes", "waits"} /\ noticed # {} => setup.asked \/ setup.silent
  /\ setup.at = "kills" => setup.asked \/ setup.silent

\* The version that was refused is the one that is skipped, in memory and in the file.
Skipped ==
  /\ settings_file.skipped = declined
  /\ app.at # "none" => app.config.skipped = declined

UpdatesInv == UpdatesTypes /\ Told /\ Asked /\ Skipped

-----------------------------------------------------------------------------
(* The stack of dialogs                                                      *)

\* What is left of a stack that loses its topmost dialog, and that dialog
LEMMA TopAndRest ==
  ASSUME NEW ds \in Seq(Dialog), ds # <<>>
  PROVE  U!Front(ds) \in Seq(Dialog) /\ U!Last(ds) \in Dialog
<1>1. Len(ds) \in Nat \ {0}
  OBVIOUS
<1>2. U!Front(ds) \in Seq(Dialog)
  BY <1>1, SubSeqProperties DEF U!Front
<1>3. U!Last(ds) \in Dialog
  BY <1>1 DEF U!Last
<1> QED
  BY <1>2, <1>3

\* A stack with one dialog more
LEMMA OneMore ==
  ASSUME NEW ds \in Seq(Dialog), NEW d \in Dialog
  PROVE  Append(ds, d) \in Seq(Dialog) /\ <<d>> \in Seq(Dialog) /\ ds \o <<d>> \in Seq(Dialog)
         /\ <<>> \in Seq(Dialog) /\ ds \o <<>> \in Seq(Dialog)
OBVIOUS

\* What an offer says
LEMMA OfferSays ==
  ASSUME NEW d \in Dialog, d.kind = "offer"
  PROVE  d.latest \in Nat /\ d.interactive \in BOOLEAN
BY DEF Dialog

\* What could be interrupted is told: a work, or a dialog that is no box of Windows.
LEMMA UnderWayIsPublished ==
  ASSUME app.at = "open", U!UnderWay(app.work, dialogs) # {}
  PROVE  U!Published.busy \/ U!Published.modal
<1>1. CASE app.work # {}
  BY <1>1 DEF U!Published
<1>2. CASE app.work = {}
  <2>1. PICK k \in {"editor", "offer", "news", "question"} : \E i \in DOMAIN dialogs : dialogs[i].kind = k
    BY <1>2 DEF U!UnderWay
  <2>2. k \in U!Kinds \ {"message"}
    BY <2>1 DEF U!Kinds
  <2> QED
    BY <2>2 DEF U!Published
<1> QED
  BY <1>1, <1>2

\* What an instance publishes are the three events.
LEMMA PublishedIsSignals == U!Published \in Signals
BY DEF U!Published, Signals

-----------------------------------------------------------------------------
(* The settings                                                              *)

\* An instance that has begun has its settings.
LEMMA IsRunning ==
  ASSUME AppType, app.at # "none"
  PROVE  app \in Running
BY DEF AppType, U!NoApp

\* An installer that has begun knows what it was started with.
LEMMA IsStarted ==
  ASSUME setup \in {U!NoSetup} \cup Started, setup.at # "none"
  PROVE  setup \in Started
BY DEF U!NoSetup

\* What a check notes leaves the skipped version as it is.
LEMMA NotedKeeps ==
  ASSUME NEW choices \in Choices, NEW interactive \in BOOLEAN
  PROVE  U!Noted(choices, interactive) \in Choices /\ U!Noted(choices, interactive).skipped = choices.skipped
BY DEF U!Noted, Choices

\* A refusal skips the version of the offer, or no longer skips it, in memory and, by what is
\* saved, in the file.
LEMMA RefusedSkips ==
  ASSUME NEW choices \in Choices, NEW stored \in Choices, NEW offer \in Dialog, offer.kind = "offer",
         NEW ticked \in BOOLEAN
  PROVE  LET after == U!Refused(choices, stored, offer, ticked) IN
         /\ after.config \in Choices /\ after.saved \in Choices
         /\ after.config.skipped = IF ticked THEN offer.latest
                                   ELSE IF choices.skipped = offer.latest THEN 0 ELSE choices.skipped
         /\ stored.skipped = choices.skipped => after.saved.skipped = after.config.skipped
<1> DEFINE skipped == IF ticked THEN offer.latest
                      ELSE IF choices.skipped = offer.latest THEN 0 ELSE choices.skipped
           result == U!Noted([choices EXCEPT !.skipped = skipped], offer.interactive)
<1>1. offer.latest \in Nat /\ offer.interactive \in BOOLEAN
  BY OfferSays
<1>2. skipped \in Nat
  BY <1>1 DEF Choices
<1>3. [choices EXCEPT !.skipped = skipped] \in Choices
      /\ [choices EXCEPT !.skipped = skipped].skipped = skipped
  BY <1>2 DEF Choices
<1>4. result \in Choices /\ result.skipped = skipped
  BY <1>1, <1>3, NotedKeeps
<1>5. /\ U!Refused(choices, stored, offer, ticked).config = result
      /\ U!Refused(choices, stored, offer, ticked).saved
           = IF result # choices \/ ~offer.interactive THEN result ELSE stored
  BY DEF U!Refused
<1> QED
  BY <1>4, <1>5

\* What a refusal leaves, in memory and in the file.
RefusedKeeps(offer, ticked) ==
  LET after == U!Refused(app.config, settings_file, offer, ticked)
      skipped == IF ticked THEN offer.latest ELSE IF declined = offer.latest THEN 0 ELSE declined
  IN /\ after.config \in Choices /\ after.saved \in Choices
     /\ after.config.skipped = skipped /\ after.saved.skipped = skipped

\* The frame is shown, and the check of the day may begin.
LEMMA BeganKeeps ==
  ASSUME app \in Running, thread \in Thread, NEW choices \in Choices, U!Began(choices)
  PROVE  app' \in Running /\ thread' \in Thread /\ app'.at = "open" /\ app'.config = choices
<1>1. U!CheckThread(FALSE) \in Thread
  BY DEF U!CheckThread, Thread, U!Failed
<1> QED
  BY <1>1 DEF U!Began, Running

\* An instance that closes saves its settings as they are.
LEMMA ClosesKeeps ==
  ASSUME app \in Running, U!Closes
  PROVE  app' \in Running /\ settings_file' \in Choices /\ settings_file' = app.config
         /\ app'.at = "ending" /\ app'.config = app.config
BY DEF U!Closes, Running

\* Nothing is left of an instance that is gone.
LEMMA GoneKeeps ==
  ASSUME U!Gone
  PROVE  /\ AppType' /\ app'.at = "none" /\ dialogs' \in Seq(Dialog) /\ thread' \in Thread
         /\ events' \in Signals /\ settled' = {} /\ noticed' = {}
<1>1. app' = U!NoApp /\ dialogs' = <<>> /\ thread' = U!NoThread /\ events' = U!Silence
      /\ settled' = {} /\ noticed' = {}
  BY DEF U!Gone
<1>2. AppType' /\ app'.at = "none"
  BY <1>1 DEF AppType, U!NoApp
<1>3. thread' \in Thread /\ events' \in Signals
  BY <1>1 DEF Thread, Signals, U!Silence
<1> QED
  BY <1>1, <1>2, <1>3

-----------------------------------------------------------------------------
(* The invariant                                                             *)

LEMMA UpdatesBegin == ASSUME U!Init PROVE UpdatesInv
<1>1. UpdatesTypes
  BY DEF U!Init, UpdatesTypes, AppType, Choices, Thread, Signals, U!NewSettings, U!NoFile, U!Silence
<1>2. Told /\ Asked /\ Skipped
  BY DEF U!Init, Told, Asked, Skipped, U!NewSettings, U!NoApp, U!NoSetup
<1> QED
  BY <1>1, <1>2 DEF UpdatesInv

LEMMA PublishKeeps ==
  ASSUME UpdatesInv, U!Publish
  PROVE  UpdatesInv'
<1>1. github' \in [released : Nat, tagged : Nat]
  BY DEF UpdatesInv, UpdatesTypes, U!Publish
<1>2. UpdatesTypes'
  BY <1>1 DEF UpdatesInv, UpdatesTypes, AppType, U!Publish
<1>3. Told'
  BY IsRunning, UnderWayIsPublished DEF UpdatesInv, UpdatesTypes, Told, AppType, U!HasIpc, U!Forget, U!Shown, Running, U!NoApp, U!Closes, U!Publish
<1>4. Asked'
  BY IsStarted DEF UpdatesInv, UpdatesTypes, Told, Asked, U!Forget, Started, U!NoSetup, U!NewSetup, U!HeldMutex, U!HasIpc, U!Publish
<1>5. Skipped'
  BY IsRunning DEF UpdatesInv, UpdatesTypes, Skipped, AppType, Running, Choices, U!Shown, U!NoApp, U!NewSettings, U!Publish
<1> QED
  BY <1>2, <1>3, <1>4, <1>5 DEF UpdatesInv

LEMMA DayPassesKeeps ==
  ASSUME UpdatesInv, U!DayPasses
  PROVE  UpdatesInv'
<1>1. settings_file' \in Choices
  BY IsRunning DEF Choices, Running, AppType, U!Closes, UpdatesInv, UpdatesTypes, U!DayPasses
<1>2. AppType'
  BY IsRunning DEF AppType, Choices, Running, U!Shown, U!Works, UpdatesInv, UpdatesTypes, U!DayPasses
<1>3. UpdatesTypes'
  BY <1>1, <1>2 DEF UpdatesInv, UpdatesTypes, AppType, U!DayPasses
<1>4. Told'
  BY IsRunning, UnderWayIsPublished DEF UpdatesInv, UpdatesTypes, Told, AppType, U!HasIpc, U!Forget, U!Shown, Running, U!NoApp, U!Closes, U!DayPasses
<1>5. Asked'
  BY IsStarted DEF UpdatesInv, UpdatesTypes, Told, Asked, U!Forget, Started, U!NoSetup, U!NewSetup, U!HeldMutex, U!HasIpc, U!DayPasses
<1>6. Skipped'
  BY IsRunning DEF UpdatesInv, UpdatesTypes, Skipped, AppType, Running, Choices, U!Shown, U!NoApp, U!NewSettings, U!DayPasses
<1> QED
  BY <1>3, <1>4, <1>5, <1>6 DEF UpdatesInv

LEMMA LaunchKeeps ==
  ASSUME UpdatesInv, U!Launch
  PROVE  UpdatesInv'
<1> DEFINE new == [at |-> "password", version |-> installed, config |-> settings_file, work |-> {},
                   checking |-> FALSE]
<1>1. app.at = "none" /\ app' = new /\ events' = U!Silence
  BY DEF U!Launch, U!HeldMutex
<1>2. new \in Running /\ new.at = "password" /\ new.config = settings_file
  BY DEF UpdatesInv, UpdatesTypes, Running
<1>3. AppType' /\ events' \in Signals
  BY <1>1, <1>2 DEF AppType, Signals, U!Silence
<1>4. UpdatesTypes'
  BY <1>3 DEF UpdatesInv, UpdatesTypes, U!Launch
<1>5. settled = {} /\ settled' = {}
  BY <1>1 DEF UpdatesInv, Told, U!Launch
<1>6. Told'
  BY <1>5 DEF Told
<1>7. Asked'
  BY DEF UpdatesInv, Asked, U!Launch
<1>8. Skipped'
  BY <1>1, <1>2 DEF UpdatesInv, Skipped, U!Launch
<1> QED
  BY <1>4, <1>6, <1>7, <1>8 DEF UpdatesInv

LEMMA OpeningKeeps ==
  ASSUME UpdatesInv, U!Unlock
  PROVE  UpdatesInv'
<1>1. app \in Running /\ app.at = "password" /\ app.config \in Choices /\ app.config.skipped = declined
  BY IsRunning DEF UpdatesInv, UpdatesTypes, Skipped, U!Unlock, Running
<1>2. app' \in Running /\ app'.at = "open" /\ app'.config = app.config
      /\ dialogs' \in Seq(Dialog) /\ thread' \in Thread
  <2>1. CASE app.config.seen = app.version
    <3>1. U!Began(app.config) /\ dialogs' = <<>>
      BY <2>1 DEF U!Unlock
    <3> QED
      BY <1>1, <3>1, BeganKeeps DEF UpdatesInv, UpdatesTypes
  <2>2. CASE app.config.seen # app.version
    <3>1. app' = [app EXCEPT !.at = "open"] /\ dialogs' = <<[kind |-> "news"]>> /\ thread' = thread
      BY <2>2 DEF U!Unlock
    <3>2. [kind |-> "news"] \in Dialog
      BY DEF Dialog
    <3>3. app' \in Running /\ app'.at = "open" /\ app'.config = app.config
      BY <1>1, <3>1 DEF Running
    <3> QED
      BY <3>1, <3>2, <3>3 DEF UpdatesInv, UpdatesTypes
  <2> QED
    BY <2>1, <2>2
<1>3. UpdatesTypes'
  BY <1>2 DEF UpdatesInv, UpdatesTypes, AppType, U!Unlock
<1>4. settled' = {}
  BY <1>1 DEF UpdatesInv, Told, U!Unlock
<1>5. Told'
  BY <1>4 DEF Told
<1>6. Asked'
  BY DEF UpdatesInv, Asked, U!Unlock
<1>7. Skipped'
  BY <1>1, <1>2 DEF UpdatesInv, Skipped, U!Unlock
<1> QED
  BY <1>3, <1>5, <1>6, <1>7 DEF UpdatesInv

LEMMA GiveUpKeeps ==
  ASSUME UpdatesInv, U!GiveUp
  PROVE  UpdatesInv'
<1>1. AppType'
  BY IsRunning DEF AppType, Choices, Running, U!Shown, U!Works, UpdatesInv, UpdatesTypes, U!GiveUp
<1>2. events' \in Signals
  BY PublishedIsSignals DEF Signals, U!Silence, U!Signaled, UpdatesInv, UpdatesTypes, U!GiveUp
<1>3. UpdatesTypes'
  BY <1>1, <1>2 DEF UpdatesInv, UpdatesTypes, AppType, U!GiveUp
<1>4. Told'
  BY IsRunning, UnderWayIsPublished DEF UpdatesInv, UpdatesTypes, Told, AppType, U!HasIpc, U!Forget, U!Shown, Running, U!NoApp, U!Closes, U!GiveUp
<1>5. Asked'
  BY IsStarted DEF UpdatesInv, UpdatesTypes, Told, Asked, U!Forget, Started, U!NoSetup, U!NewSetup, U!HeldMutex, U!HasIpc, U!GiveUp
<1>6. Skipped'
  BY IsRunning DEF UpdatesInv, UpdatesTypes, Skipped, AppType, Running, Choices, U!Shown, U!NoApp, U!NewSettings, U!GiveUp
<1> QED
  BY <1>3, <1>4, <1>5, <1>6 DEF UpdatesInv

LEMMA CloseNewsKeeps ==
  ASSUME UpdatesInv, U!CloseNews
  PROVE  UpdatesInv'
<1> DEFINE choices == [app.config EXCEPT !.seen = app.version]
<1>1. app \in Running /\ app.at = "open" /\ dialogs # <<>> /\ app.config.skipped = declined
  BY IsRunning DEF UpdatesInv, UpdatesTypes, Skipped, U!CloseNews, U!Shown
<1>2. choices \in Choices /\ choices.skipped = declined
  BY <1>1 DEF Running, Choices
<1>3. settings_file' = choices /\ dialogs' = U!Front(dialogs) /\ U!Began(choices)
  BY DEF U!CloseNews
<1>4. app' \in Running /\ thread' \in Thread /\ app'.at = "open" /\ app'.config = choices
  <2> HIDE DEF choices
  <2> QED
    BY <1>1, <1>2, <1>3, BeganKeeps DEF UpdatesInv, UpdatesTypes
<1>5. UpdatesTypes'
  BY <1>1, <1>2, <1>3, <1>4, TopAndRest DEF UpdatesInv, UpdatesTypes, AppType, U!CloseNews
<1>6. settled' \subseteq settled /\ noticed' \subseteq noticed /\ events' = events
  BY DEF U!CloseNews, U!Forget
<1>7. Told'
  BY <1>1, <1>4, <1>6 DEF UpdatesInv, Told, U!HasIpc
<1>8. Asked'
  BY <1>6 DEF UpdatesInv, Asked, U!CloseNews
<1>9. Skipped'
  BY <1>2, <1>3, <1>4 DEF Skipped, U!CloseNews
<1> QED
  BY <1>5, <1>7, <1>8, <1>9 DEF UpdatesInv

LEMMA WorkKeeps ==
  ASSUME UpdatesInv, NEW kind \in U!Works, U!Work(kind)
  PROVE  UpdatesInv'
<1>1. app \in Running /\ app.at = "open"
  BY IsRunning DEF UpdatesInv, UpdatesTypes, U!Work
<1>2. PICK work \in SUBSET U!Works : app' = [app EXCEPT !.work = work]
  <2>1. app.work \ {kind} \in SUBSET U!Works /\ app.work \cup {kind} \in SUBSET U!Works
    BY <1>1 DEF Running
  <2> QED
    BY <2>1 DEF U!Work
<1>3. app' \in Running /\ app'.at = "open" /\ app'.config = app.config
  BY <1>1, <1>2 DEF Running
<1>4. UpdatesTypes'
  BY <1>3 DEF UpdatesInv, UpdatesTypes, AppType, U!Work
<1>5. settled' \subseteq settled /\ noticed' \subseteq noticed /\ events' = events
  BY DEF U!Work, U!Forget
<1>6. Told'
  BY <1>1, <1>3, <1>5 DEF UpdatesInv, Told, U!HasIpc
<1>7. Asked'
  BY <1>5 DEF UpdatesInv, Asked, U!Work
<1>8. Skipped'
  BY <1>1, <1>3 DEF UpdatesInv, Skipped, U!Work
<1> QED
  BY <1>4, <1>6, <1>7, <1>8 DEF UpdatesInv

LEMMA OpenEditorKeeps ==
  ASSUME UpdatesInv, U!OpenEditor
  PROVE  UpdatesInv'
<1>1. dialogs' \in Seq(Dialog)
  BY TopAndRest, OneMore DEF U!Shown, Dialog, UpdatesInv, UpdatesTypes, U!OpenEditor
<1>2. UpdatesTypes'
  BY <1>1 DEF UpdatesInv, UpdatesTypes, AppType, U!OpenEditor
<1>3. Told'
  BY IsRunning, UnderWayIsPublished DEF UpdatesInv, UpdatesTypes, Told, AppType, U!HasIpc, U!Forget, U!Shown, Running, U!NoApp, U!Closes, U!OpenEditor
<1>4. Asked'
  BY IsStarted DEF UpdatesInv, UpdatesTypes, Told, Asked, U!Forget, Started, U!NoSetup, U!NewSetup, U!HeldMutex, U!HasIpc, U!OpenEditor
<1>5. Skipped'
  BY IsRunning DEF UpdatesInv, UpdatesTypes, Skipped, AppType, Running, Choices, U!Shown, U!NoApp, U!NewSettings, U!OpenEditor
<1> QED
  BY <1>2, <1>3, <1>4, <1>5 DEF UpdatesInv

LEMMA CloseDialogKeeps ==
  ASSUME UpdatesInv, U!CloseDialog
  PROVE  UpdatesInv'
<1>1. dialogs' \in Seq(Dialog)
  BY TopAndRest, OneMore DEF U!Shown, Dialog, UpdatesInv, UpdatesTypes, U!CloseDialog
<1>2. UpdatesTypes'
  BY <1>1 DEF UpdatesInv, UpdatesTypes, AppType, U!CloseDialog
<1>3. Told'
  BY IsRunning, UnderWayIsPublished DEF UpdatesInv, UpdatesTypes, Told, AppType, U!HasIpc, U!Forget, U!Shown, Running, U!NoApp, U!Closes, U!CloseDialog
<1>4. Asked'
  BY IsStarted DEF UpdatesInv, UpdatesTypes, Told, Asked, U!Forget, Started, U!NoSetup, U!NewSetup, U!HeldMutex, U!HasIpc, U!CloseDialog
<1>5. Skipped'
  BY IsRunning DEF UpdatesInv, UpdatesTypes, Skipped, AppType, Running, Choices, U!Shown, U!NoApp, U!NewSettings, U!CloseDialog
<1> QED
  BY <1>2, <1>3, <1>4, <1>5 DEF UpdatesInv

LEMMA CheckNowKeeps ==
  ASSUME UpdatesInv, U!CheckNow
  PROVE  UpdatesInv'
<1>1. AppType'
  BY IsRunning DEF AppType, Choices, Running, U!Shown, U!Works, UpdatesInv, UpdatesTypes, U!CheckNow
<1>2. thread' \in Thread
  BY DEF Thread, U!NoThread, U!CheckThread, U!Failed, U!Shown, UpdatesInv, UpdatesTypes, U!CheckNow
<1>3. UpdatesTypes'
  BY <1>1, <1>2 DEF UpdatesInv, UpdatesTypes, AppType, U!CheckNow
<1>4. Told'
  BY IsRunning, UnderWayIsPublished DEF UpdatesInv, UpdatesTypes, Told, AppType, U!HasIpc, U!Forget, U!Shown, Running, U!NoApp, U!Closes, U!CheckNow
<1>5. Asked'
  BY IsStarted DEF UpdatesInv, UpdatesTypes, Told, Asked, U!Forget, Started, U!NoSetup, U!NewSetup, U!HeldMutex, U!HasIpc, U!CheckNow
<1>6. Skipped'
  BY IsRunning DEF UpdatesInv, UpdatesTypes, Skipped, AppType, Running, Choices, U!Shown, U!NoApp, U!NewSettings, U!CheckNow
<1> QED
  BY <1>3, <1>4, <1>5, <1>6 DEF UpdatesInv

LEMMA CheckedKeeps ==
  ASSUME UpdatesInv, U!Checked
  PROVE  UpdatesInv'
<1>1. thread \in [kind : {"check"}, interactive : BOOLEAN, done : BOOLEAN,
                  result : [status : {"none", "update", "current", "error"}, latest : Nat]]
  BY DEF UpdatesInv, UpdatesTypes, Thread, U!NoThread, U!Checked
<1>2. app.at # "none" => app.version \in Nat
  BY IsRunning DEF UpdatesInv, UpdatesTypes, Running
<1>3. U!CheckResult(app.version) \in [status : {"none", "update", "current", "error"}, latest : Nat]
  BY DEF UpdatesInv, UpdatesTypes, U!CheckResult
<1>4. PICK result \in {U!CheckResult(app.version), U!Failed} :
        thread' = [thread EXCEPT !.done = TRUE, !.result = result]
  BY DEF U!Checked
<1>5. result \in [status : {"none", "update", "current", "error"}, latest : Nat]
  BY <1>3 DEF U!Failed
<1>6. thread' \in Thread
  BY <1>1, <1>4, <1>5 DEF Thread
<1>7. UpdatesTypes'
  BY <1>6 DEF UpdatesInv, UpdatesTypes, AppType, U!Checked
<1> QED
  BY <1>7 DEF UpdatesInv, Told, Asked, Skipped, U!HasIpc, U!Checked

LEMMA OnCheckedKeeps ==
  ASSUME UpdatesInv, U!OnChecked
  PROVE  UpdatesInv'
<1> DEFINE shown == U!News(thread.result, thread.interactive)
<1>1. app \in Running /\ app.at = "open" /\ app.config \in Choices /\ app.config.skipped = declined
  BY IsRunning DEF UpdatesInv, UpdatesTypes, Skipped, U!OnChecked, Running
<1>2. thread.interactive \in BOOLEAN /\ thread.result.latest \in Nat
  BY DEF UpdatesInv, UpdatesTypes, Thread, U!NoThread, U!OnChecked
<1>3. shown = <<>> \/ \E d \in Dialog : shown = <<d>>
  <2> DEFINE question == [kind |-> "question"]
             message == [kind |-> "message"]
             offer == [kind |-> "offer", latest |-> thread.result.latest,
                       interactive |-> thread.interactive]
  <2>1. question \in Dialog /\ message \in Dialog
    BY DEF Dialog
  <2>2. offer \in Dialog
    BY <1>2 DEF Dialog
  <2>3. shown \in {<<>>, <<question>>, <<message>>, <<offer>>}
    BY DEF U!News
  <2> HIDE DEF question, message, offer
  <2> QED
    BY <2>1, <2>2, <2>3
<1>4. dialogs' = dialogs \o shown
  BY DEF U!OnChecked
<1>5. dialogs' \in Seq(Dialog)
  <2> HIDE DEF shown
  <2>1. ASSUME NEW d \in Dialog PROVE <<d>> \in Seq(Dialog)
    OBVIOUS
  <2>2. <<>> \in Seq(Dialog)
    OBVIOUS
  <2>3. dialogs \in Seq(Dialog) /\ shown \in Seq(Dialog)
    BY <1>3, <2>1, <2>2 DEF UpdatesInv, UpdatesTypes
  <2> QED
    BY <1>4, <2>3
<1>6. PICK choices \in {app.config, U!Noted(app.config, thread.interactive)} :
        /\ app' = [app EXCEPT !.checking = FALSE, !.config = choices]
        /\ settings_file' \in {choices, settings_file}
  BY DEF U!OnChecked
<1>7. choices \in Choices /\ choices.skipped = declined
  BY <1>1, <1>2, NotedKeeps
<1>8. app' \in Running /\ app'.at = "open" /\ app'.config = choices
  BY <1>1, <1>6, <1>7 DEF Running
<1>9. UpdatesTypes'
  BY <1>5, <1>6, <1>7, <1>8 DEF UpdatesInv, UpdatesTypes, AppType, Thread, U!OnChecked
<1>10. Told'
  BY <1>1, <1>8 DEF UpdatesInv, Told, U!HasIpc, U!OnChecked
<1>11. Asked'
  BY DEF UpdatesInv, Asked, U!OnChecked
<1>12. Skipped'
  BY <1>6, <1>7, <1>8 DEF UpdatesInv, Skipped, U!OnChecked
<1> QED
  BY <1>9, <1>10, <1>11, <1>12 DEF UpdatesInv

LEMMA RefuseKeeps ==
  ASSUME UpdatesInv, U!Refuse
  PROVE  UpdatesInv'
<1> DEFINE offer == U!Last(dialogs)
<1>1. app \in Running /\ app.at = "open" /\ app.config \in Choices /\ app.config.skipped = declined
  BY IsRunning DEF UpdatesInv, UpdatesTypes, Skipped, U!Refuse, U!Shown, Running
<1>2. dialogs # <<>> /\ offer.kind = "offer"
  BY DEF U!Refuse, U!Shown
<1>3. offer \in Dialog /\ U!Front(dialogs) \in Seq(Dialog)
  BY <1>2, TopAndRest DEF UpdatesInv, UpdatesTypes
<1>4. PICK ticked \in BOOLEAN :
        /\ app' = [app EXCEPT !.config = U!Refused(app.config, settings_file, offer, ticked).config]
        /\ settings_file' = U!Refused(app.config, settings_file, offer, ticked).saved
        /\ declined' = IF ticked THEN offer.latest ELSE IF declined = offer.latest THEN 0 ELSE declined
  BY DEF U!Refuse
<1>5. RefusedKeeps(offer, ticked)
  <2>1. settings_file \in Choices /\ settings_file.skipped = declined
    BY DEF UpdatesInv, UpdatesTypes, Skipped
  <2> DEFINE after == U!Refused(app.config, settings_file, offer, ticked)
  <2>2. /\ after.config \in Choices /\ after.saved \in Choices
        /\ after.config.skipped = IF ticked THEN offer.latest
                                  ELSE IF app.config.skipped = offer.latest THEN 0
                                  ELSE app.config.skipped
        /\ settings_file.skipped = app.config.skipped => after.saved.skipped = after.config.skipped
    <3> HIDE DEF offer
    <3> QED
      BY <1>1, <1>2, <1>3, <2>1, RefusedSkips
  <2> HIDE DEF offer, after
  <2>3. /\ after.config \in Choices /\ after.saved \in Choices
        /\ after.config.skipped = IF ticked THEN offer.latest
                                  ELSE IF declined = offer.latest THEN 0 ELSE declined
        /\ after.saved.skipped = after.config.skipped
    BY <1>1, <2>1, <2>2
  <2> QED
    BY <2>3 DEF RefusedKeeps, after
<1> HIDE DEF offer
<1>6. app' \in Running /\ app'.at = "open"
      /\ app'.config = U!Refused(app.config, settings_file, offer, ticked).config
  BY <1>1, <1>4, <1>5 DEF Running, RefusedKeeps
<1>7. declined' \in Nat
  BY <1>2, <1>3, <1>4, OfferSays DEF UpdatesInv, UpdatesTypes
<1>8. dialogs' = U!Front(dialogs)
  BY DEF U!Refuse
<1>9. UpdatesTypes'
  BY <1>3, <1>4, <1>5, <1>6, <1>7, <1>8 DEF UpdatesInv, UpdatesTypes, AppType, U!Refuse, RefusedKeeps
<1>10. settled' \subseteq settled /\ noticed' \subseteq noticed /\ events' = events
  BY DEF U!Refuse, U!Forget
<1>11. Told'
  BY <1>1, <1>6, <1>10 DEF UpdatesInv, Told, U!HasIpc
<1>12. Asked'
  BY <1>10 DEF UpdatesInv, Asked, U!Refuse
<1>13. Skipped'
  BY <1>4, <1>5, <1>6 DEF Skipped, RefusedKeeps
<1> QED
  BY <1>9, <1>11, <1>12, <1>13 DEF UpdatesInv

LEMMA AcceptKeeps ==
  ASSUME UpdatesInv, U!Accept
  PROVE  UpdatesInv'
<1> DEFINE offer == U!Last(dialogs)
           choices == U!Noted(app.config, offer.interactive)
           download == [kind |-> "download", version |-> offer.latest, done |-> FALSE, result |-> "error"]
<1>1. app \in Running /\ app.at = "open" /\ app.config \in Choices /\ app.config.skipped = declined
  BY IsRunning DEF UpdatesInv, UpdatesTypes, Skipped, U!Accept, U!Shown, Running
<1>2. dialogs # <<>> /\ offer.kind = "offer"
  BY DEF U!Accept, U!Shown
<1>3. offer \in Dialog /\ U!Front(dialogs) \in Seq(Dialog)
  BY <1>2, TopAndRest DEF UpdatesInv, UpdatesTypes
<1>4. offer.latest \in Nat /\ offer.interactive \in BOOLEAN
  BY <1>2, <1>3, OfferSays
<1>5. choices \in Choices /\ choices.skipped = declined
  BY <1>1, <1>4, NotedKeeps
<1>6. app' = [app EXCEPT !.checking = TRUE, !.config = choices] /\ settings_file' \in {settings_file, choices}
      /\ thread' = download /\ dialogs' = U!Front(dialogs)
  BY DEF U!Accept
<1>7. download \in Thread
  BY <1>4 DEF Thread
<1> HIDE DEF offer, choices, download
<1>8. app' \in Running /\ app'.at = "open" /\ app'.config = choices
  BY <1>1, <1>5, <1>6 DEF Running
<1>9. UpdatesTypes'
  BY <1>3, <1>5, <1>6, <1>7, <1>8 DEF UpdatesInv, UpdatesTypes, AppType, U!Accept
<1>10. settled' \subseteq settled /\ noticed' \subseteq noticed /\ events' = events
  BY DEF U!Accept, U!Forget
<1>11. Told'
  BY <1>1, <1>8, <1>10 DEF UpdatesInv, Told, U!HasIpc
<1>12. Asked'
  BY <1>10 DEF UpdatesInv, Asked, U!Accept
<1>13. Skipped'
  BY <1>5, <1>6, <1>8 DEF UpdatesInv, Skipped, U!Accept
<1> QED
  BY <1>9, <1>11, <1>12, <1>13 DEF UpdatesInv

LEMMA DownloadKeeps ==
  ASSUME UpdatesInv, U!Download
  PROVE  UpdatesInv'
<1>1. thread \in [kind : {"download"}, version : Nat, done : BOOLEAN, result : {"whole", "cut", "error"}]
  BY DEF UpdatesInv, UpdatesTypes, Thread, U!NoThread, U!Download
<1>2. PICK first, second \in U!Answers(thread.version) :
        LET got == U!Downloaded(<<first, second>>)
            result == IF setup.at # "none" /\ setup.version = thread.version THEN "error" ELSE got
        IN /\ thread' = [thread EXCEPT !.done = TRUE, !.result = result]
           /\ temp' = IF result = "error" THEN temp
                      ELSE [version |-> thread.version, whole |-> got = "whole"]
  BY DEF U!Download
<1>3. U!Downloaded(<<first, second>>) \in {"whole", "cut", "error"}
  <2> DEFINE answers == <<first, second>>
             good == {i \in DOMAIN answers : answers[i] \in {"whole", "cut"}}
  <2>1. CASE good = {}
    BY <2>1 DEF U!Downloaded
  <2>2. CASE good # {}
    <3>1. good \subseteq {1, 2}
      OBVIOUS
    <3>2. \E i \in good : \A j \in good : i <= j
      BY <2>2, <3>1
    <3>3. (CHOOSE i \in good : \A j \in good : i <= j) \in good
      BY <3>2
    <3>4. U!Downloaded(answers) = answers[CHOOSE i \in good : \A j \in good : i <= j]
      BY <2>2 DEF U!Downloaded
    <3> QED
      BY <3>3, <3>4
  <2> QED
    BY <2>1, <2>2
<1>4. thread' \in Thread /\ temp' \in [version : Nat, whole : BOOLEAN]
  BY <1>1, <1>2, <1>3 DEF Thread, UpdatesInv, UpdatesTypes
<1>5. UpdatesTypes'
  BY <1>4 DEF UpdatesInv, UpdatesTypes, AppType, U!Download
<1> QED
  BY <1>5 DEF UpdatesInv, Told, Asked, Skipped, U!HasIpc, U!Download

LEMMA OnDownloadedKeeps ==
  ASSUME UpdatesInv, U!OnDownloaded
  PROVE  UpdatesInv'
<1>1. app \in Running /\ app.at = "open" /\ app.config \in Choices
  BY IsRunning DEF UpdatesInv, UpdatesTypes, U!OnDownloaded, Running
<1>2. app' = [app EXCEPT !.checking = FALSE] /\ thread' = U!NoThread
  BY DEF U!OnDownloaded
<1>3. app' \in Running /\ app'.at = "open" /\ app'.config = app.config
  BY <1>1, <1>2 DEF Running
<1>4. [kind |-> "question"] \in Dialog
  BY DEF Dialog
<1>5. dialogs' \in Seq(Dialog)
  BY <1>4, OneMore DEF UpdatesInv, UpdatesTypes, U!OnDownloaded
<1>6. setup' = setup \/ setup' = U!NewSetup(temp.version, FALSE)
  BY DEF U!OnDownloaded
<1>7. U!NewSetup(temp.version, FALSE) \in Started /\ U!NewSetup(temp.version, FALSE).at = "looks"
  BY DEF UpdatesInv, UpdatesTypes, Started, U!NewSetup
<1>8. UpdatesTypes'
  BY <1>2, <1>3, <1>5, <1>6, <1>7 DEF UpdatesInv, UpdatesTypes, AppType, Thread, U!OnDownloaded
<1>9. Told'
  BY <1>1, <1>3 DEF UpdatesInv, Told, U!HasIpc, U!OnDownloaded
<1>10. Asked'
  BY <1>6, <1>7 DEF UpdatesInv, Asked, U!OnDownloaded
<1>11. Skipped'
  BY <1>1, <1>3 DEF UpdatesInv, Skipped, U!OnDownloaded
<1> QED
  BY <1>8, <1>9, <1>10, <1>11 DEF UpdatesInv

LEMMA CloseWindowKeeps ==
  ASSUME UpdatesInv, U!CloseWindow
  PROVE  UpdatesInv'
<1>1. app \in Running /\ app.at = "open" /\ app.config.skipped = declined
  BY IsRunning DEF UpdatesInv, UpdatesTypes, Skipped, U!Shown, U!CloseWindow
<1>2. /\ app' \in Running /\ settings_file' \in Choices /\ app'.at \in {"open", "ending"}
      /\ app'.config = app.config /\ settings_file' \in {settings_file, app.config}
      /\ settled' \subseteq settled /\ noticed' \subseteq noticed
  <2>1. CASE U!Closes /\ U!Forget({}, <<>>)
    BY <1>1, <2>1, ClosesKeeps DEF U!Forget
  <2>2. CASE UNCHANGED <<app, settings_file, settled, noticed>>
    BY <1>1, <2>2 DEF UpdatesInv, UpdatesTypes
  <2> QED
    BY <2>1, <2>2 DEF U!CloseWindow
<1>3. dialogs' \in Seq(Dialog)
  <2> DEFINE exit == [kind |-> "exit?"]
  <2>1. exit \in Dialog
    BY DEF Dialog
  <2>2. dialogs' \in {<<>>, <<exit>>}
    BY DEF U!CloseWindow
  <2> HIDE DEF exit
  <2>3. <<>> \in Seq(Dialog) /\ <<exit>> \in Seq(Dialog)
    BY <2>1
  <2> QED
    BY <2>2, <2>3
<1>4. UpdatesTypes'
  BY <1>2, <1>3 DEF UpdatesInv, UpdatesTypes, AppType, U!CloseWindow
<1>5. Told'
  BY <1>1, <1>2 DEF UpdatesInv, Told, U!HasIpc, U!CloseWindow
<1>6. Asked'
  BY <1>2 DEF UpdatesInv, Asked, U!CloseWindow
<1>7. Skipped'
  BY <1>1, <1>2 DEF UpdatesInv, Skipped, U!CloseWindow
<1> QED
  BY <1>4, <1>5, <1>6, <1>7 DEF UpdatesInv

LEMMA AnswerExitKeeps ==
  ASSUME UpdatesInv, U!AnswerExit
  PROVE  UpdatesInv'
<1>1. app \in Running /\ app.at = "open" /\ app.config.skipped = declined
  BY IsRunning DEF UpdatesInv, UpdatesTypes, Skipped, U!Shown, U!AnswerExit
<1>2. /\ app' \in Running /\ settings_file' \in Choices /\ app'.at \in {"open", "ending"}
      /\ app'.config = app.config /\ settings_file' \in {settings_file, app.config}
      /\ settled' \subseteq settled /\ noticed' \subseteq noticed
  <2>1. CASE U!Closes /\ U!Forget({}, <<>>)
    BY <1>1, <2>1, ClosesKeeps DEF U!Forget
  <2>2. CASE UNCHANGED <<app, settings_file, settled, noticed>>
    BY <1>1, <2>2 DEF UpdatesInv, UpdatesTypes
  <2> QED
    BY <2>1, <2>2 DEF U!AnswerExit
<1>3. dialogs' \in Seq(Dialog)
  <2> DEFINE exit == [kind |-> "exit?"]
  <2>1. exit \in Dialog
    BY DEF Dialog
  <2>2. dialogs' \in {<<>>, <<exit>>}
    BY DEF U!AnswerExit
  <2> HIDE DEF exit
  <2>3. <<>> \in Seq(Dialog) /\ <<exit>> \in Seq(Dialog)
    BY <2>1
  <2> QED
    BY <2>2, <2>3
<1>4. UpdatesTypes'
  BY <1>2, <1>3 DEF UpdatesInv, UpdatesTypes, AppType, U!AnswerExit
<1>5. Told'
  BY <1>1, <1>2 DEF UpdatesInv, Told, U!HasIpc, U!AnswerExit
<1>6. Asked'
  BY <1>2 DEF UpdatesInv, Asked, U!AnswerExit
<1>7. Skipped'
  BY <1>1, <1>2 DEF UpdatesInv, Skipped, U!AnswerExit
<1> QED
  BY <1>4, <1>5, <1>6, <1>7 DEF UpdatesInv

LEMMA TickKeeps ==
  ASSUME UpdatesInv, U!Tick
  PROVE  UpdatesInv'
<1>1. app \in Running /\ app.at \in {"password", "open"} /\ app.config.skipped = declined
  BY IsRunning DEF UpdatesInv, UpdatesTypes, Skipped, U!Tick
<1>2. events' = U!Published
  BY DEF U!Tick
<1>3. CASE ~events.close
  <2>1. /\ settled' = IF app.at = "open" THEN U!UnderWay(app.work, dialogs) ELSE {}
        /\ UNCHANGED <<app, settings_file, noticed>>
    BY <1>3 DEF U!Tick
  <2>2. UpdatesTypes'
    BY <1>2, <2>1, PublishedIsSignals DEF UpdatesInv, UpdatesTypes, AppType, U!Tick
  <2>3. Told'
    BY <1>2, <2>1, UnderWayIsPublished DEF Told
  <2> QED
    BY <2>1, <2>2, <2>3 DEF UpdatesInv, Asked, Skipped, U!Tick
<1>4. CASE events.close
  <2>1. settled' = {} /\ noticed' = {}
        /\ IF app.at = "open" THEN U!Closes ELSE app' = [app EXCEPT !.at = "exiting"] /\ UNCHANGED settings_file
    BY <1>4 DEF U!Tick
  <2>2. app' \in Running /\ settings_file' \in Choices /\ app'.config = app.config /\ settings_file' \in {settings_file, app.config}
    <3>1. CASE app.at = "open"
      BY <1>1, <2>1, <3>1, ClosesKeeps
    <3>2. CASE app.at # "open"
      BY <1>1, <2>1, <3>2 DEF Running, UpdatesInv, UpdatesTypes
    <3> QED
      BY <3>1, <3>2
  <2>3. UpdatesTypes'
    BY <1>2, <2>2, PublishedIsSignals DEF UpdatesInv, UpdatesTypes, AppType, U!Tick
  <2>4. Told'
    BY <2>1 DEF Told
  <2>5. Asked'
    BY <2>1 DEF UpdatesInv, Asked, U!Tick
  <2>6. Skipped'
    BY <1>1, <2>2 DEF UpdatesInv, Skipped, U!Tick
  <2> QED
    BY <2>3, <2>4, <2>5, <2>6 DEF UpdatesInv
<1> QED
  BY <1>3, <1>4

LEMMA UnwindKeeps ==
  ASSUME UpdatesInv, U!Unwind
  PROVE  UpdatesInv'
<1> DEFINE top == U!Last(dialogs)
<1>1. app \in Running /\ app.at = "ending" /\ app.config \in Choices /\ app.config.skipped = declined
  BY IsRunning DEF UpdatesInv, UpdatesTypes, Skipped, U!Unwind, Running
<1>2. dialogs # <<>> /\ dialogs' = U!Front(dialogs)
  BY DEF U!Unwind
<1>3. top \in Dialog /\ U!Front(dialogs) \in Seq(Dialog)
  BY <1>2, TopAndRest DEF UpdatesInv, UpdatesTypes
<1>4. /\ app' \in Running /\ app'.at = "ending" /\ settings_file' \in Choices /\ declined' \in Nat
      /\ app'.config.skipped = declined' /\ settings_file'.skipped = declined'
  <2>1. CASE top.kind = "offer"
    <3>1. PICK ticked \in BOOLEAN :
            /\ app' = [app EXCEPT !.config = U!Refused(app.config, settings_file, top, ticked).config]
            /\ settings_file' = U!Refused(app.config, settings_file, top, ticked).saved
            /\ declined' = IF ticked THEN top.latest ELSE IF declined = top.latest THEN 0 ELSE declined
      BY <2>1 DEF U!Unwind
    <3>2. RefusedKeeps(top, ticked)
      BY <1>1, <1>3, <2>1, RefusedSkips DEF UpdatesInv, UpdatesTypes, RefusedKeeps, Skipped
    <3> HIDE DEF top
    <3>3. app' \in Running /\ app'.at = "ending"
          /\ app'.config = U!Refused(app.config, settings_file, top, ticked).config
      BY <1>1, <3>1, <3>2 DEF Running, RefusedKeeps
    <3>4. declined' \in Nat
      BY <1>3, <2>1, <3>1, OfferSays DEF UpdatesInv, UpdatesTypes
    <3> QED
      BY <3>1, <3>2, <3>3, <3>4 DEF RefusedKeeps
  <2>2. CASE top.kind = "news"
    <3> DEFINE choices == [app.config EXCEPT !.seen = app.version]
    <3>1. app' = [app EXCEPT !.config = choices] /\ settings_file' = choices /\ declined' = declined
      BY <2>2 DEF U!Unwind
    <3>2. choices \in Choices /\ choices.skipped = declined
      BY <1>1 DEF Running, Choices
    <3> QED
      BY <1>1, <3>1, <3>2 DEF Running, UpdatesInv, UpdatesTypes
  <2>3. CASE top.kind \notin {"offer", "news"}
    <3>1. UNCHANGED <<app, settings_file, declined>>
      BY <2>3 DEF U!Unwind
    <3> QED
      BY <1>1, <3>1 DEF UpdatesInv, UpdatesTypes, Skipped
  <2> QED
    BY <2>1, <2>2, <2>3
<1>5. UpdatesTypes'
  BY <1>2, <1>3, <1>4 DEF UpdatesInv, UpdatesTypes, AppType, U!Unwind
<1>6. Told'
  BY <1>1, <1>4 DEF UpdatesInv, Told, U!HasIpc, U!Unwind
<1>7. Asked'
  BY DEF UpdatesInv, Asked, U!Unwind
<1>8. Skipped'
  BY <1>4 DEF Skipped
<1> QED
  BY <1>5, <1>6, <1>7, <1>8 DEF UpdatesInv

LEMMA OnExitKeeps ==
  ASSUME UpdatesInv, U!OnExit
  PROVE  UpdatesInv'
<1>1. AppType'
  BY IsRunning DEF AppType, Choices, Running, U!Shown, U!Works, UpdatesInv, UpdatesTypes, U!OnExit
<1>2. events' \in Signals
  BY PublishedIsSignals DEF Signals, U!Silence, U!Signaled, UpdatesInv, UpdatesTypes, U!OnExit
<1>3. UpdatesTypes'
  BY <1>1, <1>2 DEF UpdatesInv, UpdatesTypes, AppType, U!OnExit
<1>4. Told'
  BY IsRunning, UnderWayIsPublished DEF UpdatesInv, UpdatesTypes, Told, AppType, U!HasIpc, U!Forget, U!Shown, Running, U!NoApp, U!Closes, U!OnExit
<1>5. Asked'
  BY IsStarted DEF UpdatesInv, UpdatesTypes, Told, Asked, U!Forget, Started, U!NoSetup, U!NewSetup, U!HeldMutex, U!HasIpc, U!OnExit
<1>6. Skipped'
  BY IsRunning DEF UpdatesInv, UpdatesTypes, Skipped, AppType, Running, Choices, U!Shown, U!NoApp, U!NewSettings, U!OnExit
<1> QED
  BY <1>3, <1>4, <1>5, <1>6 DEF UpdatesInv

LEMMA ProcessEndsKeeps ==
  ASSUME UpdatesInv, U!ProcessEnds
  PROVE  UpdatesInv'
<1>1. U!Gone
  BY DEF U!ProcessEnds
<1>2. UpdatesTypes'
  BY <1>1, GoneKeeps DEF UpdatesInv, UpdatesTypes, U!ProcessEnds
<1>3. Told' /\ Asked'
  BY <1>1, GoneKeeps DEF UpdatesInv, Told, Asked, U!ProcessEnds
<1>4. Skipped'
  BY <1>1, GoneKeeps DEF UpdatesInv, Skipped, U!ProcessEnds
<1> QED
  BY <1>2, <1>3, <1>4 DEF UpdatesInv

LEMMA StartSetupKeeps ==
  ASSUME UpdatesInv, U!StartSetup
  PROVE  UpdatesInv'
<1>1. PICK silent \in BOOLEAN : setup' = U!NewSetup(github.released, silent)
  BY DEF U!StartSetup
<1>2. setup' \in Started /\ setup'.at = "looks"
  BY <1>1 DEF UpdatesInv, UpdatesTypes, Started, U!NewSetup
<1>3. UpdatesTypes'
  BY <1>2 DEF UpdatesInv, UpdatesTypes, AppType, U!StartSetup
<1> QED
  BY <1>2, <1>3 DEF UpdatesInv, Told, Asked, Skipped, U!HasIpc, U!StartSetup

LEMMA SetupLooksKeeps ==
  ASSUME UpdatesInv, U!SetupLooks
  PROVE  UpdatesInv'
<1>1. setup' \in {U!NoSetup} \cup Started
  BY IsStarted DEF Started, U!NoSetup, U!NewSetup, U!Setup, U!HeldMutex, U!HasIpc, UpdatesInv, UpdatesTypes, U!SetupLooks
<1>2. UpdatesTypes'
  BY <1>1 DEF UpdatesInv, UpdatesTypes, AppType, U!SetupLooks, U!Setup
<1>3. Told'
  BY IsRunning, UnderWayIsPublished DEF UpdatesInv, UpdatesTypes, Told, AppType, U!HasIpc, U!Forget, U!Shown, Running, U!NoApp, U!Closes, U!SetupLooks, U!Setup
<1>4. Asked'
  BY IsStarted DEF UpdatesInv, UpdatesTypes, Told, Asked, U!Forget, Started, U!NoSetup, U!NewSetup, U!HeldMutex, U!HasIpc, U!SetupLooks, U!Setup
<1>5. Skipped'
  BY IsRunning DEF UpdatesInv, UpdatesTypes, Skipped, AppType, Running, Choices, U!Shown, U!NoApp, U!NewSettings, U!SetupLooks, U!Setup
<1> QED
  BY <1>2, <1>3, <1>4, <1>5 DEF UpdatesInv

LEMMA SetupAsksKeeps ==
  ASSUME UpdatesInv, U!SetupAsks
  PROVE  UpdatesInv'
<1>1. setup \in Started
  BY IsStarted DEF UpdatesInv, UpdatesTypes, U!SetupAsks, U!Setup
<1>2. setup' = U!NoSetup \/ setup' = [setup EXCEPT !.at = "closes", !.asked = TRUE]
  BY DEF U!SetupAsks
<1>3. setup' = U!NoSetup \/ (setup' \in Started /\ setup'.asked)
  BY <1>1, <1>2 DEF Started
<1>4. UpdatesTypes'
  BY <1>3 DEF UpdatesInv, UpdatesTypes, AppType, U!SetupAsks, U!Setup
<1>5. Asked'
  BY <1>3 DEF Asked, U!NoSetup
<1> QED
  BY <1>4, <1>5 DEF UpdatesInv, Told, Skipped, U!HasIpc, U!SetupAsks

LEMMA SetupClosesKeeps ==
  ASSUME UpdatesInv, U!SetupCloses
  PROVE  UpdatesInv'
<1>1. setup \in Started /\ setup.at = "closes" /\ setup' = [setup EXCEPT !.at = "waits"]
  BY IsStarted DEF UpdatesInv, UpdatesTypes, U!SetupCloses, U!Setup
<1>2. setup' \in Started /\ setup'.at = "waits" /\ setup'.asked = setup.asked
      /\ setup'.silent = setup.silent
  BY <1>1 DEF Started
<1>3. CASE U!Gone
  <2>1. UpdatesTypes'
    BY <1>2, <1>3, GoneKeeps DEF UpdatesInv, UpdatesTypes, U!SetupCloses, U!Setup
  <2>2. Told' /\ Asked'
    BY <1>2, <1>3, GoneKeeps DEF Told, Asked
  <2>3. Skipped'
    BY <1>3, GoneKeeps DEF UpdatesInv, Skipped, U!SetupCloses
  <2> QED
    BY <2>1, <2>2, <2>3 DEF UpdatesInv
<1>4. CASE events' \in {events, [events EXCEPT !.close = TRUE]}
           /\ UNCHANGED <<app, dialogs, thread, settled, noticed>>
  <2>1. events' \in Signals /\ events'.busy = events.busy /\ events'.modal = events.modal
    BY <1>4 DEF UpdatesInv, UpdatesTypes, Signals
  <2>2. UpdatesTypes'
    BY <1>2, <1>4, <2>1 DEF UpdatesInv, UpdatesTypes, AppType, U!SetupCloses, U!Setup
  <2>3. Told'
    BY <1>4, <2>1 DEF UpdatesInv, Told, U!HasIpc
  <2>4. Asked'
    BY <1>1, <1>2, <1>4 DEF UpdatesInv, Asked
  <2>5. Skipped'
    BY <1>4 DEF UpdatesInv, Skipped, U!SetupCloses
  <2> QED
    BY <2>2, <2>3, <2>4, <2>5 DEF UpdatesInv
<1> QED
  BY <1>3, <1>4 DEF U!SetupCloses, U!Kill, U!Signaled

LEMMA SetupWaitsKeeps ==
  ASSUME UpdatesInv, U!SetupWaits
  PROVE  UpdatesInv'
<1>1. setup' \in {U!NoSetup} \cup Started
  BY IsStarted DEF Started, U!NoSetup, U!NewSetup, U!Setup, U!HeldMutex, U!HasIpc, UpdatesInv, UpdatesTypes, U!SetupWaits
<1>2. UpdatesTypes'
  BY <1>1 DEF UpdatesInv, UpdatesTypes, AppType, U!SetupWaits, U!Setup
<1>3. Told'
  BY IsRunning, UnderWayIsPublished DEF UpdatesInv, UpdatesTypes, Told, AppType, U!HasIpc, U!Forget, U!Shown, Running, U!NoApp, U!Closes, U!SetupWaits, U!Setup
<1>4. Asked'
  BY IsStarted DEF UpdatesInv, UpdatesTypes, Told, Asked, U!Forget, Started, U!NoSetup, U!NewSetup, U!HeldMutex, U!HasIpc, U!SetupWaits, U!Setup
<1>5. Skipped'
  BY IsRunning DEF UpdatesInv, UpdatesTypes, Skipped, AppType, Running, Choices, U!Shown, U!NoApp, U!NewSettings, U!SetupWaits, U!Setup
<1> QED
  BY <1>2, <1>3, <1>4, <1>5 DEF UpdatesInv

LEMMA SetupAsksAgainKeeps ==
  ASSUME UpdatesInv, U!SetupAsksAgain
  PROVE  UpdatesInv'
<1>1. setup \in Started
  BY IsStarted DEF UpdatesInv, UpdatesTypes, U!SetupAsksAgain, U!Setup
<1>2. setup' = U!NoSetup \/ setup' = [setup EXCEPT !.at = "kills", !.asked = TRUE]
  BY DEF U!SetupAsksAgain
<1>3. setup' = U!NoSetup \/ (setup' \in Started /\ setup'.asked)
  BY <1>1, <1>2 DEF Started
<1>4. UpdatesTypes'
  BY <1>3 DEF UpdatesInv, UpdatesTypes, AppType, U!SetupAsksAgain, U!Setup
<1>5. Asked'
  BY <1>3 DEF Asked, U!NoSetup
<1> QED
  BY <1>4, <1>5 DEF UpdatesInv, Told, Skipped, U!HasIpc, U!SetupAsksAgain

LEMMA SetupKillsKeeps ==
  ASSUME UpdatesInv, U!SetupKills
  PROVE  UpdatesInv'
<1>1. setup \in Started /\ setup' = [setup EXCEPT !.at = "waits again"]
  BY IsStarted DEF UpdatesInv, UpdatesTypes, U!SetupKills, U!Setup
<1>2. setup' \in Started /\ setup'.at = "waits again"
  BY <1>1 DEF Started
<1>3. Asked'
  BY <1>2 DEF Asked
<1>4. CASE U!Gone
  <2>1. UpdatesTypes'
    BY <1>2, <1>4, GoneKeeps DEF UpdatesInv, UpdatesTypes, U!SetupKills, U!Setup
  <2>2. Told'
    BY <1>4, GoneKeeps DEF Told
  <2>3. Skipped'
    BY <1>4, GoneKeeps DEF UpdatesInv, Skipped, U!SetupKills
  <2> QED
    BY <1>3, <2>1, <2>2, <2>3 DEF UpdatesInv
<1>5. CASE UNCHANGED <<app, dialogs, thread, events, settled, noticed>>
  <2>1. UpdatesTypes'
    BY <1>2, <1>5 DEF UpdatesInv, UpdatesTypes, AppType, U!SetupKills, U!Setup
  <2> QED
    BY <1>3, <1>5, <2>1 DEF UpdatesInv, Told, Skipped, U!HasIpc, U!SetupKills
<1> QED
  BY <1>4, <1>5 DEF U!SetupKills, U!Kill

LEMMA SetupCopiesKeeps ==
  ASSUME UpdatesInv, U!SetupCopies
  PROVE  UpdatesInv'
<1>1. setup' \in {U!NoSetup} \cup Started
  BY IsStarted DEF Started, U!NoSetup, U!NewSetup, U!Setup, U!HeldMutex, U!HasIpc, UpdatesInv, UpdatesTypes, U!SetupCopies
<1>2. installed' \in Nat
  BY IsStarted DEF U!HeldMutex, U!Setup, Started, U!NoSetup, UpdatesInv, UpdatesTypes, U!SetupCopies
<1>3. UpdatesTypes'
  BY <1>1, <1>2 DEF UpdatesInv, UpdatesTypes, AppType, U!SetupCopies, U!Setup
<1>4. Told'
  BY IsRunning, UnderWayIsPublished DEF UpdatesInv, UpdatesTypes, Told, AppType, U!HasIpc, U!Forget, U!Shown, Running, U!NoApp, U!Closes, U!SetupCopies, U!Setup
<1>5. Asked'
  BY IsStarted DEF UpdatesInv, UpdatesTypes, Told, Asked, U!Forget, Started, U!NoSetup, U!NewSetup, U!HeldMutex, U!HasIpc, U!SetupCopies, U!Setup
<1>6. Skipped'
  BY IsRunning DEF UpdatesInv, UpdatesTypes, Skipped, AppType, Running, Choices, U!Shown, U!NoApp, U!NewSettings, U!SetupCopies, U!Setup
<1> QED
  BY <1>3, <1>4, <1>5, <1>6 DEF UpdatesInv

-----------------------------------------------------------------------------
(* The theorems                                                              *)

LEMMA UpdatesGoOn ==
  ASSUME UpdatesInv, [U!Next]_(U!vars)
  PROVE  UpdatesInv'
<1>1. CASE UNCHANGED U!vars
  BY <1>1 DEF UpdatesInv, UpdatesTypes, AppType, Told, Asked, Skipped, U!HasIpc, U!vars
<1>2. CASE U!Publish \/ U!DayPasses \/ U!Launch \/ U!Unlock \/ U!GiveUp \/ U!CloseNews
  BY <1>2, PublishKeeps, DayPassesKeeps, LaunchKeeps, OpeningKeeps, GiveUpKeeps, CloseNewsKeeps
<1>3. CASE U!OpenEditor \/ U!CloseDialog \/ U!CheckNow \/ U!Checked \/ U!OnChecked \/ U!Refuse \/ U!Accept
           \/ \E kind \in U!Works : U!Work(kind)
  BY <1>3, OpenEditorKeeps, CloseDialogKeeps, CheckNowKeeps, CheckedKeeps, OnCheckedKeeps,
     RefuseKeeps, AcceptKeeps, WorkKeeps
<1>4. CASE U!Download \/ U!OnDownloaded \/ U!CloseWindow \/ U!AnswerExit \/ U!Tick \/ U!Unwind \/ U!OnExit
           \/ U!ProcessEnds
  BY <1>4, DownloadKeeps, OnDownloadedKeeps, CloseWindowKeeps, AnswerExitKeeps, TickKeeps,
     UnwindKeeps, OnExitKeeps, ProcessEndsKeeps
<1>5. CASE U!StartSetup \/ U!SetupLooks \/ U!SetupAsks \/ U!SetupCloses \/ U!SetupWaits \/ U!SetupAsksAgain
           \/ U!SetupKills \/ U!SetupCopies
  BY <1>5, StartSetupKeeps, SetupLooksKeeps, SetupAsksKeeps, SetupClosesKeeps, SetupWaitsKeeps,
     SetupAsksAgainKeeps, SetupKillsKeeps, SetupCopiesKeeps
<1> QED
  BY <1>1, <1>2, <1>3, <1>4, <1>5 DEF U!Next

\* The settings, the dialogs, the worker and the installer hold what they are made of; what the
\* installer found and asked about belongs to an instance with a frame; and the version that was
\* skipped is the same in memory, in config.json and in what the user last said.
THEOREM UpdatesInvHolds == U!Spec => []UpdatesInv
<1>1. U!Init => UpdatesInv
  BY UpdatesBegin
<1>2. UpdatesInv /\ [U!Next]_(U!vars) => UpdatesInv'
  BY UpdatesGoOn
<1> QED
  BY <1>1, <1>2, PTL DEF U!Spec

\* The installer closes or kills an instance with something noticed under way only after its user
\* was asked or in a silent setup (ConfirmAndCloseFaTTY of fatty.iss).
THEOREM NoticeIsGiven == U!Spec => U!InterruptsWithNotice
<1>1. UpdatesInv /\ [U!Next]_(U!vars) =>
        [((U!SetupCloses \/ U!SetupKills) /\ noticed # {}) => (setup.asked \/ setup.silent)]_(U!vars)
  BY DEF UpdatesInv, Asked, U!SetupCloses, U!SetupKills, U!Setup
<1> QED
  BY <1>1, UpdatesInvHolds, PTL DEF U!Spec, U!InterruptsWithNotice

\* Only the closure of a check adds an offer.
LEMMA OffersAreOfChecks ==
  ASSUME UpdatesInv, [U!Next]_(U!vars), NEW i \in DOMAIN dialogs', i \notin DOMAIN dialogs,
         dialogs'[i].kind = "offer"
  PROVE  U!OnChecked
<1>1. dialogs \in Seq(Dialog)
  BY DEF UpdatesInv, UpdatesTypes
<1>2. dialogs' # dialogs
  OBVIOUS
<1>3. DOMAIN U!Front(dialogs) \subseteq DOMAIN dialogs
  BY <1>1 DEF U!Front
<1>4. dialogs' # U!Front(dialogs) /\ dialogs' # <<>>
  BY <1>3
<1>5. dialogs' # <<[kind |-> "news"]>> /\ dialogs' # <<[kind |-> "editor"]>>
      /\ dialogs' # <<[kind |-> "exit?"]>>
  OBVIOUS
<1>6. dialogs' # Append(dialogs, [kind |-> "question"])
  BY <1>1
<1> QED
  BY <1>2, <1>4, <1>5, <1>6 DEF U!Next, U!vars, U!Publish, U!DayPasses, U!Launch, U!Unlock, U!GiveUp, U!CloseNews, U!Work,
     U!OpenEditor, U!CloseDialog, U!CheckNow, U!Checked, U!Refuse, U!Accept, U!Download, U!OnDownloaded, U!CloseWindow,
     U!AnswerExit, U!Tick, U!Unwind, U!OnExit, U!ProcessEnds, U!StartSetup, U!SetupLooks, U!SetupAsks, U!SetupCloses,
     U!SetupWaits, U!SetupAsksAgain, U!SetupKills, U!SetupCopies, U!Gone, U!Kill

\* A check nobody asked for never offers the version whose offer was last refused with the box
\* ticked, over closing, restarts and changes of the settings (on_update_checked, show_update).
THEOREM QuietStays == U!Spec => U!RefusedStaysQuiet
<1>1. ASSUME UpdatesInv, [U!Next]_(U!vars), NEW i \in DOMAIN dialogs', i \notin DOMAIN dialogs,
             dialogs'[i].kind = "offer", ~dialogs'[i].interactive
      PROVE  dialogs'[i].latest # declined
  <2> DEFINE shown == U!News(thread.result, thread.interactive)
             offer == [kind |-> "offer", latest |-> thread.result.latest,
                       interactive |-> thread.interactive]
  <2>1. U!OnChecked
    BY <1>1, OffersAreOfChecks
  <2>2. app.at = "open" /\ dialogs' = dialogs \o shown /\ dialogs \in Seq(Dialog)
    BY <1>1, <2>1 DEF U!OnChecked, UpdatesInv, UpdatesTypes
  <2>3. app.config.skipped = declined
    BY <1>1, <2>2 DEF UpdatesInv, Skipped
  <2>4. shown \in {<<>>, <<[kind |-> "question"]>>, <<[kind |-> "message"]>>}
        \/ (shown = <<offer>> /\ (thread.interactive \/ thread.result.latest # app.config.skipped))
    BY DEF U!News
  <2>5. dialogs'[i] \in {[kind |-> "question"], [kind |-> "message"]}
        \/ (dialogs'[i] = offer /\ (thread.interactive \/ thread.result.latest # app.config.skipped))
    <3> HIDE DEF shown, offer
    <3> QED
      BY <1>1, <2>2, <2>4
  <2> QED
    BY <1>1, <2>3, <2>5
<1>2. UpdatesInv /\ [U!Next]_(U!vars) =>
        [\A i \in DOMAIN dialogs' :
          (i \notin DOMAIN dialogs /\ dialogs'[i].kind = "offer" /\ ~dialogs'[i].interactive)
            => dialogs'[i].latest # declined]_(U!vars)
  BY <1>1
<1> QED
  BY <1>2, UpdatesInvHolds, PTL DEF U!Spec, U!RefusedStaysQuiet
==============================================================================
