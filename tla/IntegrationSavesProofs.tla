------------------------- MODULE IntegrationSavesProofs -------------------------
(***************************************************************************)
(* Proofs about IntegrationSaves, for any number of slots, saves, reviews  *)
(* and crashes: slots, vault and journal agree and implement SecretStore,  *)
(* and what is approved was reviewed.                                      *)
(***************************************************************************)
EXTENDS IntegrationSaves, FiniteSetTheorems, TLAPS

Label == {"idle", "read", "retain", "preflight", "prepare", "store", "gate", "consume",
          "commit", "settle", "finish", "release", "undo", "abort", "done"}

\* The labels before a command's transaction.
Before == {"idle", "read", "retain", "preflight", "prepare", "store", "gate", "consume", "commit"}

-----------------------------------------------------------------------------
(* The inductive invariant of slots, journal and vault. *)

\* A command that may touch credentials.
Works(m) == m.kind = "delete" \/ m.replace \cup m.clear # {}

\* What a command at label l, with its request m, knows: the slots t it has yet to treat,
\* and those it has journaled, o.
CommandFits(l, m, t, o) ==
    /\ l \in {"idle", "done"} <=> m = NoCommand
    /\ m = NoCommand => t = {} /\ o = {}
    /\ l \in {"read", "retain", "preflight"} => o = {}
    /\ l \in Before => t \cap o = {}
    /\ t \cup o # {} => Works(m)
    /\ l = "retain" => m.kind = "update"
    /\ l \in {"read", "preflight"} => m.kind # "create"
    /\ l = "gate" => m.kind = "create"
    /\ l \in {"prepare", "store", "consume", "settle", "release", "abort"} => m.kind # "delete"
    /\ m.kind = "update" /\ l \in Before \ {"read"} => m.pin \in Pin
    /\ m.kind = "create" /\ l \in {"consume", "commit"} => m.pin \in Pin

\* Start-up recovers alone, and commands that touch credentials do not overlap.
CommandsFit ==
    /\ \A c \in Saver : CommandFits(pc[c], cmd[c], todo[c], ops[c])
    /\ \A c, d \in Saver : Works(cmd[c]) /\ Works(cmd[d]) => c = d
    /\ boot # {} => \A c \in Saver : cmd[c] = NoCommand
    /\ \A s \in boot : journal[s] # None

\* A journal row matches its slot: until the commit the slot has the old secret, after it the
\* new one, and the two differ.
JournalMatches ==
    \A s \in Slot : journal[s] # None =>
        /\ bound[s] = IF journal[s].state = "prepared" THEN journal[s].old ELSE journal[s].new
        /\ journal[s].old # None => journal[s].old # journal[s].new

\* Nothing of command c is in slot s.
Unused(c, s) ==
    /\ bound[s] # c /\ <<s, c>> \notin vault
    /\ journal[s] # None => c \notin {journal[s].id, journal[s].old, journal[s].new}

\* Command c has a row in the journal for slot s.
Journaled(c, s) ==
    journal[s] # None /\ journal[s].id = c /\ journal[s].state = "prepared" /\ journal[s].new \in {None, c}

\* And the secret it names is in the vault.
Prepared(c, s) == Journaled(c, s) /\ (journal[s].new = c => <<s, c>> \in vault)

Treated(c, s) == IF s \in ops[c] THEN Prepared(c, s) ELSE Unused(c, s)

\* Until its commit a command has touched the slots it has journaled and no other.
SlotsFit ==
    \A c \in Saver :
        /\ pc[c] \in Before \ {"store"} => \A s \in Slot : Treated(c, s)
        /\ pc[c] = "store" => \E t \in todo[c] :
              /\ Journaled(c, t) /\ journal[t].new = c /\ <<t, c>> \notin vault
          /\ \A s \in Slot \ {t} : Treated(c, s)

SInv == TypeOK /\ CommandsFit /\ JournalMatches /\ SlotsFit /\ SecretsAgree

-----------------------------------------------------------------------------
(* The inductive invariant of reviews and approvals. *)

\* The versions that commands have yet to write are nowhere yet.
VersionsAreNew ==
    \A c \in Cmd : pc[c] \in Before =>
        /\ row # None => row.version # c
        /\ \A d \in Saver : cmd[d].seen # c

ReviewsExist ==
    /\ \A p \in Reviewer : pc[p] = "idle" => review[p] = None
    /\ \A p \in open : review[p] # None

Approved(a) ==
    a # None => /\ review[a.review] # None
                /\ review[a.review].config = a.config /\ review[a.review].pin = a.pin

\* A save that keeps the configuration it has read sends no review.
KeptFor(m, l) ==
    /\ m.kind = "delete" \/ m.kept => m.ack = None
    /\ m.kept => m.kind = "update"
    /\ m.kept /\ row # None /\ row.version = m.seen => row.config = m.config
    /\ l = "commit" /\ m.kind # "delete" /\ ~m.kept /\ m.config # Official => Fits(m.trust, m)

KeptFits == \A c \in Saver : KeptFor(cmd[c], pc[c])

Holding == {"commit", "settle", "abort", "release"}

Holds(c, p) == cmd[c].ack = p /\ pc[c] \in Holding

\* A review is held by one save, and as long as it is open it is reserved for that save.
ReservedFits ==
    /\ \A p \in reserved : \E c \in Saver : Holds(c, p)
    /\ \A p \in Reviewer, c \in Saver : Holds(c, p) =>
          /\ review[p] # None
          /\ p \in open => p \in reserved
          /\ \A d \in Saver : Holds(d, p) => c = d

RInv ==
    /\ VersionsAreNew
    /\ ReviewsExist
    /\ Approved(approval) /\ \A c \in Saver : Approved(cmd[c].trust)
    /\ KeptFits
    /\ ReservedFits

-----------------------------------------------------------------------------
(* Facts about the types. *)

RowsOK == row \in Instance \cup {None} /\ approval \in Approval \cup {None}

StoreOK ==
    /\ bound \in [Slot -> Ref]
    /\ journal \in [Slot -> JournalRow \cup {None}]
    /\ vault \subseteq Slot \X Cmd
    /\ boot \subseteq Slot

ReviewsOK ==
    /\ review \in [Reviewer -> Shown \cup {None}]
    /\ reserved \subseteq open /\ open \subseteq Reviewer

ProgramOK ==
    /\ cmd \in [Saver -> Command \cup {NoCommand}]
    /\ todo \in [Saver -> SUBSET Slot] /\ ops \in [Saver -> SUBSET Slot]
    /\ pc \in [Cmd -> Label]

LEMMA TypeParts ==
    TypeOK <=> RowsOK /\ StoreOK /\ ReviewsOK /\ ProgramOK /\ crashes \in 0 .. MaxCrashes
BY DEF TypeOK, RowsOK, StoreOK, ReviewsOK, ProgramOK, Label

LEMMA TypePartsNext ==
    TypeOK' <=> RowsOK' /\ StoreOK' /\ ReviewsOK' /\ ProgramOK' /\ crashes' \in 0 .. MaxCrashes
BY DEF TypeOK, RowsOK, StoreOK, ReviewsOK, ProgramOK, Label

LEMMA Nulls ==
    /\ \A c \in Saver : c \in Cmd /\ c \notin Reviewer /\ c \notin Writer
    /\ \A p \in Reviewer : p \in Cmd /\ p \notin Saver /\ p \notin Writer
    /\ \A w \in Writer : w \in Cmd /\ w \notin Saver /\ w \notin Reviewer
    /\ None \notin Cmd /\ None \notin Reviewer /\ None \notin Kind /\ None \notin Pin
    /\ None \notin Instance /\ None \notin JournalRow /\ None \notin Approval /\ None \notin Shown
    /\ NoCommand \notin Command
    /\ NoCommand.kind = None /\ NoCommand.replace = {} /\ NoCommand.clear = {}
    /\ NoCommand.ack = None /\ NoCommand.seen = None /\ NoCommand.kept = FALSE
    /\ NoCommand.trust = None
BY SaveAssumption DEF Cmd, NoCommand, Command, Kind

-----------------------------------------------------------------------------
(* What the steps of a command have in common. *)

\* Command c goes to label l, with request m and slots t and o.
Moves(c, l, m, t, o) ==
    /\ ProgramOK'
    /\ pc'[c] = l /\ cmd'[c] = m /\ todo'[c] = t /\ ops'[c] = o
    /\ \A d \in Cmd : d # c => pc'[d] = pc[d]
    /\ \A d \in Saver : d # c => cmd'[d] = cmd[d] /\ todo'[d] = todo[d] /\ ops'[d] = ops[d]

\* The part of SlotsFit about one command.
SlotsFitFor(c) ==
    /\ pc[c] \in Before \ {"store"} => \A s \in Slot : Treated(c, s)
    /\ pc[c] = "store" => \E t \in todo[c] :
          /\ Journaled(c, t) /\ journal[t].new = c /\ <<t, c>> \notin vault
          /\ \A s \in Slot \ {t} : Treated(c, s)

\* A command's step keeps what is known of the others: they do not touch credentials now, or
\* the step does not.
LEMMA StepFits ==
    ASSUME SInv, NEW c \in Saver, NEW l, NEW m, NEW t, NEW o, Moves(c, l, m, t, o),
           CommandFits(l, m, t, o), boot = {}, UNCHANGED boot,
           Works(m) => \A d \in Saver : d # c => ~Works(cmd[d]),
           \/ UNCHANGED <<bound, journal, vault>>
           \/ Works(cmd[c]) /\ \A d \in Saver, s \in Slot : d # c /\ Unused(d, s) => Unused(d, s)',
           SlotsFitFor(c)'
    PROVE  CommandsFit' /\ SlotsFit'
<1>1. /\ ProgramOK' /\ ProgramOK
      /\ pc'[c] = l /\ cmd'[c] = m /\ todo'[c] = t /\ ops'[c] = o
      /\ \A d \in Saver : d # c => pc'[d] = pc[d]
      /\ \A d \in Saver : d # c => cmd'[d] = cmd[d] /\ todo'[d] = todo[d] /\ ops'[d] = ops[d]
  BY Nulls, TypeParts DEF Moves, SInv
<1>2. CommandsFit'
  <2>1. \A d \in Saver : CommandFits(pc'[d], cmd'[d], todo'[d], ops'[d])
    <3> SUFFICES ASSUME NEW d \in Saver PROVE CommandFits(pc'[d], cmd'[d], todo'[d], ops'[d])
      OBVIOUS
    <3>1. CASE d = c
      BY <1>1, <3>1
    <3>2. CASE d # c
      BY <1>1, <3>2 DEF SInv, CommandsFit
    <3> QED BY <3>1, <3>2
  <2>2. \A d, e \in Saver : Works(cmd'[d]) /\ Works(cmd'[e]) => d = e
    <3> SUFFICES ASSUME NEW d \in Saver, NEW e \in Saver, Works(cmd'[d]), Works(cmd'[e]), d # e
                 PROVE  FALSE
      OBVIOUS
    <3>1. CASE d = c
      BY <1>1, <3>1
    <3>2. CASE e = c
      BY <1>1, <3>2
    <3>3. CASE d # c /\ e # c
      BY <1>1, <3>3 DEF SInv, CommandsFit
    <3> QED BY <3>1, <3>2, <3>3
  <2> QED BY <2>1, <2>2 DEF CommandsFit, CommandFits, Works
<1>3. ASSUME NEW d \in Saver, d # c PROVE SlotsFitFor(d)'
  <2>1. SlotsFitFor(d) /\ pc'[d] = pc[d] /\ todo'[d] = todo[d] /\ ops'[d] = ops[d]
    BY <1>1, <1>3 DEF SInv, SlotsFit, SlotsFitFor
  <2>2. CASE UNCHANGED <<bound, journal, vault>>
    BY <2>1, <2>2 DEF SlotsFitFor, Treated, Prepared, Journaled, Unused
  <2>3. CASE Works(cmd[c]) /\ \A s \in Slot : Unused(d, s) => Unused(d, s)'
    <3>1. ~Works(cmd[d])
      BY <1>3, <2>3 DEF SInv, CommandsFit
    <3>2. todo[d] = {} /\ ops[d] = {}
      BY <3>1 DEF SInv, CommandsFit, CommandFits
    <3>3. \A s \in Slot : Treated(d, s) => Treated(d, s)'
      BY <2>1, <2>3, <3>2 DEF Treated
    <3> QED BY <2>1, <3>2, <3>3 DEF SlotsFitFor
  <2> QED BY <1>3, <2>2, <2>3
<1>4. SlotsFit'
  BY <1>3 DEF SlotsFit, SlotsFitFor
<1> QED BY <1>2, <1>4

\* A step that touches no credential and stays before the commit, or leaves it behind.
LEMMA QuietStep ==
    ASSUME SInv, NEW c \in Saver, NEW l, NEW m, NEW t, NEW o, Moves(c, l, m, t, o),
           CommandFits(l, m, t, o), boot = {},
           UNCHANGED <<bound, journal, vault, boot, crashes>>, RowsOK', ReviewsOK',
           Works(m) => \A d \in Saver : d # c => ~Works(cmd[d]),
           l \in Before => l # "store" /\ pc[c] \in Before \ {"store"} /\ o = ops[c]
    PROVE  SInv'
<1>1. SlotsFitFor(c)'
  <2>1. SUFFICES ASSUME l \in Before PROVE SlotsFitFor(c)'
    BY DEF SlotsFitFor, Before, Moves
  <2>2. \A s \in Slot : Treated(c, s)
    BY <2>1 DEF SInv, SlotsFit
  <2>3. \A s \in Slot : Treated(c, s)'
    BY <2>1, <2>2 DEF Moves, Treated, Prepared, Journaled, Unused
  <2> QED BY <2>1, <2>3 DEF SlotsFitFor, Moves
<1>2. CommandsFit' /\ SlotsFit'
  BY <1>1, StepFits
<1>3. JournalMatches' /\ SecretsAgree'
  BY DEF SInv, JournalMatches, SecretsAgree, BoundSecretPresent, SecretAccountedFor
<1>4. StoreOK' /\ ProgramOK' /\ crashes' \in 0 .. MaxCrashes
  BY TypeParts DEF SInv, StoreOK, Moves
<1> QED BY <1>2, <1>3, <1>4, TypePartsNext DEF SInv

\* A saver that is under way has a command, and start-up is over.
LEMMA UnderWay ==
    ASSUME SInv, NEW c \in Saver, pc[c] \notin {"idle", "done"}
    PROVE  /\ cmd[c] \in Command /\ boot = {}
           /\ \A d \in Saver : d # c /\ Works(cmd[c]) => ~Works(cmd[d])
BY TypeParts DEF SInv, CommandsFit, CommandFits, ProgramOK

\* A command that answers.
LEMMA EndMoves ==
    ASSUME SInv, NEW c \in Saver, End(c)
    PROVE  Moves(c, "done", NoCommand, {}, {}) /\ CommandFits("done", NoCommand, {}, {})
<1>1. ProgramOK /\ c \in Cmd
  BY Nulls, TypeParts DEF SInv
<1>2. "done" \in Label
  BY DEF Label
<1> QED BY <1>1, <1>2, Nulls DEF End, Goto, Moves, ProgramOK, CommandFits, Before

LEMMA EndInv ==
    ASSUME SInv, NEW c \in Saver, End(c), boot = {},
           UNCHANGED <<bound, journal, vault, boot, crashes>>, RowsOK', ReviewsOK'
    PROVE  SInv'
<1>1. ~Works(NoCommand)
  BY Nulls DEF Works, Kind
<1>2. "done" \notin Before
  BY DEF Before
<1> QED BY <1>1, <1>2, EndMoves, QuietStep

LEMMA RowsStay == ASSUME SInv, UNCHANGED <<row, approval>> PROVE RowsOK'
BY TypeParts DEF SInv, RowsOK

LEMMA ReviewsStay == ASSUME SInv, UNCHANGED reviews PROVE ReviewsOK'
BY TypeParts DEF SInv, ReviewsOK, reviews

-----------------------------------------------------------------------------
LEMMA SInit == ASSUME Init PROVE SInv
<1>1. TypeOK
  BY Nulls, SaveAssumption DEF Init, TypeOK, Instance, Ref, Config
<1>2. CommandsFit /\ JournalMatches /\ SecretsAgree
  BY Nulls DEF Init, Kind, CommandsFit, CommandFits, Works, JournalMatches, SecretsAgree,
               BoundSecretPresent, SecretAccountedFor, Before
<1>3. SlotsFit
  BY Nulls DEF Init, SlotsFit, Treated, Unused, Before
<1> QED BY <1>1, <1>2, <1>3 DEF SInv

LEMMA BeginInv ==
    ASSUME SInv, NEW c \in Saver, NEW kind \in Kind, NEW config \in Config,
           NEW ack \in Reviewer \cup {None}, NEW replace \in SUBSET Slot, NEW clear \in SUBSET (Slot \ replace),
           Begin(c, kind, replace, clear, config, ack)
    PROVE  SInv'
<1> DEFINE m == [kind |-> kind, replace |-> replace, clear |-> clear,
                 config |-> config, ack |-> ack,
                 seen |-> IF kind = "create" THEN None ELSE row.version,
                 pin |-> None, kept |-> FALSE, trust |-> None]
           l == IF kind = "create" THEN "prepare" ELSE "read"
<1>1. /\ pc[c] = "idle" /\ boot = {} /\ cmd[c] = NoCommand /\ ops[c] = {}
      /\ ProgramOK /\ c \in Cmd /\ l \in Label
  BY TypeParts, Nulls DEF SInv, CommandsFit, CommandFits, Begin, Label
<1>2. m \in Command
  <2>1. kind # "create" => row \in Instance
    BY TypeParts DEF SInv, RowsOK, Begin
  <2> QED BY <2>1 DEF Command, Instance, Ref
<1>3. m \in Command \cup {NoCommand} /\ m # NoCommand /\ replace \in SUBSET Slot
  BY <1>2, Nulls
<1>4. CommandFits(l, m, replace, {})
  BY <1>3 DEF CommandFits, Works, Kind, Before
<1>5. Works(m) => \A d \in Saver : d # c => ~Works(cmd[d])
  BY DEF Works, Begin, Alone
<1>6. cmd' = [cmd EXCEPT ![c] = m] /\ pc' = [pc EXCEPT ![c] = l]
      /\ todo' = [todo EXCEPT ![c] = replace] /\ ops' = ops
  BY DEF Begin, Goto
<1> HIDE DEF m, l
<1>7. Moves(c, l, m, replace, {})
  BY <1>1, <1>3, <1>6 DEF Moves, ProgramOK
<1>8. RowsOK' /\ ReviewsOK' /\ UNCHANGED <<bound, journal, vault, boot, crashes>>
  BY RowsStay, ReviewsStay DEF Begin, tables, secrets
<1> QED BY <1>1, <1>4, <1>5, <1>7, <1>8, QuietStep DEF l, Before

LEMMA ReadRowInv == ASSUME SInv, NEW c \in Saver, ReadRow(c) PROVE SInv'
<1>1. /\ pc[c] = "read" /\ cmd[c].kind = "update" /\ cmd[c] \in Command /\ boot = {}
      /\ ops[c] = {} /\ ProgramOK /\ RowsOK /\ c \in Cmd
      /\ \A d \in Saver : d # c /\ Works(cmd[c]) => ~Works(cmd[d])
  BY UnderWay, TypeParts, Nulls DEF ReadRow, SInv, CommandsFit, CommandFits
<1>2. RowsOK' /\ ReviewsOK' /\ UNCHANGED <<bound, journal, vault, boot, crashes>>
  BY RowsStay, ReviewsStay DEF ReadRow, tables, secrets
<1>3. CASE row # None /\ row.version = cmd[c].seen
  <2> DEFINE kept == cmd[c].ack = None /\ row.config = cmd[c].config
             m == [cmd[c] EXCEPT !.pin = row.pin, !.kept = kept]
             l == IF kept THEN "retain" ELSE "preflight"
  <2>1. /\ m \in Command /\ m # NoCommand /\ m.kind = "update" /\ m.pin \in Pin
        /\ m.replace = cmd[c].replace /\ m.clear = cmd[c].clear
    <3>1. row.pin \in Pin
      BY <1>1, <1>3 DEF RowsOK, Instance
    <3>2. kept \in BOOLEAN
      OBVIOUS
    <3> HIDE DEF kept
    <3>3. m \in Command
      BY <1>1, <3>1, <3>2 DEF Command
    <3> QED BY <1>1, <3>1, <3>3, Nulls DEF Command
  <2>2. Changing(c) \in SUBSET Slot
    BY <1>1 DEF Changing, Command
  <2>3. CommandFits(l, m, Changing(c), {})
    BY <2>1 DEF CommandFits, Works, Changing, Before
  <2>4. Works(m) <=> Works(cmd[c])
    BY <1>1, <2>1 DEF Works
  <2>5. cmd' = [cmd EXCEPT ![c] = m] /\ pc' = [pc EXCEPT ![c] = l]
        /\ todo' = [todo EXCEPT ![c] = Changing(c)] /\ ops' = ops
    BY <1>3 DEF ReadRow, Goto
  <2>6. l \in Label /\ l \in Before \ {"store"}
    BY DEF Label, Before
  <2> HIDE DEF m, l
  <2>7. Moves(c, l, m, Changing(c), {})
    BY <1>1, <2>1, <2>2, <2>5, <2>6 DEF Moves, ProgramOK
  <2> QED BY <1>1, <1>2, <2>3, <2>4, <2>6, <2>7, QuietStep DEF Before
<1>4. CASE ~(row # None /\ row.version = cmd[c].seen)
  BY <1>1, <1>2, <1>4, EndInv DEF ReadRow
<1> QED BY <1>3, <1>4

LEMMA RetainInv == ASSUME SInv, NEW c \in Saver, Retain(c) PROVE SInv'
<1>1. /\ pc[c] = "retain" /\ cmd[c] \in Command /\ boot = {} /\ ops[c] = {}
      /\ ProgramOK /\ RowsOK /\ c \in Cmd
      /\ \A d \in Saver : d # c /\ Works(cmd[c]) => ~Works(cmd[d])
      /\ CommandFits(pc[c], cmd[c], todo[c], ops[c])
  BY UnderWay, TypeParts, Nulls DEF Retain, SInv, CommandsFit, CommandFits
<1>2. RowsOK' /\ ReviewsOK' /\ UNCHANGED <<bound, journal, vault, boot, crashes>>
  BY RowsStay, ReviewsStay DEF Retain, tables, secrets
<1> DEFINE trust == IF Fits(approval, [config |-> cmd[c].config, pin |-> cmd[c].pin])
                    THEN approval ELSE None
           m == [cmd[c] EXCEPT !.trust = trust]
<1>3. trust \in Approval \cup {None}
  BY <1>1 DEF RowsOK
<1>4. /\ m \in Command /\ m # NoCommand /\ m.kind = cmd[c].kind /\ m.pin = cmd[c].pin
      /\ m.replace = cmd[c].replace /\ m.clear = cmd[c].clear
  BY <1>1, <1>3, Nulls DEF Command
<1>5. cmd' = [cmd EXCEPT ![c] = m] /\ pc' = [pc EXCEPT ![c] = "preflight"]
      /\ todo' = todo /\ ops' = ops
  BY DEF Retain, Goto
<1> HIDE DEF m
<1>6. CommandFits("preflight", m, todo[c], {})
  BY <1>1, <1>4 DEF CommandFits, Works, Before
<1>7. Works(m) <=> Works(cmd[c])
  BY <1>4 DEF Works
<1>8. Moves(c, "preflight", m, todo[c], {})
  BY <1>1, <1>4, <1>5 DEF Moves, ProgramOK, Label
<1> QED BY <1>1, <1>2, <1>6, <1>7, <1>8, QuietStep DEF Before

LEMMA ReadBindingsInv == ASSUME SInv, NEW c \in Saver, ReadBindings(c) PROVE SInv'
<1>1. /\ pc[c] = "read" /\ cmd[c].kind = "delete" /\ cmd[c] \in Command /\ boot = {} /\ ops[c] = {}
      /\ ProgramOK /\ c \in Cmd
      /\ \A d \in Saver : d # c /\ Works(cmd[c]) => ~Works(cmd[d])
      /\ CommandFits(pc[c], cmd[c], todo[c], ops[c])
  BY UnderWay, TypeParts, Nulls DEF ReadBindings, SInv, CommandsFit, CommandFits
<1>2. RowsOK' /\ ReviewsOK' /\ UNCHANGED <<bound, journal, vault, boot, crashes>>
  BY RowsStay, ReviewsStay DEF ReadBindings, tables, secrets
<1>3. CommandFits("preflight", cmd[c], Slot, {})
  BY <1>1 DEF CommandFits, Works, Before
<1>4. Moves(c, "preflight", cmd[c], Slot, {})
  BY <1>1 DEF ReadBindings, Goto, Moves, ProgramOK, Label
<1> QED BY <1>1, <1>2, <1>3, <1>4, QuietStep DEF Before

LEMMA PreflightDoneInv == ASSUME SInv, NEW c \in Saver, PreflightDone(c) PROVE SInv'
<1> DEFINE l == IF cmd[c].kind = "delete" THEN "commit" ELSE "prepare"
<1>1. /\ pc[c] = "preflight" /\ cmd[c] \in Command /\ boot = {} /\ ops[c] = {}
      /\ ProgramOK /\ c \in Cmd
      /\ \A d \in Saver : d # c /\ Works(cmd[c]) => ~Works(cmd[d])
      /\ CommandFits(pc[c], cmd[c], todo[c], ops[c])
  BY UnderWay, TypeParts, Nulls DEF PreflightDone, SInv, CommandsFit, CommandFits
<1>2. RowsOK' /\ ReviewsOK' /\ UNCHANGED <<bound, journal, vault, boot, crashes>>
  BY RowsStay, ReviewsStay DEF PreflightDone, tables, secrets
<1>3. Changing(c) \in SUBSET Slot
  BY <1>1 DEF Changing, Command
<1>4. CommandFits(l, cmd[c], Changing(c), {})
  BY <1>1 DEF CommandFits, Works, Before, Changing
<1>5. l \in Label /\ l \in Before \ {"store"}
  BY DEF Label, Before
<1>6. Moves(c, l, cmd[c], Changing(c), {})
  BY <1>1, <1>3, <1>5 DEF PreflightDone, Goto, Moves, ProgramOK
<1> QED BY <1>1, <1>2, <1>4, <1>5, <1>6, QuietStep DEF Before

LEMMA PrepareDoneInv == ASSUME SInv, NEW c \in Saver, PrepareDone(c) PROVE SInv'
<1> DEFINE l == IF cmd[c].kind = "create" THEN "gate"
                ELSE IF cmd[c].kept THEN "commit" ELSE "consume"
<1>1. /\ pc[c] = "prepare" /\ cmd[c] \in Command /\ boot = {} /\ ProgramOK /\ c \in Cmd
      /\ \A d \in Saver : d # c /\ Works(cmd[c]) => ~Works(cmd[d])
      /\ CommandFits(pc[c], cmd[c], todo[c], ops[c])
  BY UnderWay, TypeParts, Nulls DEF PrepareDone, SInv, CommandsFit
<1>2. RowsOK' /\ ReviewsOK' /\ UNCHANGED <<bound, journal, vault, boot, crashes>>
  BY RowsStay, ReviewsStay DEF PrepareDone, tables, secrets
<1>3. CommandFits(l, cmd[c], todo[c], ops[c])
  BY <1>1 DEF CommandFits, Before
<1>4. l \in Label /\ l \in Before \ {"store"}
  BY DEF Label, Before
<1>5. Moves(c, l, cmd[c], todo[c], ops[c])
  BY <1>1, <1>4 DEF PrepareDone, Goto, Moves, ProgramOK
<1> QED BY <1>1, <1>2, <1>3, <1>4, <1>5, QuietStep DEF Before

LEMMA GateInv == ASSUME SInv, NEW c \in Saver, NEW pin \in Pin, Gate(c, pin) PROVE SInv'
<1> DEFINE m == [cmd[c] EXCEPT !.pin = pin]
<1>1. /\ pc[c] = "gate" /\ cmd[c] \in Command /\ boot = {} /\ ProgramOK /\ c \in Cmd
      /\ \A d \in Saver : d # c /\ Works(cmd[c]) => ~Works(cmd[d])
      /\ CommandFits(pc[c], cmd[c], todo[c], ops[c])
  BY UnderWay, TypeParts, Nulls DEF Gate, SInv, CommandsFit
<1>2. RowsOK' /\ ReviewsOK' /\ UNCHANGED <<bound, journal, vault, boot, crashes>>
  BY RowsStay, ReviewsStay DEF Gate, tables, secrets
<1>3. /\ m \in Command /\ m # NoCommand /\ m.kind = cmd[c].kind /\ m.pin \in Pin
      /\ m.replace = cmd[c].replace /\ m.clear = cmd[c].clear
  BY <1>1, Nulls DEF Command
<1>4. cmd' = [cmd EXCEPT ![c] = m] /\ pc' = [pc EXCEPT ![c] = "consume"]
      /\ todo' = todo /\ ops' = ops
  BY DEF Gate, Goto
<1> HIDE DEF m
<1>5. CommandFits("consume", m, todo[c], ops[c]) /\ (Works(m) <=> Works(cmd[c]))
  BY <1>1, <1>3 DEF CommandFits, Works, Before
<1>6. Moves(c, "consume", m, todo[c], ops[c])
  BY <1>1, <1>3, <1>4 DEF Moves, ProgramOK, Label
<1> QED BY <1>1, <1>2, <1>5, <1>6, QuietStep DEF Before

LEMMA GateFailsInv == ASSUME SInv, NEW c \in Saver, GateFails(c) PROVE SInv'
BY UnderWay, RowsStay, ReviewsStay, EndInv DEF GateFails, tables, secrets

LEMMA ConsumeInv == ASSUME SInv, NEW c \in Saver, Consume(c) PROVE SInv'
<1>1. /\ pc[c] = "consume" /\ cmd[c] \in Command /\ boot = {} /\ ProgramOK /\ ReviewsOK /\ c \in Cmd
      /\ \A d \in Saver : d # c /\ Works(cmd[c]) => ~Works(cmd[d])
      /\ CommandFits(pc[c], cmd[c], todo[c], ops[c])
  BY UnderWay, TypeParts, Nulls DEF Consume, SInv, CommandsFit
<1>2. RowsOK' /\ UNCHANGED <<bound, journal, vault, boot, crashes, review, open, todo, ops>>
  BY RowsStay DEF Consume, tables, secrets
<1>3. CASE UNCHANGED <<reserved, cmd>>
  <2>1. PICK l \in {"commit", "undo"} : pc' = [pc EXCEPT ![c] = l]
    BY <1>3 DEF Consume, Goto
  <2>2. ReviewsOK'
    BY <1>2, <1>3, ReviewsStay DEF reviews
  <2>3. CommandFits(l, cmd[c], todo[c], ops[c])
    BY <1>1, Nulls DEF CommandFits, Before
  <2>4. Moves(c, l, cmd[c], todo[c], ops[c])
    BY <1>1, <1>2, <1>3, <2>1 DEF Moves, ProgramOK, Label
  <2> QED BY <1>1, <1>2, <2>2, <2>3, <2>4, QuietStep DEF Before
<1>4. CASE ~UNCHANGED <<reserved, cmd>>
  <2> DEFINE trust == [config |-> cmd[c].config, pin |-> cmd[c].pin, review |-> cmd[c].ack]
             m == [cmd[c] EXCEPT !.trust = trust]
  <2>1. /\ cmd[c].config # Official /\ cmd[c].ack \in open
        /\ reserved' = reserved \cup {cmd[c].ack}
        /\ cmd' = [cmd EXCEPT ![c].trust = trust] /\ pc' = [pc EXCEPT ![c] = "commit"]
    BY <1>4 DEF Consume, Goto
  <2>2. ReviewsOK'
    BY <1>1, <1>2, <2>1 DEF ReviewsOK
  <2>3. trust \in Approval
    <3>1. cmd[c].pin \in Pin
      BY <1>1 DEF CommandFits, Command, Kind, Before
    <3>2. cmd[c].config \in Custom /\ cmd[c].ack \in Reviewer
      BY <1>1, <2>1 DEF Command, Config, ReviewsOK
    <3> QED BY <3>1, <3>2 DEF Approval
  <2>4. cmd' = [cmd EXCEPT ![c] = m]
    BY <1>1, <2>1 DEF ProgramOK
  <2> HIDE DEF trust
  <2>5. /\ m \in Command /\ m # NoCommand /\ m.kind = cmd[c].kind /\ m.pin = cmd[c].pin
        /\ m.replace = cmd[c].replace /\ m.clear = cmd[c].clear
    BY <1>1, <2>3, Nulls DEF Command
  <2> HIDE DEF m
  <2>6. CommandFits("commit", m, todo[c], ops[c]) /\ (Works(m) <=> Works(cmd[c]))
    BY <1>1, <2>5 DEF CommandFits, Works, Before
  <2>7. Moves(c, "commit", m, todo[c], ops[c])
    BY <1>1, <1>2, <2>1, <2>4, <2>5 DEF Moves, ProgramOK, Label
  <2> QED BY <1>1, <1>2, <2>2, <2>6, <2>7, QuietStep DEF Before
<1> QED BY <1>3, <1>4

\* After the transaction a command only moves on, or answers.
LEMMA AfterInv ==
    ASSUME SInv, NEW c \in Saver, CommitFails(c) \/ Settle(c) \/ Release(c) \/ Answer(c)
    PROVE  SInv'
<1>1. /\ cmd[c] \in Command /\ boot = {} /\ ProgramOK /\ ReviewsOK /\ c \in Cmd
      /\ pc[c] \in {"commit", "settle", "release", "finish", "undo", "abort"}
      /\ \A d \in Saver : d # c /\ Works(cmd[c]) => ~Works(cmd[d])
      /\ CommandFits(pc[c], cmd[c], todo[c], ops[c])
  BY UnderWay, TypeParts, Nulls DEF CommitFails, Settle, Release, Answer, SInv, CommandsFit
<1>2. RowsOK' /\ UNCHANGED <<bound, journal, vault, boot, crashes>>
  BY RowsStay DEF CommitFails, Settle, Release, Answer, tables, secrets
<1>3. ReviewsOK'
  BY <1>1 DEF CommitFails, Settle, Release, Answer, reviews, ReviewsOK
<1>4. CASE End(c)
  BY <1>1, <1>2, <1>3, <1>4, EndInv
<1>5. CASE ~End(c)
  <2>1. PICK l \in {"release", "abort", "finish", "undo"} :
           /\ pc' = [pc EXCEPT ![c] = l] /\ UNCHANGED <<cmd, todo, ops>>
           /\ l \in {"release", "abort"} => pc[c] \in {"commit", "abort"} /\ cmd[c].kind # "delete"
    BY <1>1, <1>5 DEF CommitFails, Settle, Release, Released, Answer, Goto, CommandFits
  <2>2. CommandFits(l, cmd[c], todo[c], ops[c])
    BY <1>1, <2>1, Nulls DEF CommandFits, Before
  <2>3. Moves(c, l, cmd[c], todo[c], ops[c])
    BY <1>1, <2>1 DEF Moves, ProgramOK, Label
  <2> QED BY <1>1, <1>2, <1>3, <2>2, <2>3, QuietStep DEF Before
<1> QED BY <1>4, <1>5

LEMMA StoreSlots == ASSUME SInv PROVE \A c \in Saver : todo[c] \subseteq Slot /\ ops[c] \subseteq Slot
BY TypeParts DEF SInv, ProgramOK

\* Reviews, their expiry, and other writes of the row touch neither commands nor credentials.
LEMMA OthersInv ==
    ASSUME SInv, UNCHANGED <<bound, secrets, cmd, todo, ops, boot, crashes>>, RowsOK', ReviewsOK',
           pc' \in [Cmd -> Label], \A c \in Saver : pc'[c] = pc[c]
    PROVE  SInv'
<1>1. StoreOK' /\ ProgramOK' /\ crashes' \in 0 .. MaxCrashes
  BY TypeParts DEF SInv, StoreOK, ProgramOK, secrets
<1>2. CommandsFit' /\ JournalMatches' /\ SecretsAgree'
  BY DEF SInv, CommandsFit, JournalMatches, SecretsAgree, BoundSecretPresent, SecretAccountedFor,
         secrets
<1>3. ASSUME NEW c \in Saver PROVE SlotsFitFor(c)'
  <2>1. SlotsFitFor(c)
    BY DEF SInv, SlotsFit, SlotsFitFor
  <2>2. \A s \in Slot : /\ Treated(c, s) <=> Treated(c, s)'
                        /\ Journaled(c, s) <=> Journaled(c, s)'
    BY DEF Treated, Prepared, Journaled, Unused, secrets
  <2>3. pc'[c] = pc[c] /\ todo' = todo /\ journal' = journal /\ vault' = vault
    BY DEF secrets
  <2> QED BY <2>1, <2>2, <2>3, StoreSlots DEF SlotsFitFor
<1>4. SlotsFit'
  BY <1>3 DEF SlotsFit, SlotsFitFor
<1> QED BY <1>1, <1>2, <1>4, TypePartsNext DEF SInv

LEMMA ReviewInv ==
    ASSUME SInv, NEW p \in Reviewer, NEW config \in Custom, NEW pin \in Pin, Review(p, config, pin)
    PROVE  SInv'
<1>1. RowsOK /\ ReviewsOK /\ ProgramOK /\ p \in Cmd /\ \A c \in Saver : c # p /\ c \in Cmd
  BY TypeParts, Nulls DEF SInv
<1>2. [config |-> config, pin |-> pin, seen |-> IF row = None THEN None ELSE row.version,
       new |-> row = None] \in Shown
  <2>1. (IF row = None THEN None ELSE row.version) \in Ref
    BY <1>1 DEF RowsOK, Instance, Ref
  <2>2. (row = None) \in BOOLEAN
    OBVIOUS
  <2> QED BY <2>1, <2>2 DEF Shown
<1>3. ReviewsOK'
  BY <1>1, <1>2 DEF Review, ReviewsOK
<1>4. RowsOK'
  BY RowsStay DEF Review, tables
<1>5. pc' \in [Cmd -> Label] /\ \A c \in Saver : pc'[c] = pc[c]
  BY <1>1 DEF Review, Goto, ProgramOK, Label
<1> QED BY <1>3, <1>4, <1>5, OthersInv DEF Review, tables

LEMMA ExpireInv == ASSUME SInv, NEW p \in Reviewer, Expire(p) PROVE SInv'
<1>1. ReviewsOK' /\ pc' \in [Cmd -> Label]
  BY TypeParts DEF Expire, SInv, ReviewsOK, ProgramOK
<1> QED BY <1>1, RowsStay, OthersInv DEF Expire, tables

LEMMA WritersInv ==
    ASSUME SInv, NEW w \in Writer,
           \E config \in Config :
              \/ Import(w, config)
              \/ \E pin \in Pin : Upgrade(w, config, pin) \/ Rollback(w, config, pin)
    PROVE  SInv'
<1>1. RowsOK /\ ProgramOK /\ w \in Cmd /\ \A c \in Saver : c # w /\ c \in Cmd
  BY TypeParts, Nulls DEF SInv
<1>2. RowsOK'
  BY <1>1 DEF Import, Upgrade, Rollback, RowsOK, Instance, Ref
<1>3. pc' \in [Cmd -> Label] /\ \A c \in Saver : pc'[c] = pc[c]
  BY <1>1 DEF Import, Upgrade, Rollback, Goto, ProgramOK, Label
<1> QED BY <1>2, <1>3, ReviewsStay, OthersInv DEF Import, Upgrade, Rollback

-----------------------------------------------------------------------------
(* The steps that touch credentials. *)

\* Finalizing a journal row, to whatever point, loses no secret that is referred to and
\* forgets none.
LEMMA FinalizeFits ==
    ASSUME SInv, NEW k \in Slot, journal[k] # None, Finalize(k), UNCHANGED bound
    PROVE  /\ journal' \in [Slot -> JournalRow \cup {None}] /\ vault' \subseteq Slot \X Cmd
           /\ JournalMatches' /\ SecretsAgree'
           /\ \A c \in Saver, s \in Slot : Unused(c, s) => Unused(c, s)'
           /\ \A s \in Slot : s # k => journal'[s] = journal[s]
<1> DEFINE target == CleanupTarget(journal[k], bound[k])
<1>1. StoreOK /\ journal[k] \in JournalRow
  BY TypeParts DEF SInv, StoreOK
<1>2. /\ target # None => target # bound[k]
      /\ \A x \in Cmd : x \in {journal[k].old, journal[k].new} => x = target \/ x = bound[k]
  BY <1>1, Nulls DEF SInv, JournalMatches, CleanupTarget, JournalRow
<1> HIDE DEF target
<1>3. /\ journal' = [journal EXCEPT ![k] = None] \/ journal' = journal
      /\ vault' \in {vault, vault \ {<<k, target>>}}
      /\ journal' # journal => vault' = vault \ {<<k, target>>}
  BY DEF Finalize, target
<1>4. /\ \A s \in Slot : s # k => journal'[s] = journal[s]
      /\ journal'[k] = journal[k] \/ (journal'[k] = None /\ vault' = vault \ {<<k, target>>})
      /\ journal' \in [Slot -> JournalRow \cup {None}]
  <2>0. journal \in [Slot -> JournalRow \cup {None}]
    BY <1>1 DEF StoreOK
  <2>1. CASE journal' = journal
    <3>1. journal' \in [Slot -> JournalRow \cup {None}]
      BY <2>0, <2>1
    <3>2. \A s \in Slot : journal'[s] = journal[s]
      BY <2>1, Zenon
    <3>3. journal'[k] = journal[k]
      BY <2>1, Zenon
    <3> QED BY <3>1, <3>2, <3>3
  <2>2. CASE journal' # journal
    <3>1. journal' = [journal EXCEPT ![k] = None] /\ vault' = vault \ {<<k, target>>}
      BY <1>3, <2>2
    <3>2. journal' \in [Slot -> JournalRow \cup {None}]
      BY <2>0, <3>1
    <3> QED BY <2>0, <3>1, <3>2
  <2> QED BY <2>1, <2>2
<1>5. JournalMatches'
  BY <1>4 DEF SInv, JournalMatches
<1>6. BoundSecretPresent'
  <2> SUFFICES ASSUME NEW s \in Slot, bound[s] # None PROVE <<s, bound[s]>> \in vault'
    BY DEF BoundSecretPresent
  <2>1. <<s, bound[s]>> \in vault
    BY DEF SInv, SecretsAgree, BoundSecretPresent
  <2>2. <<s, bound[s]>> # <<k, target>>
    BY <1>2
  <2> QED BY <1>3, <2>1, <2>2
<1>7. SecretAccountedFor'
  <2> SUFFICES ASSUME NEW s \in Slot, NEW c \in Cmd, <<s, c>> \in vault'
               PROVE  bound[s] = c \/ (journal'[s] # None /\ c \in {journal'[s].old, journal'[s].new})
    BY DEF SecretAccountedFor
  <2>1. bound[s] = c \/ (journal[s] # None /\ c \in {journal[s].old, journal[s].new})
    BY <1>3 DEF SInv, SecretsAgree, SecretAccountedFor
  <2>2. CASE journal'[s] = journal[s]
    BY <2>1, <2>2
  <2>3. CASE journal'[s] # journal[s]
    BY <1>2, <1>4, <2>1, <2>3
  <2> QED BY <2>2, <2>3
<1>8. ASSUME NEW c \in Saver, NEW s \in Slot, Unused(c, s) PROVE Unused(c, s)'
  BY <1>3, <1>4, <1>8 DEF Unused
<1> QED BY <1>1, <1>3, <1>4, <1>5, <1>6, <1>7, <1>8 DEF SecretsAgree, StoreOK

LEMMA PreflightInv ==
    ASSUME SInv, NEW c \in Saver, NEW s \in Slot, Preflight(c, s) PROVE SInv'
<1>1. /\ pc[c] = "preflight" /\ s \in todo[c] /\ cmd[c] \in Command /\ boot = {} /\ ops[c] = {}
      /\ ProgramOK /\ StoreOK /\ c \in Cmd /\ CommandFits(pc[c], cmd[c], todo[c], ops[c])
      /\ Works(cmd[c]) /\ \A d \in Saver : d # c => ~Works(cmd[d])
  BY UnderWay, TypeParts, Nulls DEF Preflight, SInv, CommandsFit, CommandFits
<1>2. RowsOK' /\ ReviewsOK' /\ UNCHANGED <<bound, boot, crashes>>
  BY RowsStay, ReviewsStay DEF Preflight, tables
<1>3. /\ journal' \in [Slot -> JournalRow \cup {None}] /\ vault' \subseteq Slot \X Cmd
      /\ JournalMatches' /\ SecretsAgree'
      /\ \A d \in Saver, k \in Slot : Unused(d, k) => Unused(d, k)'
  <2>1. CASE journal[s] = None
    <3>1. UNCHANGED <<bound, journal, vault>>
      BY <2>1 DEF Preflight, secrets, tables
    <3> QED BY <1>1, <3>1 DEF StoreOK, SInv, JournalMatches, SecretsAgree, BoundSecretPresent,
                              SecretAccountedFor, Unused
  <2>2. CASE journal[s] # None
    BY <1>2, <2>2, FinalizeFits DEF Preflight
  <2> QED BY <2>1, <2>2
<1>4. PICK l, m, t : /\ Moves(c, l, m, t, {}) /\ CommandFits(l, m, t, {})
                     /\ l \in {"preflight", "done"} /\ m \in {cmd[c], NoCommand}
  <2>1. CASE End(c)
    BY <2>1, EndMoves
  <2>2. CASE ~End(c)
    <3>1. todo' = [todo EXCEPT ![c] = todo[c] \ {s}] /\ UNCHANGED <<cmd, ops, pc>>
      BY <2>2 DEF Preflight
    <3>2. Moves(c, "preflight", cmd[c], todo[c] \ {s}, {})
      BY <1>1, <3>1 DEF Moves, ProgramOK
    <3>3. CommandFits("preflight", cmd[c], todo[c] \ {s}, {})
      BY <1>1 DEF CommandFits, Before
    <3> QED BY <3>2, <3>3
  <2> QED BY <2>1, <2>2
<1>5. SlotsFitFor(c)'
  <2>1. \A k \in Slot : Treated(c, k)
    BY <1>1 DEF SInv, SlotsFit, Before
  <2>2. \A k \in Slot : Treated(c, k)'
    BY <1>1, <1>3, <1>4, <2>1 DEF Treated, Moves
  <2> QED BY <1>4, <2>2 DEF SlotsFitFor, Moves
<1>6. CommandsFit' /\ SlotsFit'
  BY <1>1, <1>2, <1>3, <1>4, <1>5, StepFits
<1>7. StoreOK' /\ ProgramOK' /\ crashes' \in 0 .. MaxCrashes
  BY <1>1, <1>2, <1>3, <1>4, TypeParts DEF SInv, StoreOK, Moves
<1> QED BY <1>2, <1>3, <1>6, <1>7, TypePartsNext DEF SInv

LEMMA FinalizeOpInv ==
    ASSUME SInv, NEW c \in Saver, NEW s \in Slot, FinalizeOp(c, s) PROVE SInv'
<1>1. /\ pc[c] \in {"finish", "undo", "abort"} /\ s \in ops[c] /\ cmd[c] \in Command /\ boot = {}
      /\ ProgramOK /\ StoreOK /\ c \in Cmd /\ CommandFits(pc[c], cmd[c], todo[c], ops[c])
      /\ Works(cmd[c]) /\ \A d \in Saver : d # c => ~Works(cmd[d])
  BY UnderWay, TypeParts, Nulls DEF FinalizeOp, SInv, CommandsFit, CommandFits
<1>2. RowsOK' /\ ReviewsOK' /\ UNCHANGED <<bound, boot, crashes>>
  BY RowsStay, ReviewsStay DEF FinalizeOp, tables
<1>3. /\ journal' \in [Slot -> JournalRow \cup {None}] /\ vault' \subseteq Slot \X Cmd
      /\ JournalMatches' /\ SecretsAgree'
      /\ \A d \in Saver, k \in Slot : Unused(d, k) => Unused(d, k)'
  <2>1. CASE journal[s] = None
    <3>1. UNCHANGED <<bound, journal, vault>>
      BY <2>1 DEF FinalizeOp, secrets, tables
    <3> QED BY <1>1, <3>1 DEF StoreOK, SInv, JournalMatches, SecretsAgree, BoundSecretPresent,
                              SecretAccountedFor, Unused
  <2>2. CASE journal[s] # None
    BY <1>2, <2>2, FinalizeFits DEF FinalizeOp
  <2> QED BY <2>1, <2>2
<1>4. Moves(c, pc[c], cmd[c], todo[c], ops[c] \ {s})
  BY <1>1 DEF FinalizeOp, Moves, ProgramOK
<1>5. CommandFits(pc[c], cmd[c], todo[c], ops[c] \ {s})
  BY <1>1, Nulls DEF CommandFits, Before
<1>6. SlotsFitFor(c)'
  BY <1>1, <1>4 DEF SlotsFitFor, Moves, Before
<1>7. CommandsFit' /\ SlotsFit'
  BY <1>1, <1>2, <1>3, <1>4, <1>5, <1>6, StepFits
<1>8. StoreOK' /\ ProgramOK' /\ crashes' \in 0 .. MaxCrashes
  BY <1>1, <1>2, <1>3, <1>4, TypeParts DEF SInv, StoreOK, Moves
<1> QED BY <1>2, <1>3, <1>7, <1>8, TypePartsNext DEF SInv

\* Without a command under way there is nothing but what start-up does.
LEMMA RecoverInv == ASSUME SInv, NEW k \in Slot, Recover(k) PROVE SInv'
<1>1. k \in boot /\ journal[k] # None /\ Finalize(k) /\ boot' = boot \ {k} /\ StoreOK
  BY TypeParts DEF Recover, SInv, CommandsFit
<1>2. RowsOK' /\ ReviewsOK' /\ UNCHANGED <<bound, cmd, todo, ops, pc, crashes>>
  BY RowsStay, ReviewsStay DEF Recover, tables
<1>3. /\ journal' \in [Slot -> JournalRow \cup {None}] /\ vault' \subseteq Slot \X Cmd
      /\ JournalMatches' /\ SecretsAgree'
      /\ \A d \in Saver, s \in Slot : Unused(d, s) => Unused(d, s)'
      /\ \A s \in Slot : s # k => journal'[s] = journal[s]
  BY <1>1, <1>2, FinalizeFits
<1>4. \A c \in Saver : cmd[c] = NoCommand /\ ops[c] = {} /\ pc[c] \in {"idle", "done"}
  BY <1>1 DEF SInv, CommandsFit, CommandFits
<1>5. CommandsFit'
  BY <1>1, <1>2, <1>3, <1>4, TypeParts DEF SInv, CommandsFit, StoreOK
<1>6. SlotsFit'
  BY <1>2, <1>3, <1>4 DEF SInv, SlotsFit, Treated, Before
<1>7. StoreOK' /\ ProgramOK' /\ crashes' \in 0 .. MaxCrashes
  BY <1>1, <1>2, <1>3, TypeParts DEF SInv, StoreOK, ProgramOK
<1> QED BY <1>2, <1>3, <1>5, <1>6, <1>7, TypePartsNext DEF SInv

LEMMA CrashInv == ASSUME SInv, Crash PROVE SInv'
<1>1. RowsOK /\ StoreOK /\ ProgramOK /\ ReviewsOK /\ crashes \in 0 .. MaxCrashes /\ MaxCrashes \in Nat
  BY TypeParts, SaveAssumption DEF SInv
<1>2. RowsOK' /\ StoreOK' /\ ReviewsOK' /\ crashes' \in 0 .. MaxCrashes
  BY <1>1 DEF Crash, tables, secrets, RowsOK, StoreOK, ReviewsOK
<1>3. ProgramOK'
  BY <1>1 DEF Crash, ProgramOK, Label
<1>4. /\ \A c \in Saver : pc'[c] = (IF pc[c] = "idle" THEN "idle" ELSE "done")
      /\ \A c \in Saver : cmd'[c] = NoCommand /\ todo'[c] = {} /\ ops'[c] = {}
  BY Nulls DEF Crash
<1>5. CommandsFit'
  BY <1>4, Nulls DEF CommandsFit, CommandFits, Works, Crash, secrets, Before, Kind
<1>6. SlotsFit'
  <2> SUFFICES ASSUME NEW c \in Saver, pc[c] = "idle", NEW s \in Slot PROVE Unused(c, s)'
    BY <1>4 DEF SlotsFit, Treated, Before
  <2>1. ops[c] = {} /\ Treated(c, s)
    BY DEF SInv, CommandsFit, CommandFits, SlotsFit, Before
  <2> QED BY <2>1 DEF Treated, Unused, Crash, tables, secrets
<1>7. JournalMatches' /\ SecretsAgree'
  BY DEF SInv, JournalMatches, SecretsAgree, BoundSecretPresent, SecretAccountedFor, Crash, tables, secrets
<1> QED BY <1>2, <1>3, <1>5, <1>6, <1>7, TypePartsNext DEF SInv

LEMMA InsertInv ==
    ASSUME SInv, NEW c \in Saver, NEW s \in Slot, Insert(c, s) PROVE SInv'
<1>1. /\ pc[c] = "prepare" /\ s \in todo[c] /\ cmd[c] \in Command /\ boot = {}
      /\ ProgramOK /\ StoreOK /\ c \in Cmd /\ CommandFits(pc[c], cmd[c], todo[c], ops[c])
      /\ Works(cmd[c]) /\ \A d \in Saver : d # c => ~Works(cmd[d])
  BY UnderWay, TypeParts, Nulls DEF Insert, SInv, CommandsFit, CommandFits
<1>2. RowsOK' /\ ReviewsOK' /\ UNCHANGED <<bound, vault, cmd, boot, crashes>>
  BY RowsStay, ReviewsStay DEF Insert, tables
<1>3. CASE journal[s] # None
  <2>1. pc' = [pc EXCEPT ![c] = "undo"] /\ UNCHANGED <<journal, todo, ops>>
    BY <1>3 DEF Insert, Goto
  <2>2. Moves(c, "undo", cmd[c], todo[c], ops[c])
    BY <1>1, <1>2, <2>1 DEF Moves, ProgramOK, Label
  <2>3. CommandFits("undo", cmd[c], todo[c], ops[c])
    BY <1>1, Nulls DEF CommandFits, Before
  <2> QED BY <1>1, <1>2, <2>1, <2>2, <2>3, QuietStep DEF Before
<1>4. CASE journal[s] = None
  <2> DEFINE new == IF s \in cmd[c].replace THEN c ELSE None
             entry == [id |-> c, old |-> bound[s], new |-> new, state |-> "prepared"]
  <2>1. \A k \in Slot : Treated(c, k)
    BY <1>1 DEF SInv, SlotsFit, Before
  <2>2. s \notin ops[c] /\ Unused(c, s)
    BY <1>1, <2>1 DEF CommandFits, Before, Treated
  <2>3. /\ journal' = [journal EXCEPT ![s] = entry]
        /\ entry \in JournalRow /\ entry # None
    BY <1>1, <1>4, Nulls DEF Insert, StoreOK, Ref, JournalRow
  <2>4. entry.id = c /\ entry.old = bound[s] /\ entry.new = new /\ entry.state = "prepared"
    OBVIOUS
  <2>5. new = c \/ new = None
    OBVIOUS
  <2> HIDE DEF entry
  <2>6. /\ journal' \in [Slot -> JournalRow \cup {None}] /\ journal'[s] = entry
        /\ \A k \in Slot : k # s => journal'[k] = journal[k]
    BY <1>1, <2>3 DEF StoreOK
  <2>7. JournalMatches' /\ SecretsAgree'
    <3>1. JournalMatches'
      BY <1>2, <2>2, <2>3, <2>4, <2>6, <2>5 DEF SInv, JournalMatches, Unused
    <3>2. BoundSecretPresent'
      BY <1>2 DEF SInv, SecretsAgree, BoundSecretPresent
    <3>3. SecretAccountedFor'
      BY <1>2, <1>4, <2>6 DEF SInv, SecretsAgree, SecretAccountedFor
    <3> QED BY <3>1, <3>2, <3>3 DEF SecretsAgree
  <2>8. \A d \in Saver, k \in Slot : d # c /\ Unused(d, k) => Unused(d, k)'
    BY <1>2, <2>4, <2>5, <2>6, Nulls DEF Unused
  <2>9. Journaled(c, s)' /\ journal'[s].new = new /\ <<s, c>> \notin vault'
    BY <1>2, <2>2, <2>3, <2>4, <2>5, <2>6 DEF Journaled, Unused
  <2>10. PICK l, t, o : /\ Moves(c, l, cmd[c], t, o) /\ CommandFits(l, cmd[c], t, o)
                        /\ SlotsFitFor(c)'
    <3>1. CASE s \in cmd[c].replace
      <4>1. pc' = [pc EXCEPT ![c] = "store"] /\ UNCHANGED <<todo, ops>>
        BY <1>4, <3>1 DEF Insert, Goto
      <4>2. Moves(c, "store", cmd[c], todo[c], ops[c])
        BY <1>1, <1>2, <4>1 DEF Moves, ProgramOK, Label
      <4>3. CommandFits("store", cmd[c], todo[c], ops[c])
        BY <1>1, Nulls DEF CommandFits, Before
      <4>4. ASSUME NEW k \in Slot \ {s} PROVE Treated(c, k)'
        BY <1>2, <2>1, <2>6, <4>1 DEF Treated, Prepared, Journaled, Unused
      <4>5. new = c
        BY <3>1
      <4> QED BY <1>1, <2>9, <4>1, <4>2, <4>3, <4>4, <4>5 DEF SlotsFitFor, Moves
    <3>2. CASE s \notin cmd[c].replace
      <4>1. /\ todo' = [todo EXCEPT ![c] = todo[c] \ {s}] /\ ops' = [ops EXCEPT ![c] = ops[c] \cup {s}]
            /\ pc' = pc
        BY <1>4, <3>2 DEF Insert
      <4>2. Moves(c, "prepare", cmd[c], todo[c] \ {s}, ops[c] \cup {s})
        BY <1>1, <1>2, <4>1 DEF Moves, ProgramOK
      <4>3. CommandFits("prepare", cmd[c], todo[c] \ {s}, ops[c] \cup {s})
        BY <1>1, Nulls DEF CommandFits, Before
      <4>4. ASSUME NEW k \in Slot, k # s PROVE Treated(c, k)'
        BY <1>2, <2>1, <2>6, <4>2, <4>4 DEF Treated, Prepared, Journaled, Unused, Moves
      <4>5. new = None
        BY <3>2
      <4>6. Treated(c, s)'
        BY <2>9, <4>2, <4>5, Nulls DEF Treated, Prepared, Moves
      <4>7. SlotsFitFor(c)'
        BY <4>2, <4>4, <4>6 DEF SlotsFitFor, Moves
      <4> QED BY <4>2, <4>3, <4>7
    <3> QED BY <3>1, <3>2
  <2>11. CommandsFit' /\ SlotsFit'
    BY <1>1, <1>2, <2>8, <2>10, StepFits
  <2>12. StoreOK' /\ ProgramOK' /\ crashes' \in 0 .. MaxCrashes
    BY <1>1, <1>2, <2>6, <2>10, TypeParts DEF SInv, StoreOK, Moves
  <2> QED BY <1>2, <2>7, <2>11, <2>12, TypePartsNext DEF SInv
<1> QED BY <1>3, <1>4

\* The slot whose secret is on its way to the vault is the one that has the command's row.
LEMMA StoresOwn ==
    ASSUME SInv, NEW c \in Saver, NEW s \in Slot, pc[c] = "store", s \in todo[c],
           journal[s] # None, journal[s].id = c
    PROVE  /\ Journaled(c, s) /\ journal[s].new = c /\ <<s, c>> \notin vault /\ s \notin ops[c]
           /\ \A k \in Slot : k # s => Treated(c, k)
<1>1. PICK t \in todo[c] : /\ Journaled(c, t) /\ journal[t].new = c /\ <<t, c>> \notin vault
                           /\ \A k \in Slot \ {t} : Treated(c, k)
  BY DEF SInv, SlotsFit
<1>2. s \notin ops[c]
  BY DEF SInv, CommandsFit, CommandFits, Before
<1>3. s = t
  BY <1>1, <1>2 DEF Treated, Unused
<1> QED BY <1>1, <1>2, <1>3

LEMMA StoreInv ==
    ASSUME SInv, NEW c \in Saver, NEW s \in Slot, Store(c, s) PROVE SInv'
<1>1. /\ pc[c] = "store" /\ s \in todo[c] /\ cmd[c] \in Command /\ boot = {}
      /\ ProgramOK /\ StoreOK /\ c \in Cmd /\ CommandFits(pc[c], cmd[c], todo[c], ops[c])
      /\ Works(cmd[c]) /\ \A d \in Saver : d # c => ~Works(cmd[d])
  BY UnderWay, TypeParts, Nulls DEF Store, SInv, CommandsFit, CommandFits
<1>2. RowsOK' /\ ReviewsOK' /\ UNCHANGED <<bound, journal, cmd, boot, crashes>>
  BY RowsStay, ReviewsStay DEF Store, tables
<1>3. /\ Journaled(c, s) /\ journal[s].new = c /\ <<s, c>> \notin vault /\ s \notin ops[c]
      /\ \A k \in Slot : k # s => Treated(c, k)
  BY StoresOwn DEF Store
<1>4. /\ vault' = vault \cup {<<s, c>>} /\ pc' = [pc EXCEPT ![c] = "prepare"]
      /\ todo' = [todo EXCEPT ![c] = todo[c] \ {s}] /\ ops' = [ops EXCEPT ![c] = ops[c] \cup {s}]
  BY DEF Store, Goto
<1>5. JournalMatches' /\ SecretsAgree'
  <2>1. SecretAccountedFor'
    BY <1>2, <1>3, <1>4 DEF SInv, SecretsAgree, SecretAccountedFor, Journaled
  <2> QED BY <1>2, <1>4, <2>1 DEF SInv, JournalMatches, SecretsAgree, BoundSecretPresent
<1>6. \A d \in Saver, k \in Slot : d # c /\ Unused(d, k) => Unused(d, k)'
  BY <1>2, <1>4 DEF Unused
<1>7. Moves(c, "prepare", cmd[c], todo[c] \ {s}, ops[c] \cup {s})
  BY <1>1, <1>2, <1>4 DEF Moves, ProgramOK, Label
<1>8. CommandFits("prepare", cmd[c], todo[c] \ {s}, ops[c] \cup {s})
  BY <1>1, Nulls DEF CommandFits, Before
<1>9. SlotsFitFor(c)'
  <2>1. ASSUME NEW k \in Slot, k # s PROVE Treated(c, k)'
    BY <1>2, <1>3, <1>4, <1>7, <2>1 DEF Treated, Prepared, Journaled, Unused, Moves
  <2>2. Treated(c, s)'
    BY <1>2, <1>3, <1>4, <1>7 DEF Treated, Prepared, Journaled, Moves
  <2> QED BY <1>7, <2>1, <2>2 DEF SlotsFitFor, Moves
<1>10. CommandsFit' /\ SlotsFit'
  BY <1>1, <1>2, <1>6, <1>7, <1>8, <1>9, StepFits
<1>11. StoreOK' /\ ProgramOK' /\ crashes' \in 0 .. MaxCrashes
  BY <1>1, <1>2, <1>4, <1>7, TypeParts DEF SInv, StoreOK, Moves
<1> QED BY <1>2, <1>5, <1>10, <1>11, TypePartsNext DEF SInv

LEMMA StoreFailsInv ==
    ASSUME SInv, NEW c \in Saver, NEW s \in Slot, StoreFails(c, s) PROVE SInv'
<1>1. /\ pc[c] = "store" /\ s \in todo[c] /\ cmd[c] \in Command /\ boot = {}
      /\ ProgramOK /\ StoreOK /\ c \in Cmd /\ CommandFits(pc[c], cmd[c], todo[c], ops[c])
      /\ Works(cmd[c]) /\ \A d \in Saver : d # c => ~Works(cmd[d])
  BY UnderWay, TypeParts, Nulls DEF StoreFails, SInv, CommandsFit, CommandFits
<1>2. RowsOK' /\ ReviewsOK' /\ UNCHANGED <<bound, vault, cmd, todo, ops, boot, crashes>>
  BY RowsStay, ReviewsStay DEF StoreFails, tables
<1>3. Journaled(c, s) /\ journal[s].new = c /\ <<s, c>> \notin vault
  BY StoresOwn DEF StoreFails
<1>4. /\ journal' = journal \/ journal' = [journal EXCEPT ![s] = None]
      /\ pc' = [pc EXCEPT ![c] = "undo"]
  BY DEF StoreFails, Goto
<1>5. /\ journal' \in [Slot -> JournalRow \cup {None}] /\ journal'[s] \in {journal[s], None}
      /\ \A k \in Slot : k # s => journal'[k] = journal[k]
  BY <1>1, <1>4 DEF StoreOK
<1>6. bound[s] = journal[s].old
  BY <1>3 DEF SInv, JournalMatches, Journaled
<1>7. JournalMatches' /\ SecretsAgree'
  <2>1. JournalMatches'
    BY <1>2, <1>5 DEF SInv, JournalMatches
  <2>2. BoundSecretPresent'
    BY <1>2 DEF SInv, SecretsAgree, BoundSecretPresent
  <2>3. SecretAccountedFor'
    BY <1>2, <1>3, <1>5, <1>6 DEF SInv, SecretsAgree, SecretAccountedFor
  <2> QED BY <2>1, <2>2, <2>3 DEF SecretsAgree
<1>8. \A d \in Saver, k \in Slot : d # c /\ Unused(d, k) => Unused(d, k)'
  BY <1>2, <1>5 DEF Unused
<1>9. Moves(c, "undo", cmd[c], todo[c], ops[c])
  BY <1>1, <1>2, <1>4 DEF Moves, ProgramOK, Label
<1>10. CommandFits("undo", cmd[c], todo[c], ops[c])
  BY <1>1, Nulls DEF CommandFits, Before
<1>11. SlotsFitFor(c)'
  BY <1>9 DEF SlotsFitFor, Moves, Before
<1>12. CommandsFit' /\ SlotsFit'
  BY <1>1, <1>2, <1>8, <1>9, <1>10, <1>11, StepFits
<1>13. StoreOK' /\ ProgramOK' /\ crashes' \in 0 .. MaxCrashes
  BY <1>1, <1>2, <1>5, <1>9, TypeParts DEF SInv, StoreOK, Moves
<1> QED BY <1>2, <1>7, <1>12, <1>13, TypePartsNext DEF SInv

LEMMA CommitInv ==
    ASSUME SInv, NEW c \in Saver, Save(c) \/ Create(c) PROVE SInv'
<1>1. /\ pc[c] = "commit" /\ cmd[c] \in Command /\ boot = {} /\ cmd[c].kind \in {"update", "create"}
      /\ ProgramOK /\ StoreOK /\ RowsOK /\ c \in Cmd /\ CommandFits(pc[c], cmd[c], todo[c], ops[c])
      /\ \A d \in Saver : d # c /\ Works(cmd[c]) => ~Works(cmd[d])
      /\ Commit(c)
  BY UnderWay, TypeParts, Nulls DEF Save, Create, SInv, CommandsFit
<1>2. /\ row' = [version |-> c, config |-> cmd[c].config, pin |-> cmd[c].pin]
      /\ approval' = cmd[c].trust /\ pc' = [pc EXCEPT ![c] = "settle"]
      /\ UNCHANGED <<vault, reviews, cmd, todo, ops, boot, crashes>>
  BY <1>1 DEF Commit, Goto
<1>3. RowsOK' /\ ReviewsOK'
  <2>1. cmd[c].pin \in Pin
    BY <1>1 DEF CommandFits, Before
  <2>2. row' \in Instance /\ approval' \in Approval \cup {None}
    BY <1>1, <1>2, <2>1 DEF Instance, Command, Ref
  <2> QED BY <1>2, <2>2, ReviewsStay DEF RowsOK
<1>4. /\ \A s \in Slot : s \in ops[c] =>
            /\ bound'[s] = journal[s].new /\ journal'[s].state = "db_committed"
            /\ journal'[s].id = c /\ journal'[s].old = journal[s].old
            /\ journal'[s].new = journal[s].new
      /\ \A s \in Slot : s \notin ops[c] => bound'[s] = bound[s] /\ journal'[s] = journal[s]
      /\ bound' = [s \in Slot |-> IF s \in ops[c] THEN journal[s].new ELSE bound[s]]
      /\ journal' = Marked(c)
  BY <1>1 DEF Commit, Marked
<1>5. /\ \A s \in Slot : s \in ops[c] =>
            /\ Prepared(c, s) /\ bound[s] = journal[s].old /\ journal[s] \in JournalRow
            /\ (journal[s].old # None => journal[s].old # journal[s].new)
  <2> SUFFICES ASSUME NEW s \in Slot, s \in ops[c]
               PROVE  /\ Prepared(c, s) /\ bound[s] = journal[s].old /\ journal[s] \in JournalRow
                      /\ (journal[s].old # None => journal[s].old # journal[s].new)
    OBVIOUS
  <2>1. Prepared(c, s)
    BY <1>1 DEF SInv, SlotsFit, Treated, Before
  <2> QED BY <1>1, <2>1 DEF Prepared, Journaled, SInv, JournalMatches, StoreOK
<1>6. \A s \in Slot : s \in ops[c] =>
         journal'[s] = [id |-> c, old |-> journal[s].old, new |-> journal[s].new, state |-> "db_committed"]
  BY <1>4 DEF Marked
<1>7. StoreOK'
  <2>1. bound' \in [Slot -> Ref]
    BY <1>1, <1>4, <1>5 DEF StoreOK, JournalRow
  <2>2. ASSUME NEW s \in Slot PROVE journal'[s] \in JournalRow \cup {None}
    <3>1. CASE s \in ops[c]
      <4>1. journal[s].old \in Ref /\ journal[s].new \in Ref
        BY <1>5, <3>1 DEF JournalRow
      <4>2. journal'[s] = [id |-> c, old |-> journal[s].old, new |-> journal[s].new,
                           state |-> "db_committed"]
        BY <1>6, <3>1
      <4>3. journal'[s] \in JournalRow
        BY <1>1, <4>1, <4>2 DEF JournalRow
      <4> QED BY <4>3
    <3>2. CASE s \notin ops[c]
      BY <1>1, <1>4, <3>2 DEF StoreOK
    <3> QED BY <3>1, <3>2
  <2>3. journal' \in [Slot -> JournalRow \cup {None}]
    BY <1>4, <2>2 DEF Marked
  <2> QED BY <1>1, <1>2, <2>1, <2>3 DEF StoreOK
<1>8. \A s \in Slot : s \in ops[c] => journal[s] # None /\ journal'[s] # None
  <2> SUFFICES ASSUME NEW s \in Slot, s \in ops[c] PROVE journal[s] # None /\ journal'[s] # None
    OBVIOUS
  <2>1. journal[s].old \in Ref /\ journal[s].new \in Ref /\ journal[s] # None
    BY <1>5, Nulls DEF JournalRow
  <2>2. journal'[s] = [id |-> c, old |-> journal[s].old, new |-> journal[s].new,
                       state |-> "db_committed"]
    BY <1>6
  <2>3. journal'[s] \in JournalRow
    BY <1>1, <2>1, <2>2 DEF JournalRow
  <2> QED BY <2>1, <2>3, Nulls
<1>9. JournalMatches'
  <2> SUFFICES ASSUME NEW s \in Slot, journal'[s] # None
               PROVE  /\ bound'[s] = IF journal'[s].state = "prepared" THEN journal'[s].old ELSE journal'[s].new
                      /\ journal'[s].old # None => journal'[s].old # journal'[s].new
    BY DEF JournalMatches
  <2>1. CASE s \in ops[c]
    BY <1>4, <1>5, <2>1
  <2>2. CASE s \notin ops[c]
    BY <1>4, <2>2 DEF SInv, JournalMatches
  <2> QED BY <2>1, <2>2
<1>10. BoundSecretPresent'
  <2> SUFFICES ASSUME NEW s \in Slot, bound'[s] # None PROVE <<s, bound'[s]>> \in vault
    BY <1>2 DEF BoundSecretPresent
  <2>1. CASE s \in ops[c]
    BY <1>4, <1>5, <2>1 DEF Prepared, Journaled
  <2>2. CASE s \notin ops[c]
    BY <1>4, <2>2 DEF SInv, SecretsAgree, BoundSecretPresent
  <2> QED BY <2>1, <2>2
<1>11. SecretAccountedFor'
  <2> SUFFICES ASSUME NEW s \in Slot, NEW x \in Cmd, <<s, x>> \in vault
               PROVE  bound'[s] = x \/ (journal'[s] # None /\ x \in {journal'[s].old, journal'[s].new})
    BY <1>2 DEF SecretAccountedFor
  <2>1. bound[s] = x \/ (journal[s] # None /\ x \in {journal[s].old, journal[s].new})
    BY DEF SInv, SecretsAgree, SecretAccountedFor
  <2>2. CASE s \in ops[c]
    BY <1>4, <1>5, <1>8, <2>1, <2>2
  <2>3. CASE s \notin ops[c]
    BY <1>4, <2>1, <2>3
  <2> QED BY <2>2, <2>3
<1>12. \A d \in Saver, s \in Slot : d # c /\ Unused(d, s) => Unused(d, s)'
  <2> SUFFICES ASSUME NEW d \in Saver, NEW s \in Slot, d # c, Unused(d, s) PROVE Unused(d, s)'
    OBVIOUS
  <2>1. CASE s \in ops[c]
    BY <1>2, <1>4, <1>5, <1>8, <2>1, Nulls DEF Unused, Prepared, Journaled
  <2>2. CASE s \notin ops[c]
    BY <1>2, <1>4, <2>2 DEF Unused
  <2> QED BY <2>1, <2>2
<1>13. UNCHANGED <<bound, journal, vault>> \/ Works(cmd[c])
  <2>1. CASE ops[c] = {}
    <3>1. bound' = bound
      BY <1>1, <1>4, <2>1 DEF StoreOK
    <3>2. journal' = journal
      BY <1>1, <1>4, <2>1 DEF StoreOK, Marked
    <3> QED BY <1>2, <3>1, <3>2
  <2>2. CASE ops[c] # {}
    BY <1>1, <2>2 DEF CommandFits
  <2> QED BY <2>1, <2>2
<1>14. Moves(c, "settle", cmd[c], todo[c], ops[c])
  BY <1>1, <1>2 DEF Moves, ProgramOK, Label
<1>15. CommandFits("settle", cmd[c], todo[c], ops[c])
  BY <1>1, Nulls DEF CommandFits, Before
<1>16. SlotsFitFor(c)'
  BY <1>14 DEF SlotsFitFor, Moves, Before
<1>17. CommandsFit' /\ SlotsFit'
  BY <1>1, <1>2, <1>12, <1>13, <1>14, <1>15, <1>16, StepFits
<1>18. ProgramOK' /\ crashes' \in 0 .. MaxCrashes
  BY <1>2, <1>14, TypeParts DEF SInv, Moves
<1> QED BY <1>3, <1>7, <1>9, <1>10, <1>11, <1>17, <1>18, TypePartsNext DEF SInv, SecretsAgree

LEMMA DeleteInv == ASSUME SInv, NEW c \in Saver, Delete(c) PROVE SInv'
<1> DEFINE held == {s \in Slot : bound[s] # None}
<1>1. /\ pc[c] = "commit" /\ cmd[c] \in Command /\ boot = {} /\ cmd[c].kind = "delete"
      /\ ProgramOK /\ StoreOK /\ c \in Cmd /\ CommandFits(pc[c], cmd[c], todo[c], ops[c])
      /\ Works(cmd[c]) /\ \A d \in Saver : d # c => ~Works(cmd[d])
  BY UnderWay, TypeParts, Nulls DEF Delete, SInv, CommandsFit, Works
<1>2. /\ row' = None /\ approval' = None /\ bound' = [s \in Slot |-> None]
      /\ ops' = [ops EXCEPT ![c] = held] /\ pc' = [pc EXCEPT ![c] = "finish"]
      /\ UNCHANGED <<vault, reviews, cmd, todo, boot, crashes>>
      /\ \A s \in held : journal[s] = None
  BY DEF Delete, Goto
<1>3. /\ \A s \in Slot : s \in held => journal'[s] = [id |-> c, old |-> bound[s], new |-> None,
                                                     state |-> "db_committed"]
      /\ \A s \in Slot : s \notin held => journal'[s] = journal[s]
      /\ \A s \in Slot : bound'[s] = None
      /\ held \subseteq Slot /\ \A s \in Slot : s \notin held <=> bound[s] = None
  BY DEF Delete
<1>4. journal' = [s \in Slot |-> journal'[s]]
  BY DEF Delete
<1> HIDE DEF held
<1>5. RowsOK' /\ ReviewsOK'
  BY <1>2, ReviewsStay DEF RowsOK
<1>6. StoreOK'
  <2>1. bound' \in [Slot -> Ref]
    BY <1>2 DEF Ref
  <2>2. ASSUME NEW s \in Slot PROVE journal'[s] \in JournalRow \cup {None}
    <3>1. CASE s \in held
      <4>1. bound[s] \in Ref /\ None \in Ref
        BY <1>1 DEF StoreOK, Ref
      <4>2. journal'[s] = [id |-> c, old |-> bound[s], new |-> None, state |-> "db_committed"]
        BY <1>3, <3>1
      <4>3. journal'[s] \in JournalRow
        BY <1>1, <4>1, <4>2 DEF JournalRow
      <4> QED BY <4>3
    <3>2. CASE s \notin held
      BY <1>1, <1>3, <3>2 DEF StoreOK
    <3> QED BY <3>1, <3>2
  <2>3. journal' \in [Slot -> JournalRow \cup {None}]
    BY <1>4, <2>2
  <2> QED BY <1>1, <1>2, <2>1, <2>3 DEF StoreOK
<1>7. ASSUME NEW s \in held
      PROVE  /\ journal'[s] # None /\ journal'[s].old = bound[s] /\ journal'[s].new = None
             /\ journal'[s].id = c /\ journal'[s].state = "db_committed"
  <2>1. /\ journal'[s] = [id |-> c, old |-> bound[s], new |-> None, state |-> "db_committed"]
        /\ s \in Slot
    BY <1>3
  <2>2. bound[s] \in Ref /\ None \in Ref
    BY <1>1, <2>1 DEF StoreOK, Ref
  <2>3. journal'[s] \in JournalRow
    BY <1>1, <2>1, <2>2 DEF JournalRow
  <2> QED BY <2>1, <2>3, Nulls
<1>8. JournalMatches'
  BY <1>3, <1>7 DEF SInv, JournalMatches
<1>9. BoundSecretPresent' /\ SecretAccountedFor'
  <2>1. BoundSecretPresent'
    BY <1>3 DEF BoundSecretPresent
  <2>2. SecretAccountedFor'
    BY <1>2, <1>3, <1>7, Nulls DEF SInv, SecretsAgree, SecretAccountedFor
  <2> QED BY <2>1, <2>2
<1>10. \A d \in Saver, s \in Slot : d # c /\ Unused(d, s) => Unused(d, s)'
  BY <1>2, <1>3, <1>7, Nulls DEF Unused
<1>11. Moves(c, "finish", cmd[c], todo[c], held)
  BY <1>1, <1>2, <1>3 DEF Moves, ProgramOK, Label
<1>12. CommandFits("finish", cmd[c], todo[c], held)
  BY <1>1, Nulls DEF CommandFits, Before
<1>13. SlotsFitFor(c)'
  BY <1>11 DEF SlotsFitFor, Moves, Before
<1>14. CommandsFit' /\ SlotsFit'
  BY <1>1, <1>2, <1>10, <1>11, <1>12, <1>13, StepFits
<1>15. ProgramOK' /\ crashes' \in 0 .. MaxCrashes
  BY <1>2, <1>11, TypeParts DEF SInv, Moves
<1> QED BY <1>5, <1>6, <1>8, <1>9, <1>14, <1>15, TypePartsNext DEF SInv, SecretsAgree

LEMMA SNext == ASSUME SInv, [Next]_vars PROVE SInv'
<1>1. CASE UNCHANGED vars
  <2>1. RowsOK' /\ ReviewsOK' /\ pc' \in [Cmd -> Label] /\ pc' = pc
    BY <1>1, TypeParts, RowsStay, ReviewsStay DEF vars, tables, SInv, ProgramOK
  <2> QED BY <1>1, <2>1, OthersInv DEF vars, tables
<1>2. ASSUME NEW c \in Saver, Step(c) PROVE SInv'
  BY <1>2, ReadRowInv, RetainInv, ReadBindingsInv, PreflightDoneInv, PrepareDoneInv, PreflightInv,
     InsertInv, StoreInv, StoreFailsInv, FinalizeOpInv, GateInv, GateFailsInv, ConsumeInv, CommitInv,
     DeleteInv, AfterInv DEF Step
<1> QED BY <1>1, <1>2, BeginInv, ExpireInv, ReviewInv, WritersInv, CrashInv, RecoverInv DEF Next

\* What the model says of its variables holds in every reachable state.
THEOREM TypeCorrect == Spec => []TypeOK
<1>1. Init => SInv
  BY SInit
<1>2. SInv /\ [Next]_vars => SInv'
  BY SNext
<1>3. SInv => TypeOK
  BY DEF SInv
<1> QED BY <1>1, <1>2, <1>3, PTL DEF Spec

\* Slots, vault and journal agree between any two steps of any save, deletion, failure, crash
\* and start-up: no slot refers to a secret that is not there, and none is forgotten.
THEOREM SecretsAlwaysAgree == Spec => []SecretsAgree
<1>1. Init => SInv
  BY SInit
<1>2. SInv /\ [Next]_vars => SInv'
  BY SNext
<1>3. SInv => SecretsAgree
  BY DEF SInv
<1> QED BY <1>1, <1>2, <1>3, PTL DEF Spec

-----------------------------------------------------------------------------
(* Reviews and approvals. *)

LEMMA RInit == ASSUME Init PROVE RInv
<1>1. \A c \in Saver : cmd[c] = NoCommand /\ pc[c] = "idle"
  BY Nulls DEF Init
<1>2. VersionsAreNew
  BY <1>1, Nulls DEF Init, VersionsAreNew
<1>3. ReviewsExist /\ Approved(approval) /\ \A c \in Saver : Approved(cmd[c].trust)
  BY <1>1, Nulls DEF Init, ReviewsExist, Approved
<1>4. KeptFits /\ ReservedFits
  BY <1>1, Nulls DEF Init, KeptFits, KeptFor, ReservedFits, Holds, Holding, Kind
<1> QED BY <1>2, <1>3, <1>4 DEF RInv

\* A step that touches neither the instance nor the reviews, and takes no review or lets one go.
LEMMA QuietReviews ==
    ASSUME SInv, RInv, NEW c \in Saver, NEW l, NEW m,
           pc' = [pc EXCEPT ![c] = l], cmd' = [cmd EXCEPT ![c] = m],
           UNCHANGED <<row, approval, reviews>>, l # "idle", l \in Before => pc[c] \in Before,
           m.seen \in {None, cmd[c].seen} \/ (row # None /\ m.seen = row.version),
           Approved(m.trust), KeptFor(m, l),
           \A p \in Reviewer : (m.ack = p /\ l \in Holding) <=> Holds(c, p)
    PROVE  RInv'
<1>1. /\ \A d \in Cmd : pc'[d] = IF d = c THEN l ELSE pc[d]
      /\ \A d \in Saver : cmd'[d] = IF d = c THEN m ELSE cmd[d]
      /\ Saver \subseteq Cmd /\ Reviewer \subseteq Cmd /\ reserved \subseteq Reviewer
      /\ \A p \in Reviewer : p # c
  BY TypeParts, Nulls DEF SInv, ProgramOK, ReviewsOK
<1>2. VersionsAreNew'
  <2> SUFFICES ASSUME NEW d \in Cmd, pc'[d] \in Before
               PROVE  /\ row # None => row.version # d
                      /\ \A e \in Saver : cmd'[e].seen # d
    BY DEF VersionsAreNew
  <2>1. pc[d] \in Before
    BY <1>1
  <2>2. (row # None => row.version # d) /\ \A e \in Saver : cmd[e].seen # d
    BY <2>1 DEF RInv, VersionsAreNew
  <2>3. m.seen # d
    BY <2>2, Nulls
  <2> QED BY <1>1, <2>2, <2>3
<1>3. ReviewsExist'
  BY <1>1 DEF RInv, ReviewsExist, reviews
<1>4. Approved(approval)' /\ \A d \in Saver : Approved(cmd[d].trust)'
  <2>1. Approved(approval)'
    BY DEF RInv, Approved, reviews
  <2>2. ASSUME NEW d \in Saver PROVE Approved(cmd[d].trust)'
    <3>1. CASE d = c
      BY <1>1, <3>1 DEF Approved, reviews
    <3>2. CASE d # c
      BY <1>1, <3>2 DEF RInv, Approved, reviews
    <3> QED BY <3>1, <3>2
  <2> QED BY <2>1, <2>2
<1>5. KeptFits'
  <2> SUFFICES ASSUME NEW d \in Saver PROVE KeptFor(cmd[d], pc[d])'
    BY DEF KeptFits
  <2>1. KeptFor(cmd[d], pc[d])
    BY DEF RInv, KeptFits
  <2>2. CASE d = c
    BY <1>1, <2>2 DEF KeptFor
  <2>3. CASE d # c
    BY <1>1, <2>1, <2>3 DEF KeptFor
  <2> QED BY <2>2, <2>3
<1>6. ReservedFits'
  <2>1. \A d \in Saver, p \in Reviewer : Holds(d, p)' <=> Holds(d, p)
    BY <1>1 DEF Holds
  <2> QED BY <1>1, <2>1 DEF RInv, ReservedFits, reviews
<1> QED BY <1>2, <1>3, <1>4, <1>5, <1>6 DEF RInv

LEMMA EndReviews ==
    ASSUME SInv, RInv, NEW c \in Saver, End(c), UNCHANGED <<row, approval, reviews>>,
           \A p \in Reviewer : ~Holds(c, p)
    PROVE  RInv'
<1>1. pc' = [pc EXCEPT ![c] = "done"] /\ cmd' = [cmd EXCEPT ![c] = NoCommand]
  BY DEF End, Goto
<1>2. KeptFor(NoCommand, "done") /\ Approved(NoCommand.trust) /\ "done" \notin Holding
      /\ "done" \notin Before /\ NoCommand.seen = None
  BY Nulls DEF KeptFor, Approved, Holding, Before, Kind
<1> QED BY <1>1, <1>2, QuietReviews

\* A step that changes no request.
LEMMA GotoReviews ==
    ASSUME SInv, RInv, NEW c \in Saver, NEW l, Goto(c, l), UNCHANGED <<row, approval, reviews, cmd>>,
           l # "idle", l \in Before => pc[c] \in Before,
           KeptFor(cmd[c], l),
           (l \in Holding <=> pc[c] \in Holding) \/ cmd[c].ack = None
    PROVE  RInv'
<1>1. pc' = [pc EXCEPT ![c] = l] /\ cmd' = [cmd EXCEPT ![c] = cmd[c]]
  BY TypeParts DEF Goto, SInv, ProgramOK
<1>2. Approved(cmd[c].trust)
  BY DEF RInv
<1>3. \A p \in Reviewer : (cmd[c].ack = p /\ l \in Holding) <=> Holds(c, p)
  BY Nulls DEF Holds
<1> QED BY <1>1, <1>2, <1>3, QuietReviews

LEMMA BeginReviews ==
    ASSUME SInv, RInv, NEW c \in Saver, NEW kind \in Kind, NEW config \in Config,
           NEW ack \in Reviewer \cup {None}, NEW replace \in SUBSET Slot, NEW clear \in SUBSET (Slot \ replace),
           Begin(c, kind, replace, clear, config, ack)
    PROVE  RInv'
<1> DEFINE m == [kind |-> kind, replace |-> replace, clear |-> clear,
                 config |-> config, ack |-> ack,
                 seen |-> IF kind = "create" THEN None ELSE row.version,
                 pin |-> None, kept |-> FALSE, trust |-> None]
           l == IF kind = "create" THEN "prepare" ELSE "read"
<1>1. /\ pc[c] = "idle" /\ pc' = [pc EXCEPT ![c] = l] /\ cmd' = [cmd EXCEPT ![c] = m]
      /\ UNCHANGED <<row, approval, reviews>>
      /\ kind = "delete" => ack = None
      /\ kind # "create" => row # None
  BY DEF Begin, Goto, tables
<1>2. KeptFor(m, l) /\ Approved(m.trust)
  BY <1>1 DEF KeptFor, Approved
<1>3. m.seen \in {None, cmd[c].seen} \/ (row # None /\ m.seen = row.version)
  BY <1>1
<1>4. \A p \in Reviewer : l \notin Holding /\ ~Holds(c, p)
  BY <1>1 DEF Holds, Holding
<1>5. l # "idle" /\ pc[c] \in Before
  BY <1>1 DEF Before
<1> HIDE DEF m, l
<1> QED BY <1>1, <1>2, <1>3, <1>4, <1>5, QuietReviews

LEMMA ReadRowReviews == ASSUME SInv, RInv, NEW c \in Saver, ReadRow(c) PROVE RInv'
<1>1. /\ pc[c] = "read" /\ cmd[c].kind = "update" /\ cmd[c] \in Command /\ ProgramOK
      /\ UNCHANGED <<row, approval, reviews>> /\ \A p \in Reviewer : ~Holds(c, p)
  BY UnderWay, TypeParts DEF ReadRow, SInv, tables, Holds, Holding
<1>2. CASE row # None /\ row.version = cmd[c].seen
  <2> DEFINE kept == cmd[c].ack = None /\ row.config = cmd[c].config
             m == [cmd[c] EXCEPT !.pin = row.pin, !.kept = kept]
             l == IF kept THEN "retain" ELSE "preflight"
  <2>1. cmd' = [cmd EXCEPT ![c] = m] /\ pc' = [pc EXCEPT ![c] = l]
    BY <1>1, <1>2 DEF ReadRow, Goto, ProgramOK
  <2>2. m.seen = cmd[c].seen /\ m.trust = cmd[c].trust /\ m.kind = "update" /\ m.ack = cmd[c].ack
        /\ m.config = cmd[c].config /\ m.kept = kept
    BY <1>1 DEF Command
  <2>3. l \in {"retain", "preflight"}
    OBVIOUS
  <2>4. kept => cmd[c].ack = None /\ row.config = cmd[c].config
    OBVIOUS
  <2> HIDE DEF m, l, kept
  <2>5. KeptFor(m, l) /\ Approved(m.trust)
    BY <2>2, <2>3, <2>4 DEF KeptFor, RInv
  <2> QED BY <1>1, <2>1, <2>2, <2>3, <2>5, QuietReviews DEF Holding, Before
<1>3. CASE ~(row # None /\ row.version = cmd[c].seen)
  BY <1>1, <1>3, EndReviews DEF ReadRow
<1> QED BY <1>2, <1>3

LEMMA RetainReviews == ASSUME SInv, RInv, NEW c \in Saver, Retain(c) PROVE RInv'
<1>1. /\ pc[c] = "retain" /\ cmd[c] \in Command /\ ProgramOK
      /\ UNCHANGED <<row, approval, reviews>> /\ \A p \in Reviewer : ~Holds(c, p)
      /\ pc' = [pc EXCEPT ![c] = "preflight"]
  BY UnderWay, TypeParts DEF Retain, SInv, tables, Holds, Holding, Goto
<1>2. PICK trust \in {approval, None} : cmd' = [cmd EXCEPT ![c].trust = trust]
  BY DEF Retain
<1> DEFINE m == [cmd[c] EXCEPT !.trust = trust]
<1>3. cmd' = [cmd EXCEPT ![c] = m]
  BY <1>1, <1>2 DEF ProgramOK
<1>4. /\ m.seen = cmd[c].seen /\ m.trust = trust /\ m.kind = cmd[c].kind /\ m.ack = cmd[c].ack
      /\ m.config = cmd[c].config /\ m.kept = cmd[c].kept
  BY <1>1 DEF Command
<1> HIDE DEF m
<1>5. KeptFor(m, "preflight")
  BY <1>1, <1>4 DEF RInv, KeptFits, KeptFor
<1>6. Approved(m.trust)
  BY <1>2, <1>4 DEF RInv, Approved
<1>7. pc[c] \in Before /\ "preflight" \notin Holding /\ m.seen \in {None, cmd[c].seen}
  BY <1>1, <1>4 DEF Holding, Before
<1> QED BY <1>1, <1>3, <1>5, <1>6, <1>7, QuietReviews

LEMMA GateReviews ==
    ASSUME SInv, RInv, NEW c \in Saver, NEW pin \in Pin, Gate(c, pin) PROVE RInv'
<1>1. /\ pc[c] = "gate" /\ cmd[c] \in Command /\ ProgramOK
      /\ UNCHANGED <<row, approval, reviews>> /\ \A p \in Reviewer : ~Holds(c, p)
      /\ pc' = [pc EXCEPT ![c] = "consume"]
  BY UnderWay, TypeParts DEF Gate, SInv, tables, Holds, Holding, Goto
<1> DEFINE m == [cmd[c] EXCEPT !.pin = pin]
<1>2. cmd' = [cmd EXCEPT ![c] = m]
  BY <1>1 DEF Gate, ProgramOK
<1>3. /\ m.seen = cmd[c].seen /\ m.trust = cmd[c].trust /\ m.kind = cmd[c].kind /\ m.ack = cmd[c].ack
      /\ m.config = cmd[c].config /\ m.kept = cmd[c].kept
  BY <1>1 DEF Command
<1> HIDE DEF m
<1>4. KeptFor(m, "consume") /\ Approved(m.trust)
  BY <1>1, <1>3 DEF RInv, KeptFits, KeptFor
<1>5. pc[c] \in Before /\ "consume" \notin Holding /\ m.seen \in {None, cmd[c].seen}
  BY <1>1, <1>3 DEF Holding, Before
<1> QED BY <1>1, <1>2, <1>4, <1>5, QuietReviews

\* The steps of a save that treat its slots, or only lead from one part of it to the next.
LEMMA SlotReviews ==
    ASSUME SInv, RInv, NEW c \in Saver,
           \/ ReadBindings(c) \/ PreflightDone(c) \/ PrepareDone(c) \/ GateFails(c) \/ CommitFails(c)
           \/ \E s \in Slot : \/ Preflight(c, s) \/ Insert(c, s) \/ Store(c, s) \/ StoreFails(c, s)
                             \/ FinalizeOp(c, s)
           \/ Answer(c)
    PROVE  RInv'
<1>1. /\ UNCHANGED <<row, approval, reviews>> /\ pc[c] \in Label \ {"idle", "done"} /\ ProgramOK
      /\ KeptFor(cmd[c], pc[c])
      /\ CommandFits(pc[c], cmd[c], todo[c], ops[c])
  <2>1. ProgramOK /\ pc[c] \in Label /\ CommandFits(pc[c], cmd[c], todo[c], ops[c])
    BY TypeParts, Nulls DEF SInv, ProgramOK, CommandsFit
  <2> QED BY <2>1 DEF RInv, KeptFits, ReadBindings, PreflightDone, PrepareDone, GateFails, CommitFails,
                      Preflight, Insert, Store, StoreFails, FinalizeOp, Answer, tables
<1>2. CASE ~End(c)
  <2>1. PICK l : /\ Goto(c, l) /\ UNCHANGED cmd
                 /\ l \in Label \ {"idle", "done"} /\ (l \in Before => pc[c] \in Before)
                 /\ \/ l \notin Holding /\ pc[c] \notin Holding
                    \/ l \in Holding /\ pc[c] \in Holding /\ l # "commit"
                    \/ l = "commit" /\ (cmd[c].kind = "delete" \/ cmd[c].kept)
    <3>1. CASE ReadBindings(c) \/ PreflightDone(c) \/ PrepareDone(c)
      BY <3>1, <1>2 DEF ReadBindings, PreflightDone, PrepareDone, Holding, Before, Label
    <3>2. CASE CommitFails(c) \/ Answer(c)
      BY <3>2, <1>2 DEF CommitFails, Answer, Holding, Before, Label
    <3>3. CASE \E s \in Slot : Preflight(c, s) \/ FinalizeOp(c, s)
      <4>1. /\ pc' = pc /\ UNCHANGED cmd
            /\ pc[c] \in {"preflight", "finish", "undo"} \/ pc[c] = "abort"
        BY <3>3, <1>2 DEF Preflight, FinalizeOp
      <4>2. Goto(c, pc[c])
        BY <4>1, <1>1 DEF Goto, ProgramOK
      <4> QED BY <4>1, <4>2, <1>1 DEF Holding, Before, Label
    <3>4. CASE \E s \in Slot : Insert(c, s) \/ Store(c, s) \/ StoreFails(c, s)
      <4>1. pc[c] \in {"prepare", "store"} /\ UNCHANGED cmd
        BY <3>4 DEF Insert, Store, StoreFails
      <4>2. PICK l \in {"prepare", "store", "undo"} : Goto(c, l)
        <5>1. CASE pc' = pc
          BY <5>1, <4>1, <1>1 DEF Goto, ProgramOK
        <5> QED BY <3>4, <5>1 DEF Insert, Store, StoreFails
      <4> QED BY <4>1, <4>2 DEF Holding, Before, Label
    <3> QED BY <1>2, <3>1, <3>2, <3>3, <3>4 DEF GateFails
  <2>2. KeptFor(cmd[c], l)
    BY <1>1, <2>1 DEF KeptFor, Holding
  <2>3. (l \in Holding <=> pc[c] \in Holding) \/ cmd[c].ack = None
    <3>1. CASE cmd[c].kind = "delete" \/ cmd[c].kept
      BY <1>1, <3>1, Zenon DEF KeptFor
    <3>2. CASE ~(cmd[c].kind = "delete" \/ cmd[c].kept)
      BY <2>1, <3>2
    <3> QED BY <3>1, <3>2
  <2> QED BY <1>1, <2>1, <2>2, <2>3, GotoReviews
<1>3. CASE End(c)
  <2>1. \A p \in Reviewer : ~Holds(c, p)
    <3>1. pc'[c] = "done" /\ ProgramOK
      BY <1>1, <1>3, Nulls DEF End, Goto, ProgramOK
    <3>2. pc[c] \in Holding => cmd[c].kind = "delete"
      BY <1>1, <3>1, Nulls DEF ReadBindings, PreflightDone, PrepareDone, GateFails, CommitFails,
              Preflight, Insert, Store, StoreFails, FinalizeOp, Answer, Holding, Goto, ProgramOK
    <3> QED BY <1>1, <3>2, Nulls DEF Holds, KeptFor
  <2> QED BY <1>1, <1>3, <2>1, EndReviews
<1> QED BY <1>2, <1>3

LEMMA ConsumeReviews == ASSUME SInv, RInv, NEW c \in Saver, Consume(c) PROVE RInv'
<1>0. PICK a : a = cmd[c].ack
  OBVIOUS
<1>1. /\ pc[c] = "consume" /\ cmd[c] \in Command /\ ProgramOK /\ ReviewsOK /\ c \in Cmd
      /\ cmd[c].kind # "delete" /\ KeptFor(cmd[c], pc[c])
      /\ UNCHANGED <<row, approval, review, open>>
  BY UnderWay, TypeParts, Nulls DEF Consume, SInv, CommandsFit, CommandFits, RInv, KeptFits, tables
<1>2. CASE UNCHANGED <<reserved, cmd>>
  <2>1. PICK l \in {"commit", "undo"} :
           Goto(c, l) /\ (l = "commit" => cmd[c].config = Official /\ a = None)
    BY <1>0, <1>2 DEF Consume
  <2>2. KeptFor(cmd[c], l)
    BY <1>0, <1>1, <2>1 DEF KeptFor
  <2>3. (l \in Holding <=> pc[c] \in Holding) \/ cmd[c].ack = None
    BY <1>0, <1>1, <2>1 DEF Holding
  <2>4. l # "idle" /\ pc[c] \in Before
    BY <1>1, <2>1 DEF Before
  <2> QED BY <1>1, <1>2, <2>1, <2>2, <2>3, <2>4, GotoReviews DEF reviews
<1>3. CASE ~UNCHANGED <<reserved, cmd>>
  <2> DEFINE trust == [config |-> cmd[c].config, pin |-> cmd[c].pin, review |-> a]
             m == [cmd[c] EXCEPT !.trust = trust]
  <2>1. /\ cmd[c].config # Official /\ a \in open /\ a \notin reserved /\ Reviewed(c)
        /\ reserved' = reserved \cup {a}
        /\ cmd' = [cmd EXCEPT ![c].trust = trust] /\ pc' = [pc EXCEPT ![c] = "commit"]
    BY <1>0, <1>3 DEF Consume, Goto
  <2>2. cmd' = [cmd EXCEPT ![c] = m]
    BY <1>1, <2>1 DEF ProgramOK
  <2>3. /\ m.seen = cmd[c].seen /\ m.trust = trust /\ m.kind = cmd[c].kind /\ m.ack = a
        /\ m.config = cmd[c].config /\ m.kept = cmd[c].kept /\ m.pin = cmd[c].pin
    BY <1>0, <1>1 DEF Command
  <2>4. a \in Reviewer /\ a # None /\ review[a] # None
    BY <1>1, <2>1, Nulls DEF ReviewsOK, RInv, ReviewsExist
  <2>5. trust # None /\ trust.config = cmd[c].config /\ trust.pin = cmd[c].pin /\ trust.review = a
    <3>1. cmd[c].pin \in Pin
      BY <1>1 DEF SInv, CommandsFit, CommandFits, Command, Kind, Before
    <3>2. cmd[c].config \in Custom
      BY <1>1, <2>1 DEF Command, Config
    <3> QED BY <2>4, <3>1, <3>2, Nulls DEF Approval
  <2>6. Approved(trust)
    BY <1>0, <2>1, <2>4, <2>5 DEF Approved, Reviewed
  <2> HIDE DEF trust, m
  <2>7. /\ \A d \in Cmd : pc'[d] = IF d = c THEN "commit" ELSE pc[d]
        /\ \A d \in Saver : cmd'[d] = IF d = c THEN m ELSE cmd[d]
        /\ Saver \subseteq Cmd /\ Reviewer \subseteq Cmd /\ reserved \subseteq Reviewer
        /\ \A p \in Reviewer : p # c
    BY <1>1, <2>1, <2>2, Nulls DEF ProgramOK, ReviewsOK
  <2>8. VersionsAreNew'
    BY <1>1, <2>3, <2>7 DEF RInv, VersionsAreNew, Before
  <2>9. ReviewsExist'
    BY <1>1, <2>7 DEF RInv, ReviewsExist
  <2>10. Approved(approval)' /\ \A d \in Saver : Approved(cmd[d].trust)'
    <3>1. Approved(approval)'
      BY <1>1 DEF RInv, Approved
    <3>2. ASSUME NEW d \in Saver PROVE Approved(cmd[d].trust)'
      <4>1. CASE d = c
        BY <1>1, <2>3, <2>6, <2>7, <4>1 DEF Approved
      <4>2. CASE d # c
        BY <1>1, <2>7, <4>2 DEF RInv, Approved
      <4> QED BY <4>1, <4>2
    <3> QED BY <3>1, <3>2
  <2>11. KeptFits'
    <3> SUFFICES ASSUME NEW d \in Saver PROVE KeptFor(cmd[d], pc[d])'
      BY DEF KeptFits
    <3>1. CASE d = c
      <4>1. ~cmd[c].kept
        BY <1>0, <1>1, <2>4, Zenon DEF KeptFor
      <4> QED BY <1>1, <2>3, <2>5, <2>7, <3>1, <4>1 DEF KeptFor, Fits
    <3>2. CASE d # c
      <4>1. KeptFor(cmd[d], pc[d])
        BY DEF RInv, KeptFits
      <4> QED BY <1>1, <2>7, <3>2, <4>1 DEF KeptFor
    <3> QED BY <3>1, <3>2
  <2>12. ReservedFits'
    <3>1. \A d \in Saver, p \in Reviewer : d # c => (Holds(d, p)' <=> Holds(d, p))
      BY <2>7 DEF Holds
    <3>2. /\ Holds(c, a)' /\ \A p \in Reviewer : Holds(c, p)' => p = a
          /\ \A p \in Reviewer : ~Holds(c, p)
      BY <1>1, <2>3, <2>7 DEF Holds, Holding
    <3>3. \A d \in Saver : ~Holds(d, a)
      BY <2>1, <2>4 DEF RInv, ReservedFits
    <3>4. \A p \in reserved' : \E d \in Saver : Holds(d, p)'
      <4> SUFFICES ASSUME NEW p \in reserved' PROVE \E d \in Saver : Holds(d, p)'
        OBVIOUS
      <4>1. CASE p = a
        BY <3>2, <4>1
      <4>2. CASE p # a
        <5>1. p \in reserved /\ p \in Reviewer
          BY <2>1, <2>7, <4>2
        <5>2. PICK d \in Saver : Holds(d, p)
          BY <5>1 DEF RInv, ReservedFits
        <5> QED BY <3>1, <3>2, <5>1, <5>2
      <4> QED BY <4>1, <4>2
    <3>5. ASSUME NEW p \in Reviewer, NEW d \in Saver, Holds(d, p)'
          PROVE  /\ review'[p] # None
                 /\ p \in open' => p \in reserved'
                 /\ \A e \in Saver : Holds(e, p)' => d = e
      <4>1. CASE d = c
        BY <1>1, <2>1, <2>4, <3>1, <3>2, <3>3, <3>5, <4>1
      <4>2. CASE d # c
        <5>1. Holds(d, p) /\ p # a
          BY <3>1, <3>3, <3>5, <4>2
        <5> QED BY <1>1, <2>1, <3>1, <3>2, <4>2, <5>1 DEF RInv, ReservedFits
      <4> QED BY <4>1, <4>2
    <3> QED BY <3>4, <3>5 DEF ReservedFits
  <2> QED BY <2>8, <2>9, <2>10, <2>11, <2>12 DEF RInv
<1> QED BY <1>2, <1>3

LEMMA CommitReviews == ASSUME SInv, RInv, NEW c \in Saver, Save(c) \/ Create(c) PROVE RInv'
<1>1. /\ pc[c] = "commit" /\ ProgramOK /\ c \in Cmd
      /\ row'.version = c /\ row'.config = cmd[c].config /\ approval' = cmd[c].trust
      /\ pc' = [pc EXCEPT ![c] = "settle"] /\ UNCHANGED <<cmd, review, open, reserved>>
  BY TypeParts, Nulls DEF Save, Create, Commit, Goto, reviews, SInv
<1>2. /\ \A d \in Cmd : pc'[d] = IF d = c THEN "settle" ELSE pc[d]
      /\ Saver \subseteq Cmd /\ Reviewer \subseteq Cmd /\ \A p \in Reviewer : p # c
  BY <1>1, Nulls DEF ProgramOK
<1>3. \A d \in Saver : cmd[d].seen # c
  BY <1>1 DEF RInv, VersionsAreNew, Before
<1>4. VersionsAreNew'
  BY <1>1, <1>2 DEF RInv, VersionsAreNew, Before
<1>5. ReviewsExist'
  BY <1>1, <1>2 DEF RInv, ReviewsExist
<1>6. Approved(approval)' /\ \A d \in Saver : Approved(cmd[d].trust)'
  BY <1>1 DEF RInv, Approved
<1>7. KeptFits'
  <2> SUFFICES ASSUME NEW d \in Saver PROVE KeptFor(cmd[d], pc[d])'
    BY DEF KeptFits
  <2>1. KeptFor(cmd[d], pc[d])
    BY DEF RInv, KeptFits
  <2> QED BY <1>1, <1>2, <1>3, <2>1 DEF KeptFor
<1>8. ReservedFits'
  <2>1. \A d \in Saver, p \in Reviewer : Holds(d, p)' <=> Holds(d, p)
    BY <1>1, <1>2 DEF Holds, Holding
  <2>2. reserved \subseteq Reviewer
    BY TypeParts DEF SInv, ReviewsOK
  <2> QED BY <1>1, <2>1, <2>2 DEF RInv, ReservedFits
<1> QED BY <1>4, <1>5, <1>6, <1>7, <1>8 DEF RInv

LEMMA DeleteReviews == ASSUME SInv, RInv, NEW c \in Saver, Delete(c) PROVE RInv'
<1>1. /\ pc[c] = "commit" /\ cmd[c].kind = "delete" /\ ProgramOK /\ c \in Cmd
      /\ row' = None /\ approval' = None
      /\ pc' = [pc EXCEPT ![c] = "finish"] /\ UNCHANGED <<cmd, review, open, reserved>>
  BY TypeParts, Nulls DEF Delete, Goto, reviews, SInv
<1>2. /\ \A d \in Cmd : pc'[d] = IF d = c THEN "finish" ELSE pc[d]
      /\ Saver \subseteq Cmd /\ Reviewer \subseteq Cmd /\ \A p \in Reviewer : p # c
  BY <1>1, Nulls DEF ProgramOK
<1>3. VersionsAreNew'
  BY <1>1, <1>2 DEF RInv, VersionsAreNew, Before
<1>4. ReviewsExist'
  BY <1>1, <1>2 DEF RInv, ReviewsExist
<1>5. Approved(approval)' /\ \A d \in Saver : Approved(cmd[d].trust)'
  BY <1>1 DEF RInv, Approved
<1>6. KeptFits'
  <2> SUFFICES ASSUME NEW d \in Saver PROVE KeptFor(cmd[d], pc[d])'
    BY DEF KeptFits
  <2>1. KeptFor(cmd[d], pc[d])
    BY DEF RInv, KeptFits
  <2> QED BY <1>1, <1>2, <2>1 DEF KeptFor
<1>7. ReservedFits'
  <2>1. cmd[c].ack = None
    BY <1>1 DEF RInv, KeptFits, KeptFor
  <2>2. \A d \in Saver, p \in Reviewer : Holds(d, p)' <=> Holds(d, p)
    BY <1>1, <1>2, <2>1, Nulls DEF Holds
  <2>3. reserved \subseteq Reviewer
    BY TypeParts DEF SInv, ReviewsOK
  <2> QED BY <1>1, <2>2, <2>3 DEF RInv, ReservedFits
<1> QED BY <1>3, <1>4, <1>5, <1>6, <1>7 DEF RInv

\* A save lets go of the review it holds: it is consumed, or open again.
LEMMA LetGoReviews ==
    ASSUME SInv, RInv, NEW c \in Saver, Settle(c) \/ Release(c) PROVE RInv'
<1>0. PICK a : a = cmd[c].ack
  OBVIOUS
<1>1. PICK l, m :
      /\ pc' = [pc EXCEPT ![c] = l] /\ cmd' = [cmd EXCEPT ![c] = m]
      /\ l \in {"finish", "undo", "done"} /\ m \in {cmd[c], NoCommand}
  <2>1. CASE UNCHANGED cmd
    <3>1. cmd' = [cmd EXCEPT ![c] = cmd[c]]
      BY <2>1, TypeParts DEF SInv, ProgramOK
    <3>2. PICK l \in {"finish", "undo", "done"} : pc' = [pc EXCEPT ![c] = l]
      BY DEF Settle, Release, Released, End, Goto
    <3> QED BY <3>1, <3>2
  <2>2. CASE ~UNCHANGED cmd
    BY <2>2 DEF Settle, Release, Released, End, Goto
  <2> QED BY <2>1, <2>2
<1>2. /\ pc[c] \in Holding /\ ProgramOK /\ ReviewsOK /\ c \in Cmd
      /\ UNCHANGED <<row, approval, review>>
      /\ reserved' = reserved \ {a} /\ open' \in {open, open \ {a}}
  BY <1>0, TypeParts, Nulls DEF Settle, Release, SInv, tables, Holding
<1>3. /\ \A d \in Cmd : pc'[d] = IF d = c THEN l ELSE pc[d]
      /\ \A d \in Saver : cmd'[d] = IF d = c THEN m ELSE cmd[d]
      /\ Saver \subseteq Cmd /\ Reviewer \subseteq Cmd /\ \A p \in Reviewer : p # c
  BY <1>1, <1>2, Nulls DEF ProgramOK
<1>4. m.seen \in {cmd[c].seen, None} /\ m.trust \in {cmd[c].trust, None}
      /\ l \notin Before /\ l # "idle" /\ l \notin Holding
  BY <1>1, Nulls DEF Before, Holding
<1>5. VersionsAreNew'
  BY <1>2, <1>3, <1>4, Nulls DEF RInv, VersionsAreNew
<1>6. ReviewsExist'
  BY <1>2, <1>3, <1>4 DEF RInv, ReviewsExist
<1>7. Approved(approval)' /\ \A d \in Saver : Approved(cmd[d].trust)'
  <2>1. Approved(approval)'
    BY <1>2 DEF RInv, Approved
  <2>2. ASSUME NEW d \in Saver PROVE Approved(cmd[d].trust)'
    <3>1. Approved(cmd[d].trust)
      BY DEF RInv
    <3> QED BY <1>2, <1>3, <1>4, <3>1 DEF Approved
  <2> QED BY <2>1, <2>2
<1>8. KeptFits'
  <2> SUFFICES ASSUME NEW d \in Saver PROVE KeptFor(cmd[d], pc[d])'
    BY DEF KeptFits
  <2>1. KeptFor(cmd[d], pc[d])
    BY DEF RInv, KeptFits
  <2>2. CASE d # c
    BY <1>2, <1>3, <2>1, <2>2 DEF KeptFor
  <2>3. CASE d = c /\ m = cmd[c]
    BY <1>1, <1>2, <1>3, <2>1, <2>3 DEF KeptFor
  <2>4. CASE d = c /\ m = NoCommand
    BY <1>1, <1>3, <2>4, Nulls DEF KeptFor, Kind
  <2> QED BY <1>1, <2>2, <2>3, <2>4
<1>9. ReservedFits'
  <2>1. \A d \in Saver, p \in Reviewer : Holds(d, p)' <=> d # c /\ Holds(d, p)
    BY <1>3, <1>4 DEF Holds
  <2>2. \A p \in Reviewer : Holds(c, p) <=> p = a
    BY <1>0, <1>2 DEF Holds
  <2>3. ASSUME NEW p \in reserved' PROVE \E d \in Saver : Holds(d, p)'
    <3>1. p \in reserved /\ p \in Reviewer /\ p # a
      BY <1>2 DEF ReviewsOK
    <3>2. PICK d \in Saver : Holds(d, p)
      BY <3>1 DEF RInv, ReservedFits
    <3> QED BY <2>1, <2>2, <3>1, <3>2
  <2>4. ASSUME NEW p \in Reviewer, NEW d \in Saver, Holds(d, p)'
        PROVE  /\ review'[p] # None
               /\ p \in open' => p \in reserved'
               /\ \A e \in Saver : Holds(e, p)' => d = e
    <3>1. d # c /\ Holds(d, p) /\ p # a
      BY <2>1, <2>2, <2>4 DEF RInv, ReservedFits
    <3> QED BY <1>2, <2>1, <3>1 DEF RInv, ReservedFits
  <2> QED BY <2>3, <2>4 DEF ReservedFits
<1> QED BY <1>5, <1>6, <1>7, <1>8, <1>9 DEF RInv

LEMMA ReviewReviews ==
    ASSUME SInv, RInv, NEW p \in Reviewer, NEW config \in Custom, NEW pin \in Pin, Review(p, config, pin)
    PROVE  RInv'
<1>1. /\ pc[p] = "idle" /\ pc' = [pc EXCEPT ![p] = "done"] /\ open' = open \cup {p}
      /\ UNCHANGED <<row, approval, reserved, cmd>>
      /\ ProgramOK /\ ReviewsOK /\ RowsOK /\ p \in Cmd
  BY TypeParts, Nulls DEF Review, Goto, tables, SInv
<1>2. review[p] = None
  BY <1>1 DEF RInv, ReviewsExist
<1>3. /\ \A d \in Cmd : pc'[d] = IF d = p THEN "done" ELSE pc[d]
      /\ Saver \subseteq Cmd /\ Reviewer \subseteq Cmd /\ \A d \in Saver : p # d
  BY <1>1, Nulls DEF ProgramOK
<1>4. /\ \A q \in Reviewer : q # p => review'[q] = review[q]
      /\ review'[p] # None
  <2>1. \A q \in Reviewer : q # p => review'[q] = review[q]
    BY <1>1 DEF Review, ReviewsOK
  <2>2. review'[p] \in Shown
    <3>1. (IF row = None THEN None ELSE row.version) \in Ref
      BY <1>1 DEF RowsOK, Instance, Ref
    <3>2. (row = None) \in BOOLEAN
      OBVIOUS
    <3> QED BY <1>1, <3>1, <3>2 DEF Review, ReviewsOK, Shown
  <2> QED BY <2>1, <2>2, Nulls
<1>5. VersionsAreNew'
  BY <1>1, <1>3 DEF RInv, VersionsAreNew, Before
<1>6. ReviewsExist'
  BY <1>1, <1>3, <1>4 DEF RInv, ReviewsExist, ReviewsOK
<1>7. Approved(approval)' /\ \A d \in Saver : Approved(cmd[d].trust)'
  <2>1. approval # None => approval.review \in Reviewer
    BY <1>1 DEF RowsOK, Approval
  <2>2. \A d \in Saver : cmd[d].trust # None => cmd[d].trust.review \in Reviewer
    <3> SUFFICES ASSUME NEW d \in Saver, cmd[d].trust # None PROVE cmd[d].trust.review \in Reviewer
      OBVIOUS
    <3>1. cmd[d] \in Command
      BY <1>1, Nulls DEF ProgramOK
    <3>2. cmd[d].trust \in Approval
      BY <3>1 DEF Command
    <3> QED BY <3>2 DEF Approval
  <2> QED BY <1>1, <1>2, <1>4, <2>1, <2>2 DEF RInv, Approved
<1>8. KeptFits'
  <2> SUFFICES ASSUME NEW d \in Saver PROVE KeptFor(cmd[d], pc[d])'
    BY DEF KeptFits
  <2>1. KeptFor(cmd[d], pc[d])
    BY DEF RInv, KeptFits
  <2> QED BY <1>1, <1>3, <2>1 DEF KeptFor
<1>9. ReservedFits'
  <2>1. \A d \in Saver, q \in Reviewer : Holds(d, q)' <=> Holds(d, q)
    BY <1>1, <1>3 DEF Holds
  <2>2. \A d \in Saver : ~Holds(d, p)
    BY <1>2 DEF RInv, ReservedFits
  <2>3. reserved \subseteq Reviewer
    BY <1>1 DEF ReviewsOK
  <2> QED BY <1>1, <1>4, <2>1, <2>2, <2>3 DEF RInv, ReservedFits
<1> QED BY <1>5, <1>6, <1>7, <1>8, <1>9 DEF RInv

LEMMA ExpireReviews == ASSUME SInv, RInv, NEW p \in Reviewer, Expire(p) PROVE RInv'
<1>1. /\ open' = open \ {p} /\ reserved' = reserved \ {p}
      /\ UNCHANGED <<row, approval, review, cmd, pc>> /\ ReviewsOK
  BY TypeParts DEF Expire, tables, SInv
<1>2. VersionsAreNew' /\ ReviewsExist' /\ Approved(approval)' /\ \A d \in Saver : Approved(cmd[d].trust)'
  BY <1>1 DEF RInv, VersionsAreNew, ReviewsExist, Approved
<1>3. KeptFits'
  <2> SUFFICES ASSUME NEW d \in Saver PROVE KeptFor(cmd[d], pc[d])'
    BY DEF KeptFits
  <2>1. KeptFor(cmd[d], pc[d])
    BY DEF RInv, KeptFits
  <2> QED BY <1>1, <2>1 DEF KeptFor
<1>4. ReservedFits'
  <2>1. \A d \in Saver, q \in Reviewer : Holds(d, q)' <=> Holds(d, q)
    BY <1>1 DEF Holds
  <2> QED BY <1>1, <2>1 DEF RInv, ReservedFits, ReviewsOK
<1> QED BY <1>2, <1>3, <1>4 DEF RInv

LEMMA WritersReviews ==
    ASSUME SInv, RInv, NEW w \in Writer,
           \E config \in Config :
              \/ Import(w, config)
              \/ \E pin \in Pin : Upgrade(w, config, pin) \/ Rollback(w, config, pin)
    PROVE  RInv'
<1>1. /\ pc[w] = "idle" /\ row'.version = w /\ approval' \in {approval, None}
      /\ pc' = [pc EXCEPT ![w] = "done"] /\ UNCHANGED <<cmd, review, open, reserved>>
      /\ ProgramOK /\ w \in Cmd
  BY TypeParts, Nulls DEF Import, Upgrade, Rollback, Goto, reviews, SInv
<1>2. /\ \A d \in Cmd : pc'[d] = IF d = w THEN "done" ELSE pc[d]
      /\ Saver \subseteq Cmd /\ Reviewer \subseteq Cmd
      /\ \A d \in Saver : d # w
  BY <1>1, Nulls DEF ProgramOK
<1>3. \A d \in Saver : cmd[d].seen # w
  BY <1>1 DEF RInv, VersionsAreNew, Before
<1>4. VersionsAreNew'
  BY <1>1, <1>2 DEF RInv, VersionsAreNew, Before
<1>5. ReviewsExist'
  BY <1>1, <1>2 DEF RInv, ReviewsExist
<1>6. Approved(approval)' /\ \A d \in Saver : Approved(cmd[d].trust)'
  BY <1>1 DEF RInv, Approved
<1>7. KeptFits'
  <2> SUFFICES ASSUME NEW d \in Saver PROVE KeptFor(cmd[d], pc[d])'
    BY DEF KeptFits
  <2>1. KeptFor(cmd[d], pc[d])
    BY DEF RInv, KeptFits
  <2> QED BY <1>1, <1>2, <1>3, <2>1 DEF KeptFor
<1>8. ReservedFits'
  <2>1. \A d \in Saver, p \in Reviewer : Holds(d, p)' <=> Holds(d, p)
    BY <1>1, <1>2 DEF Holds
  <2>2. reserved \subseteq Reviewer
    BY TypeParts DEF SInv, ReviewsOK
  <2> QED BY <1>1, <2>1, <2>2 DEF RInv, ReservedFits
<1> QED BY <1>4, <1>5, <1>6, <1>7, <1>8 DEF RInv

LEMMA CrashReviews == ASSUME SInv, RInv, Crash PROVE RInv'
<1>1. /\ \A d \in Cmd : pc'[d] = IF pc[d] = "idle" THEN "idle" ELSE "done"
      /\ \A d \in Saver : cmd'[d] = NoCommand
      /\ open' = {} /\ reserved' = {} /\ UNCHANGED <<row, approval, review>>
  BY DEF Crash, tables
<1>2. VersionsAreNew'
  BY <1>1, Nulls DEF RInv, VersionsAreNew, Before
<1>3. ReviewsExist'
  BY <1>1, Nulls DEF RInv, ReviewsExist
<1>4. Approved(approval)' /\ \A d \in Saver : Approved(cmd[d].trust)'
  BY <1>1, Nulls DEF RInv, Approved
<1>5. KeptFits' /\ ReservedFits'
  BY <1>1, Nulls DEF KeptFits, KeptFor, ReservedFits, Holds, Kind
<1> QED BY <1>2, <1>3, <1>4, <1>5 DEF RInv

\* Start-up, and steps of no one, leave all of it alone.
LEMMA IdleReviews ==
    ASSUME RInv, UNCHANGED <<row, approval, reviews, cmd, pc>> PROVE RInv'
<1>1. VersionsAreNew' /\ ReviewsExist' /\ Approved(approval)' /\ \A d \in Saver : Approved(cmd[d].trust)'
  BY DEF RInv, VersionsAreNew, ReviewsExist, Approved, reviews
<1>2. KeptFits'
  BY DEF RInv, KeptFits, KeptFor
<1>3. ReservedFits'
  BY DEF RInv, ReservedFits, Holds, reviews
<1> QED BY <1>1, <1>2, <1>3 DEF RInv

LEMMA RNext == ASSUME SInv, RInv, [Next]_vars PROVE RInv'
<1>1. CASE UNCHANGED vars \/ \E k \in Slot : Recover(k)
  BY <1>1, IdleReviews DEF vars, tables, Recover
<1>2. ASSUME NEW c \in Saver, Step(c) PROVE RInv'
  BY <1>2, ReadRowReviews, RetainReviews, GateReviews, SlotReviews, ConsumeReviews, CommitReviews,
     DeleteReviews, LetGoReviews DEF Step
<1> QED BY <1>1, <1>2, BeginReviews, ReviewReviews, ExpireReviews, WritersReviews, CrashReviews DEF Next

\* Whatever is approved was shown to the user as it is approved, and a reserved review is held
\* by exactly one save.
THEOREM ReviewsAlwaysHonoured == Spec => []ReviewsAreHonoured
<1>1. Init => SInv /\ RInv
  BY SInit, RInit
<1>2. SInv /\ RInv /\ [Next]_vars => (SInv /\ RInv)'
  BY SNext, RNext
<1>3. SInv /\ RInv => ReviewsAreHonoured
  <2> SUFFICES ASSUME SInv, RInv PROVE ReviewsAreHonoured
    OBVIOUS
  <2>1. ApprovalWasReviewed
    BY DEF RInv, Approved, ApprovalWasReviewed
  <2>2. ASSUME NEW p \in reserved
        PROVE  Cardinality({c \in Saver : cmd[c].ack = p
                               /\ pc[c] \in {"commit", "settle", "abort", "release"}}) = 1
    <3>1. p \in Reviewer
      BY TypeParts DEF SInv, ReviewsOK
    <3>2. PICK c \in Saver : Holds(c, p)
      BY DEF RInv, ReservedFits
    <3>3. \A d \in Saver : Holds(d, p) => c = d
      BY <3>1, <3>2 DEF RInv, ReservedFits
    <3>4. {d \in Saver : cmd[d].ack = p
              /\ pc[d] \in {"commit", "settle", "abort", "release"}} = {c}
      BY <3>2, <3>3 DEF Holds, Holding
    <3> QED BY <3>4, FS_Singleton
  <2> QED BY <2>1, <2>2 DEF ReviewsAreHonoured, ReservationIsHeld
<1> QED BY <1>1, <1>2, <1>3, PTL DEF Spec

\* A save that sets a custom endpoint leaves an approval of exactly what it saves.
THEOREM CustomAlwaysReviewed == Spec => CustomNeedsReview
<1> DEFINE A == (\E c \in Saver : pc[c] = "commit" /\ pc'[c] = "settle") /\ row'.config # Official
                /\ (row # None => row.config # row'.config) => Fits(approval', row')
<1>1. Init => SInv /\ RInv
  BY SInit, RInit
<1>2. SInv /\ RInv /\ [Next]_vars => (SInv /\ RInv)'
  BY SNext, RNext
<1>3. SInv /\ RInv /\ [Next]_vars => [A]_vars
  <2> SUFFICES ASSUME SInv, RInv, Next, NEW c \in Saver, pc[c] = "commit", pc'[c] = "settle",
                      row'.config # Official, row # None => row.config # row'.config
               PROVE  Fits(approval', row')
    OBVIOUS
  <2>1. Save(c) \/ Create(c)
    <3>1. ProgramOK /\ \A d \in Saver : d \in Cmd
      BY TypeParts, Nulls DEF SInv
    <3>2. \A d \in Cmd : \A l : Goto(d, l) => pc'[d] = l /\ \A e \in Cmd : e # d => pc'[e] = pc[e]
      BY <3>1 DEF Goto, ProgramOK
    <3>3. ASSUME NEW d \in Saver, Step(d) PROVE Save(c) \/ Create(c)
      <4>1. CASE Save(d) \/ Create(d)
        <5>1. d = c
          BY <3>1, <3>2, <4>1 DEF Save, Create, Commit
        <5> QED BY <4>1, <5>1
      <4>2. CASE UNCHANGED pc
        BY <4>2
      <4>3. CASE \E l : Goto(d, l) /\ l # "settle"
        BY <3>1, <3>2, <4>3
      <4>4. CASE ReadRow(d) \/ Retain(d) \/ ReadBindings(d) \/ PreflightDone(d) \/ PrepareDone(d)
        BY <4>3, <4>4 DEF ReadRow, Retain, ReadBindings, PreflightDone, PrepareDone, End
      <4>5. CASE GateFails(d) \/ Consume(d) \/ Delete(d) \/ \E pin \in Pin : Gate(d, pin)
        BY <4>3, <4>5 DEF GateFails, Gate, Consume, Delete, End
      <4>6. CASE CommitFails(d) \/ Settle(d) \/ Release(d) \/ Answer(d)
        BY <4>3, <4>6 DEF CommitFails, Settle, Release, Released, Answer, End
      <4>7. CASE \E s \in Slot : \/ Preflight(d, s) \/ Insert(d, s) \/ Store(d, s) \/ StoreFails(d, s)
                                \/ FinalizeOp(d, s)
        BY <4>2, <4>3, <4>7 DEF Preflight, Insert, Store, StoreFails, FinalizeOp, End
      <4> QED BY <3>3, <4>1, <4>4, <4>5, <4>6, <4>7 DEF Step
    <3>4. ~\E p \in Reviewer : Expire(p) \/ \E config \in Custom, pin \in Pin : Review(p, config, pin)
      BY <3>1, <3>2, Nulls DEF Expire, Review
    <3>5. ~\E w \in Writer : \E config \in Config :
                               \/ Import(w, config)
                               \/ \E pin \in Pin : Upgrade(w, config, pin) \/ Rollback(w, config, pin)
      BY <3>1, <3>2, Nulls DEF Import, Upgrade, Rollback
    <3>6. ~Crash /\ ~\E k \in Slot : Recover(k)
      BY <3>1 DEF Crash, Recover
    <3>7. \A d \in Saver, kind \in Kind, config \in Config, ack \in Reviewer \cup {None},
             replace \in SUBSET Slot, clear \in SUBSET Slot : ~Begin(d, kind, replace, clear, config, ack)
      BY <3>1, <3>2 DEF Begin
    <3> QED BY <3>3, <3>4, <3>5, <3>6, <3>7 DEF Next
  <2>2. /\ row'.config = cmd[c].config /\ row'.pin = cmd[c].pin /\ approval' = cmd[c].trust
        /\ cmd[c].kind # "delete" /\ cmd[c].config # Official
    BY <2>1 DEF Save, Create, Commit
  <2>3. ~cmd[c].kept
    <3>1. KeptFor(cmd[c], pc[c])
      BY DEF RInv, KeptFits
    <3>2. CASE Save(c)
      BY <2>2, <3>1, <3>2 DEF Save, KeptFor
    <3>3. CASE Create(c)
      BY <3>1, <3>3 DEF Create, KeptFor
    <3> QED BY <2>1, <3>2, <3>3
  <2> QED BY <2>2, <2>3 DEF RInv, KeptFits, KeptFor, Fits
<1> QED BY <1>1, <1>2, <1>3, PTL DEF Spec, CustomNeedsReview

-----------------------------------------------------------------------------
(* The refinement of SecretStore: slots are the owners, and a secret is its slot with the     *)
(* command it comes from.                                                                     *)

\* What the journal owes, slot by slot.
LEMMA Owing ==
    ASSUME SInv, SInv'
    PROVE  /\ Owed \subseteq Slot \X Cmd /\ Owed' \subseteq Slot \X Cmd
           /\ \A s \in Slot, x \in Cmd :
                 /\ <<s, x>> \in Owed <=>
                       journal[s] # None /\ x \in {journal[s].old, journal[s].new} /\ x # bound[s]
                 /\ <<s, x>> \in Owed' <=>
                       journal'[s] # None /\ x \in {journal'[s].old, journal'[s].new} /\ x # bound'[s]
<1>1. /\ \A s \in Slot : journal[s] # None => journal[s].old \in Ref /\ journal[s].new \in Ref
      /\ \A s \in Slot : journal'[s] # None => journal'[s].old \in Ref /\ journal'[s].new \in Ref
  <2>1. StoreOK /\ StoreOK'
    BY TypeParts, TypePartsNext DEF SInv
  <2>2. ASSUME NEW s \in Slot, journal[s] # None PROVE journal[s].old \in Ref /\ journal[s].new \in Ref
    BY <2>1, <2>2 DEF StoreOK, JournalRow
  <2>3. ASSUME NEW s \in Slot, journal'[s] # None PROVE journal'[s].old \in Ref /\ journal'[s].new \in Ref
    BY <2>1, <2>3 DEF StoreOK, JournalRow
  <2> QED BY <2>2, <2>3
<1>2. Owed \subseteq Slot \X Cmd
  BY <1>1 DEF Owed, Ref
<1>3. Owed' \subseteq Slot \X Cmd
  BY <1>1 DEF Owed, Ref
<1>4. ASSUME NEW s \in Slot, NEW x \in Cmd
      PROVE  <<s, x>> \in Owed <=>
                journal[s] # None /\ x \in {journal[s].old, journal[s].new} /\ x # bound[s]
  BY Nulls DEF Owed
<1>5. ASSUME NEW s \in Slot, NEW x \in Cmd
      PROVE  <<s, x>> \in Owed' <=>
                journal'[s] # None /\ x \in {journal'[s].old, journal'[s].new} /\ x # bound'[s]
  BY Nulls DEF Owed
<1> QED BY <1>2, <1>3, <1>4, <1>5

\* What slots refer to, slot by slot.
LEMMA Referring ==
    ASSUME SInv, SInv'
    PROVE  /\ Held \in [Slot -> (Slot \X Cmd) \cup {None}] /\ Held' \in [Slot -> (Slot \X Cmd) \cup {None}]
           /\ Secrets!Bound \subseteq Slot \X Cmd /\ Secrets!Bound' \subseteq Slot \X Cmd
           /\ \A s \in Slot, x \in Cmd :
                 /\ <<s, x>> \in Secrets!Bound <=> x = bound[s]
                 /\ <<s, x>> \in Secrets!Bound' <=> x = bound'[s]
<1>0. None \notin Slot \X Cmd
  BY SaveAssumption
<1>1. /\ \A s \in Slot : bound[s] \in Ref /\ bound'[s] \in Ref
      /\ \A s \in Slot : Held[s] = IF bound[s] = None THEN None ELSE <<s, bound[s]>>
      /\ \A s \in Slot : Held'[s] = IF bound'[s] = None THEN None ELSE <<s, bound'[s]>>
  <2>1. StoreOK /\ StoreOK'
    BY TypeParts, TypePartsNext DEF SInv
  <2> QED BY <2>1 DEF Held, StoreOK
<1>2. Held \in [Slot -> (Slot \X Cmd) \cup {None}]
  BY <1>1 DEF Held, Ref
<1>3. Held' \in [Slot -> (Slot \X Cmd) \cup {None}]
  BY <1>1 DEF Held, Ref
<1>4. /\ Secrets!Bound = {Held[s] : s \in Slot} \ {None}
      /\ Secrets!Bound' = {Held'[s] : s \in Slot} \ {None}
  BY DEF Secrets!Bound
<1>5. ASSUME NEW s \in Slot, NEW x \in Cmd
      PROVE  /\ <<s, x>> \in Secrets!Bound <=> x = bound[s]
             /\ <<s, x>> \in Secrets!Bound' <=> x = bound'[s]
  <2>1. <<s, x>> # None /\ x # None
    BY <1>0, Nulls
  <2>2. ASSUME <<s, x>> \in Secrets!Bound PROVE x = bound[s]
    <3>1. PICK q \in Slot : <<s, x>> = Held[q]
      BY <1>4, <2>2
    <3>2. <<s, x>> = <<q, bound[q]>>
      BY <1>1, <2>1, <3>1
    <3> QED BY <3>2
  <2>3. x = bound[s] => <<s, x>> \in Secrets!Bound
    BY <1>1, <1>4, <2>1
  <2>4. ASSUME <<s, x>> \in Secrets!Bound' PROVE x = bound'[s]
    <3>1. PICK q \in Slot : <<s, x>> = Held'[q]
      BY <1>4, <2>4
    <3>2. <<s, x>> = <<q, bound'[q]>>
      BY <1>1, <2>1, <3>1
    <3> QED BY <3>2
  <2>5. x = bound'[s] => <<s, x>> \in Secrets!Bound'
    BY <1>1, <1>4, <2>1
  <2> QED BY <2>2, <2>3, <2>4, <2>5
<1>6. Secrets!Bound \subseteq Slot \X Cmd /\ Secrets!Bound' \subseteq Slot \X Cmd
  BY <1>2, <1>3, <1>4
<1> QED BY <1>2, <1>3, <1>5, <1>6

\* A step that touches no credential is none of the store.
LEMMA QuietStore ==
    ASSUME UNCHANGED <<bound, journal, vault>> PROVE UNCHANGED Secrets!vars
BY DEF Secrets!vars, Held, Owed

\* Secrets that are owed go, and nothing else does.
LEMMA Settled ==
    ASSUME SInv, SInv', UNCHANGED bound, vault' \subseteq vault, vault \ vault' \subseteq Owed,
           Owed' \subseteq Owed
    PROVE  Secrets!Settle
<1>1. UNCHANGED Held
  BY DEF Held
<1>2. (Owed \ Owed') \cap vault' = {}
  <2> SUFFICES ASSUME NEW z \in Owed, z \in vault' PROVE z \in Owed'
    OBVIOUS
  <2>1. PICK s \in Slot, x \in Cmd : z = <<s, x>>
    BY Owing
  <2>2. x # bound[s] /\ bound'[s] = bound[s]
    BY <2>1, Owing
  <2>3. journal'[s] # None /\ x \in {journal'[s].old, journal'[s].new}
    BY <2>1, <2>2 DEF SInv, SecretsAgree, SecretAccountedFor
  <2> QED BY <2>1, <2>2, <2>3, Owing
<1> QED BY <1>1, <1>2 DEF Secrets!Settle

\* Slots turn together to secrets that are there and owed, or to none.
LEMMA Changed ==
    ASSUME SInv, SInv', UNCHANGED vault,
           \A s \in Slot : bound'[s] # bound[s] =>
              bound'[s] = None \/ <<s, bound'[s]>> \in vault \cap Owed,
           \A s \in Slot, x \in Cmd :
              <<s, x>> \in Owed' <=> (<<s, x>> \in Owed \/ x = bound[s]) /\ x # bound'[s]
    PROVE  Secrets!Change
<1>1. ASSUME NEW s \in Slot, Held'[s] # Held[s]
      PROVE  \/ Held'[s] = None
             \/ Held'[s] \in vault \cap Owed /\ \A q \in Slot \ {s} : Held'[q] # Held'[s]
  <2>1. bound'[s] # bound[s]
    BY <1>1 DEF Held
  <2>2. CASE bound'[s] = None
    BY <2>2 DEF Held
  <2>3. CASE bound'[s] # None
    <3>1. Held'[s] = <<s, bound'[s]>> /\ Held'[s] \in vault \cap Owed
      BY <2>1, <2>3 DEF Held
    <3>2. Held'[s] # None
      BY <3>1, Owing, SaveAssumption
    <3>3. ASSUME NEW q \in Slot \ {s} PROVE Held'[q] # Held'[s]
      <4>1. Held'[q] = IF bound'[q] = None THEN None ELSE <<q, bound'[q]>>
        BY DEF Held
      <4> QED BY <3>1, <3>2, <4>1
    <3> QED BY <3>1, <3>3
  <2> QED BY <2>2, <2>3
<1>2. Owed' = (Owed \cup Secrets!Bound) \ Secrets!Bound'
  <2>1. ASSUME NEW s \in Slot, NEW x \in Cmd
        PROVE  <<s, x>> \in Owed' <=> <<s, x>> \in (Owed \cup Secrets!Bound) \ Secrets!Bound'
    BY Referring
  <2>2. Owed' \subseteq Slot \X Cmd /\ (Owed \cup Secrets!Bound) \ Secrets!Bound' \subseteq Slot \X Cmd
    BY Owing, Referring
  <2>3. ASSUME NEW z \in Slot \X Cmd
        PROVE  z \in Owed' <=> z \in (Owed \cup Secrets!Bound) \ Secrets!Bound'
    <3>1. PICK s \in Slot, x \in Cmd : z = <<s, x>>
      OBVIOUS
    <3> QED BY <2>1, <3>1
  <2> QED BY <2>2, <2>3
<1> QED BY <1>1, <1>2, Referring DEF Secrets!Change

\* However far finalizing comes, what goes was owed.
LEMMA FinalizeSettles ==
    ASSUME SInv, SInv', NEW k \in Slot, journal[k] # None, Finalize(k), UNCHANGED bound
    PROVE  Secrets!Settle
<1> DEFINE target == CleanupTarget(journal[k], bound[k])
<1>1. StoreOK /\ journal[k] \in JournalRow
  BY TypeParts DEF SInv, StoreOK
<1>2. target # None => target # bound[k] /\ target \in {journal[k].old, journal[k].new}
  BY <1>1, Nulls DEF SInv, JournalMatches, CleanupTarget, JournalRow
<1> HIDE DEF target
<1>3. vault' \in {vault, vault \ {<<k, target>>}}
  BY DEF Finalize, target
<1>4. \A s \in Slot : journal'[s] \in {journal[s], None}
  <2>1. journal' = [journal EXCEPT ![k] = None] \/ journal' = journal
    BY DEF Finalize
  <2> QED BY <1>1, <2>1 DEF StoreOK
<1>5. vault \ vault' \subseteq Owed
  <2> SUFFICES ASSUME <<k, target>> \in vault PROVE <<k, target>> \in Owed
    BY <1>3
  <2>1. target \in Cmd
    BY <1>1 DEF StoreOK
  <2> QED BY <1>2, <2>1, Owing, Nulls
<1>6. Owed' \subseteq Owed
  <2> SUFFICES ASSUME NEW s \in Slot, NEW x \in Cmd, <<s, x>> \in Owed' PROVE <<s, x>> \in Owed
    BY Owing
  <2>1. journal'[s] # None /\ x \in {journal'[s].old, journal'[s].new} /\ x # bound'[s]
    BY Owing
  <2>2. journal'[s] = journal[s]
    BY <1>4, <2>1
  <2> QED BY <2>1, <2>2, Owing
<1> QED BY <1>3, <1>5, <1>6, Settled

\* A new secret is announced in the journal before it is stored; a row that only clears a slot
\* owes nothing yet.
LEMMA InsertAnnounces ==
    ASSUME SInv, SInv', NEW c \in Saver, NEW s \in Slot, Insert(c, s)
    PROVE  Secrets!Announce(<<s, c>>) \/ UNCHANGED Secrets!vars
<1>1. c \in Cmd /\ StoreOK /\ UNCHANGED <<bound, vault, Held>>
  BY TypeParts, Nulls DEF Insert, SInv, tables, Held
<1>2. CASE journal[s] # None
  BY <1>1, <1>2, QuietStore DEF Insert
<1>3. CASE journal[s] = None
  <2> DEFINE new == IF s \in cmd[c].replace THEN c ELSE None
             entry == [id |-> c, old |-> bound[s], new |-> new, state |-> "prepared"]
  <2>1. s \notin ops[c] /\ Treated(c, s)
    BY DEF Insert, SInv, CommandsFit, CommandFits, SlotsFit, Before
  <2>2. bound[s] # c /\ <<s, c>> \notin vault
    BY <2>1 DEF Treated, Unused
  <2>3. journal' = [journal EXCEPT ![s] = entry] /\ entry \in JournalRow
    BY <1>1, <1>3, Nulls DEF Insert, StoreOK, Ref, JournalRow
  <2>4. entry.old = bound[s] /\ entry.new = new /\ entry # None
    BY <2>3, Nulls
  <2> HIDE DEF entry
  <2>5. journal'[s] = entry /\ \A k \in Slot : k # s => journal'[k] = journal[k]
    BY <1>1, <2>3 DEF StoreOK
  <2>6. ASSUME NEW k \in Slot, NEW x \in Cmd
        PROVE  <<k, x>> \in Owed' <=> <<k, x>> \in Owed \/ (k = s /\ x = new /\ x # bound[s])
    BY <1>1, <1>3, <2>4, <2>5, Owing
  <2>7. CASE new = c
    <3>1. Owed' = Owed \cup {<<s, c>>}
      BY <1>1, <2>2, <2>6, <2>7, Owing
    <3>2. <<s, c>> \notin Owed
      BY <1>1, <1>3, Owing
    <3>3. <<s, c>> \notin Secrets!Bound
      BY <1>1, <2>2, Referring
    <3> QED BY <1>1, <2>2, <3>1, <3>2, <3>3 DEF Secrets!Announce
  <2>8. CASE new = None
    <3>1. ASSUME NEW k \in Slot, NEW x \in Cmd PROVE <<k, x>> \in Owed' <=> <<k, x>> \in Owed
      BY <2>6, <2>8, Nulls
    <3>2. Owed' = Owed
      BY <3>1, Owing
    <3> QED BY <1>1, <3>2 DEF Secrets!vars
  <2> QED BY <2>7, <2>8
<1> QED BY <1>2, <1>3

\* The transaction of a save turns all its slots together.
LEMMA CommitChanges ==
    ASSUME SInv, SInv', NEW c \in Saver, Save(c) \/ Create(c) PROVE Secrets!Change
<1>1. pc[c] = "commit" /\ Commit(c) /\ c \in Cmd /\ StoreOK /\ StoreOK' /\ UNCHANGED vault
  BY TypeParts, TypePartsNext, Nulls DEF Save, Create, Commit, SInv
<1>2. /\ \A s \in Slot : s \in ops[c] =>
            /\ bound'[s] = journal[s].new
            /\ journal'[s].old = journal[s].old /\ journal'[s].new = journal[s].new
      /\ \A s \in Slot : s \notin ops[c] => bound'[s] = bound[s] /\ journal'[s] = journal[s]
      /\ \A s \in Slot : s \in ops[c] => journal'[s] # None
  <2>1. /\ bound' = [s \in Slot |-> IF s \in ops[c] THEN journal[s].new ELSE bound[s]]
        /\ journal' = Marked(c)
    BY <1>1 DEF Commit
  <2>2. ASSUME NEW s \in Slot, s \in ops[c] PROVE journal'[s] # None
    <3>1. Treated(c, s)
      BY <1>1 DEF SInv, SlotsFit, Before
    <3>2. journal[s] \in JournalRow
      BY <1>1, <2>2, <3>1 DEF Treated, Prepared, Journaled, StoreOK
    <3>3. journal'[s] = [id |-> c, old |-> journal[s].old, new |-> journal[s].new, state |-> "db_committed"]
      BY <2>1, <2>2 DEF Marked
    <3>4. journal'[s] \in JournalRow
      BY <1>1, <3>2, <3>3 DEF JournalRow
    <3> QED BY <3>4, Nulls
  <2> QED BY <2>1, <2>2 DEF Marked
<1>3. ASSUME NEW s \in Slot, s \in ops[c]
      PROVE  /\ journal[s] # None /\ bound[s] = journal[s].old /\ journal[s].new \in {None, c}
             /\ journal[s].new = c => <<s, c>> \in vault
  <2>1. Treated(c, s)
    BY <1>1 DEF SInv, SlotsFit, Before
  <2> QED BY <1>3, <2>1 DEF Treated, Prepared, Journaled, SInv, JournalMatches
<1>4. ASSUME NEW s \in Slot, bound'[s] # bound[s]
      PROVE  bound'[s] = None \/ <<s, bound'[s]>> \in vault \cap Owed
  <2>1. s \in ops[c] /\ bound'[s] = journal[s].new
    BY <1>2, <1>4
  <2>2. /\ journal[s] # None /\ journal[s].new \in {None, c}
        /\ journal[s].new = c => <<s, c>> \in vault
    BY <1>3, <2>1
  <2>3. CASE journal[s].new = c
    <3>1. <<s, c>> \in Owed
      BY <1>1, <1>4, <2>1, <2>2, <2>3, Owing
    <3> QED BY <2>1, <2>2, <2>3, <3>1
  <2> QED BY <2>1, <2>2, <2>3
<1>5. ASSUME NEW s \in Slot, NEW x \in Cmd
      PROVE  <<s, x>> \in Owed' <=> (<<s, x>> \in Owed \/ x = bound[s]) /\ x # bound'[s]
  <2>1. CASE s \in ops[c]
    <3>1. /\ bound'[s] = journal[s].new /\ journal'[s] # None
          /\ journal'[s].old = journal[s].old /\ journal'[s].new = journal[s].new
      BY <1>2, <2>1
    <3>2. journal[s] # None /\ bound[s] = journal[s].old
      BY <1>3, <2>1
    <3>3. <<s, x>> \in Owed <=> x \in {journal[s].old, journal[s].new} /\ x # bound[s]
      BY <3>2, Owing
    <3>4. <<s, x>> \in Owed' <=> x \in {journal[s].old, journal[s].new} /\ x # bound'[s]
      BY <3>1, Owing
    <3> QED BY <3>1, <3>2, <3>3, <3>4
  <2>2. CASE s \notin ops[c]
    BY <1>2, <2>2, Owing
  <2> QED BY <2>1, <2>2
<1> QED BY <1>1, <1>4, <1>5, Changed

\* A deletion turns every slot to none, and owes what they referred to.
LEMMA DeleteChanges ==
    ASSUME SInv, SInv', NEW c \in Saver, Delete(c) PROVE Secrets!Change
<1> DEFINE held == {s \in Slot : bound[s] # None}
<1>1. c \in Cmd /\ StoreOK /\ UNCHANGED vault /\ \A s \in Slot : bound'[s] = None
  BY TypeParts, Nulls DEF Delete, SInv
<1>2. /\ \A s \in Slot : s \in held =>
            /\ journal[s] = None
            /\ journal'[s] = [id |-> c, old |-> bound[s], new |-> None, state |-> "db_committed"]
      /\ \A s \in Slot : s \notin held => bound[s] = None /\ journal'[s] = journal[s]
  BY DEF Delete
<1> HIDE DEF held
<1>3. ASSUME NEW s \in Slot, NEW x \in Cmd
      PROVE  <<s, x>> \in Owed' <=> (<<s, x>> \in Owed \/ x = bound[s]) /\ x # bound'[s]
  <2>1. CASE s \in held
    <3>1. /\ journal[s] = None
          /\ journal'[s] = [id |-> c, old |-> bound[s], new |-> None, state |-> "db_committed"]
      BY <1>2, <2>1
    <3>2. bound[s] \in Ref /\ None \in Ref
      BY <1>1 DEF StoreOK, Ref
    <3>3. journal'[s] \in JournalRow
      BY <1>1, <3>1, <3>2 DEF JournalRow
    <3>4. journal'[s] # None /\ journal'[s].old = bound[s] /\ journal'[s].new = None
      BY <3>1, <3>3, Nulls
    <3>5. <<s, x>> \notin Owed
      BY <3>1, Owing
    <3>6. <<s, x>> \in Owed' <=> x = bound[s]
      BY <1>1, <3>4, Owing, Nulls
    <3> QED BY <1>1, <3>5, <3>6, Nulls
  <2>2. CASE s \notin held
    BY <1>1, <1>2, <2>2, Owing, Nulls
  <2> QED BY <2>1, <2>2
<1> QED BY <1>1, <1>3, Changed

\* What reaches the vault was announced.
LEMMA StoreStores ==
    ASSUME SInv, SInv', NEW c \in Saver, NEW s \in Slot, Store(c, s) PROVE Secrets!Store(<<s, c>>)
<1>1. vault' = vault \cup {<<s, c>>} /\ UNCHANGED <<bound, journal, Held, Owed>>
  BY DEF Store, tables, Held, Owed
<1>2. /\ Journaled(c, s) /\ journal[s].new = c /\ <<s, c>> \notin vault /\ s \notin ops[c]
      /\ \A k \in Slot : k # s => Treated(c, k)
  BY StoresOwn DEF Store
<1>3. bound[s] # c
  BY <1>2, Nulls DEF Journaled, SInv, JournalMatches
<1>4. <<s, c>> \in Owed
  BY <1>2, <1>3, Owing, Nulls DEF Journaled
<1> QED BY <1>1, <1>4 DEF Secrets!Store

\* What a save does to its slots one by one.
LEMMA SlotStepRefines ==
    ASSUME SInv, SInv', NEW c \in Saver, NEW s \in Slot,
           \/ Preflight(c, s) \/ Insert(c, s) \/ Store(c, s) \/ StoreFails(c, s) \/ FinalizeOp(c, s)
    PROVE  Secrets!Next \/ UNCHANGED Secrets!vars
<1>1. c \in Cmd /\ <<s, c>> \in Slot \X Cmd
  BY Nulls
<1>2. CASE Preflight(c, s) \/ FinalizeOp(c, s)
  <2>1. CASE journal[s] = None
    BY <1>2, <2>1, QuietStore DEF Preflight, FinalizeOp, tables, secrets
  <2>2. CASE journal[s] # None
    BY <1>2, <2>2, FinalizeSettles DEF Preflight, FinalizeOp, tables, Secrets!Next
  <2> QED BY <2>1, <2>2
<1>3. CASE Insert(c, s)
  BY <1>1, <1>3, InsertAnnounces DEF Secrets!Next
<1>4. CASE Store(c, s)
  BY <1>1, <1>4, StoreStores DEF Secrets!Next
<1>5. CASE StoreFails(c, s)
  <2>1. \A k \in Slot : journal'[k] \in {journal[k], None}
    BY <1>5, TypeParts DEF StoreFails, SInv, StoreOK
  <2>2. UNCHANGED <<bound, vault>>
    BY <1>5 DEF StoreFails, tables
  <2>3. Owed' \subseteq Owed
    <3> SUFFICES ASSUME NEW k \in Slot, NEW x \in Cmd, <<k, x>> \in Owed' PROVE <<k, x>> \in Owed
      BY Owing
    <3>1. journal'[k] # None /\ x \in {journal'[k].old, journal'[k].new} /\ x # bound'[k]
      BY Owing
    <3>2. journal'[k] = journal[k]
      BY <2>1, <3>1
    <3> QED BY <2>2, <3>1, <3>2, Owing
  <2> QED BY <2>2, <2>3, Settled DEF Secrets!Next
<1> QED BY <1>2, <1>3, <1>4, <1>5

LEMMA StepRefines ==
    ASSUME SInv, SInv', NEW c \in Saver, Step(c) PROVE Secrets!Next \/ UNCHANGED Secrets!vars
<1>1. CASE Save(c) \/ Create(c) \/ Delete(c)
  BY <1>1, CommitChanges, DeleteChanges DEF Secrets!Next
<1>2. CASE UNCHANGED <<bound, journal, vault>>
  BY <1>2, QuietStore
<1>3. CASE ReadRow(c) \/ Retain(c) \/ ReadBindings(c) \/ PreflightDone(c) \/ PrepareDone(c)
  BY <1>2, <1>3 DEF ReadRow, Retain, ReadBindings, PreflightDone, PrepareDone, tables, secrets
<1>4. CASE GateFails(c) \/ Consume(c) \/ \E pin \in Pin : Gate(c, pin)
  BY <1>2, <1>4 DEF GateFails, Consume, Gate, tables, secrets
<1>5. CASE CommitFails(c) \/ Settle(c) \/ Release(c) \/ Answer(c)
  BY <1>2, <1>5 DEF CommitFails, Settle, Release, Answer, tables, secrets
<1> QED BY <1>1, <1>3, <1>4, <1>5, SlotStepRefines DEF Step

LEMMA NextRefines ==
    ASSUME SInv, SInv', [Next]_vars PROVE Secrets!Next \/ UNCHANGED Secrets!vars
<1>1. CASE UNCHANGED <<bound, journal, vault>>
  BY <1>1, QuietStore
<1>2. CASE UNCHANGED vars \/ Crash
  BY <1>1, <1>2 DEF vars, Crash, tables, secrets
<1>3. ASSUME NEW c \in Saver, NEW kind \in Kind, NEW config \in Config,
             NEW ack \in Reviewer \cup {None}, NEW replace \in SUBSET Slot, NEW clear \in SUBSET (Slot \ replace),
             Begin(c, kind, replace, clear, config, ack)
      PROVE  UNCHANGED <<bound, journal, vault>>
  BY <1>3 DEF Begin, tables, secrets
<1>4. ASSUME NEW p \in Reviewer,
             Expire(p) \/ \E config \in Custom, pin \in Pin : Review(p, config, pin)
      PROVE  UNCHANGED <<bound, journal, vault>>
  BY <1>4 DEF Expire, Review, tables, secrets
<1>5. ASSUME NEW w \in Writer,
             \E config \in Config :
                \/ Import(w, config)
                \/ \E pin \in Pin : Upgrade(w, config, pin) \/ Rollback(w, config, pin)
      PROVE  UNCHANGED <<bound, journal, vault>>
  BY <1>5 DEF Import, Upgrade, Rollback, secrets
<1>6. ASSUME NEW k \in Slot, Recover(k) PROVE Secrets!Next
  <2>1. journal[k] # None /\ Finalize(k) /\ UNCHANGED bound
    BY <1>6 DEF Recover, SInv, CommandsFit, tables
  <2> QED BY <2>1, FinalizeSettles DEF Secrets!Next
<1> QED BY <1>1, <1>2, <1>3, <1>4, <1>5, <1>6, StepRefines DEF Next

LEMMA InitRefines == ASSUME Init PROVE Secrets!Init
<1>1. Held = [s \in Slot |-> None]
  BY DEF Init, Held
<1>2. Owed = {}
  BY DEF Init, Owed
<1> QED BY <1>1, <1>2 DEF Init, Secrets!Init

\* Slots, vault and journal are one store, whatever a save of several slots, a deletion, a crash
\* or a start-up does to them: a secret is journaled before it is stored and stored before a slot
\* refers to it, all slots of a save turn at once, and none is lost without a trace.
THEOREM SavesAreOneStore == Spec => OneStore
<1>1. Init => SInv /\ Secrets!Init
  BY SInit, InitRefines
<1>2. SInv /\ [Next]_vars => SInv'
  BY SNext
<1>3. SInv /\ SInv' /\ [Next]_vars => [Secrets!Next]_(Secrets!vars)
  BY NextRefines
<1> QED BY <1>1, <1>2, <1>3, PTL DEF Spec, OneStore, Secrets!Spec
=============================================================================
