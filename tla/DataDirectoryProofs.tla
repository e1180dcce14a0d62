-------------------------- MODULE DataDirectoryProofs --------------------------
(***************************************************************************)
(* That the properties of the settings' file and of the block log hold for *)
(* any number of requests, whatever is typed, and for any chain.           *)
(*                                                                         *)
(* SettingsAreKept is not inductive: while an update that was alone is     *)
(* being saved, what it saves must be what is in force (KeptOK).  Nor is   *)
(* OwnerIsKnown, whose records come from those a refresh has collected     *)
(* (CollectedOK).  LoggedOnce is inductive as it stands.                   *)
(***************************************************************************)
EXTENDS DataDirectory, TLAPS

\* Of an update that was alone, what is saved is what is in force.
KeptOK ==
    ~adrift =>
        /\ \A a \in Admin : ~Idle(a) => saving[a] = settings
        /\ \A a, b \in Admin : ~Idle(a) /\ ~Idle(b) => a = b
        /\ Quiet => settings = Loaded

SettingsOK ==
    /\ SettingsTypeOK
    /\ \A a \in Admin : saving[a] \in Loadable \cup {None}
    /\ FileLoads
    /\ KeptOK

\* A set of records has one of a block, with the coinbase if that was to be had.
Owned(records) ==
    /\ \A r, t \in records : r.block = t.block => r = t
    /\ \A r \in records : ~r.coinbase => r.block \in missed

RecordsOK ==
    /\ collected \subseteq Record /\ cached \subseteq Record
    /\ \A batch \in appends : batch \subseteq Record

\* A refresh goes on with the record that is cached.
CollectedOK ==
    /\ RecordsOK /\ Owned(collected) /\ Owned(cached)
    /\ \A r \in collected, t \in cached : r.block = t.block => r = t

-----------------------------------------------------------------------------
(* The settings.                                                            *)

\* The file a start accepts has the settings' types, and None is none of them.
LEMMA LoadableTypes == Loadable \subseteq Settings /\ None \notin Settings
  <1>1. Loadable \subseteq Settings
        BY DEF Loadable
  <1>2. ASSUME None \in Settings PROVE FALSE
    <2>1. PICK f \in Int, m \in Int, o \in BOOLEAN :
             None = [feeBPS |-> f, payoutMin |-> m, autoPayout |-> o]
          BY <1>2 DEF Settings
    <2>2. DOMAIN None = {"none"}
          BY DEF None
    <2>3. DOMAIN [feeBPS |-> f, payoutMin |-> m, autoPayout |-> o]
              = {"feeBPS", "payoutMin", "autoPayout"}
          OBVIOUS
    <2>4. "feeBPS" # "none"
          OBVIOUS
    <2>5. QED
          BY <2>1, <2>2, <2>3, <2>4
  <1>3. QED
        BY <1>1, <1>2

\* A form that is accepted makes settings that can be loaded.
LEMMA AskedLoads ==
    ASSUME NEW form \in Form, Accepts(form)
    PROVE  Asked(form) \in Loadable
  <1>1. form.fee \in Int /\ form.auto \in BOOLEAN /\ form.fee \in 0..MaxFee
        BY FormAssumption DEF Accepts
  <1>2. ParsedMin(form) \in Int /\ ParsedMin(form) >= 0
    <2>1. form.whole * Coin + form.frac \in Int
          BY FormAssumption
    <2>2. \A n \in Int : n % IntSize \in Int
          BY FormAssumption
    <2>3. \A n \in Int : Wrapped(n) \in Int
          BY <2>2, FormAssumption DEF Wrapped
    <2>4. QED
          BY <2>1, <2>3 DEF Accepts, ParsedMin
  <1>3. QED
        BY <1>1, <1>2 DEF Asked, Loadable, Settings

\* A step of an administrator.
LEMMA SettingsKeep ==
    ASSUME SettingsOK, SettingsStep
    PROVE  SettingsOK'
  <1>1. /\ settings \in Settings /\ settingsFile \in Settings \cup {None}
        /\ saving \in [Admin -> Settings \cup {None}] /\ adrift \in BOOLEAN /\ faults \in Nat
        /\ \A a \in Admin : saving[a] \in Loadable \cup {None}
        BY DEF SettingsOK, SettingsTypeOK
  <1>2. ASSUME NEW a \in Admin, NEW form \in Form, Update(a, form)
        PROVE  SettingsOK'
    <2>1. /\ settings' = Asked(form) /\ Asked(form) \in Loadable /\ Asked(form) \in Settings
          /\ Asked(form) # None
          BY <1>2, AskedLoads, LoadableTypes DEF Update
    <2>2. /\ saving' = [saving EXCEPT ![a] = Asked(form)] /\ adrift' = ~Quiet
          /\ UNCHANGED <<settingsFile, faults>>
          BY <1>2 DEF Update
    <2>3. SettingsTypeOK'
          BY <1>1, <2>1, <2>2 DEF SettingsTypeOK
    <2>4. /\ saving'[a] = Asked(form)
          /\ \A b \in Admin : b # a => saving'[b] = saving[b]
          BY <1>1, <2>2
    <2>5. (\A b \in Admin : saving[b] \in Loadable \cup {None})'
          BY <1>1, <2>1, <2>4
    <2>6. KeptOK'
      <3>1. CASE Quiet
        <4>1. \A b \in Admin : ~Idle(b)' => b = a
              BY <2>4, <3>1 DEF Quiet, Idle
        <4>2. ~Quiet'
              BY <2>1, <2>4 DEF Quiet, Idle
        <4>3. QED
              BY <2>1, <2>4, <4>1, <4>2 DEF KeptOK
      <3>2. CASE ~Quiet
            BY <2>2, <3>2 DEF KeptOK
      <3>3. QED
            BY <3>1, <3>2
    <2>7. FileLoads'
          BY <2>2 DEF SettingsOK, FileLoads
    <2>8. QED
          BY <2>3, <2>5, <2>6, <2>7 DEF SettingsOK
  <1>3. ASSUME NEW a \in Admin, NEW form \in Form, RefuseHalfway(a, form)
        PROVE  SettingsOK'
    <2>1. /\ settings' = [settings EXCEPT !.feeBPS = form.fee]
          /\ adrift' = (adrift \/ settings' # settings)
          /\ UNCHANGED <<settingsFile, saving, faults>>
          BY <1>3 DEF RefuseHalfway
    <2>2. form.fee \in Int
          BY FormAssumption
    <2>3. SettingsTypeOK'
          BY <1>1, <2>1, <2>2 DEF SettingsTypeOK, Settings
    <2>4. KeptOK'
      <3>1. ASSUME ~adrift' PROVE ~adrift /\ settings' = settings
            BY <2>1, <3>1
      <3>2. QED
            BY <2>1, <3>1 DEF SettingsOK, KeptOK, Idle, Quiet, Loaded
    <2>5. QED
          BY <1>1, <2>1, <2>3, <2>4 DEF SettingsOK, FileLoads
  <1>4. ASSUME NEW a \in Admin, Save(a)
        PROVE  SettingsOK'
    <2>1. /\ saving[a] # None /\ settingsFile' = saving[a]
          /\ saving' = [saving EXCEPT ![a] = None] /\ UNCHANGED <<settings, adrift, faults>>
          BY <1>4 DEF Save, Idle
    <2>2. saving[a] \in Loadable /\ saving[a] \in Settings
          BY <1>1, <2>1, LoadableTypes
    <2>3. /\ saving'[a] = None
          /\ \A b \in Admin : b # a => saving'[b] = saving[b]
          BY <1>1, <2>1
    <2>4. SettingsTypeOK'
          BY <1>1, <2>1, <2>2 DEF SettingsTypeOK
    <2>5. KeptOK'
      <3>1. SUFFICES ASSUME ~adrift PROVE KeptOK'
            BY <2>1 DEF KeptOK
      <3>2. settingsFile' = settings'
            BY <2>1, <3>1 DEF SettingsOK, KeptOK, Idle
      <3>3. \A b \in Admin : Idle(b)'
            BY <2>1, <2>3, <3>1 DEF SettingsOK, KeptOK, Idle
      <3>4. Loaded' = settings'
            BY <2>1, <2>2, <3>2, LoadableTypes DEF Loaded
      <3>5. QED
            BY <3>3, <3>4 DEF KeptOK
    <2>6. QED
          BY <1>1, <2>1, <2>2, <2>3, <2>4, <2>5 DEF SettingsOK, FileLoads
  <1>5. ASSUME NEW a \in Admin, SaveFails(a)
        PROVE  SettingsOK'
    <2>1. /\ saving' = [saving EXCEPT ![a] = None] /\ adrift' = TRUE /\ faults' = faults + 1
          /\ UNCHANGED <<settings, settingsFile>>
          BY <1>5 DEF SaveFails, Fault
    <2>2. \A b \in Admin : saving'[b] \in {saving[b], None}
          BY <1>1, <2>1
    <2>3. SettingsTypeOK'
          BY <1>1, <2>1 DEF SettingsTypeOK
    <2>4. KeptOK'
          BY <2>1 DEF KeptOK
    <2>5. QED
          BY <1>1, <2>1, <2>2, <2>3, <2>4 DEF SettingsOK, FileLoads
  <1>6. QED
        BY <1>2, <1>3, <1>4, <1>5 DEF SettingsStep

\* A start.
LEMMA SettingsLoad ==
    ASSUME SettingsOK, Fault, LoadSettings
    PROVE  SettingsOK'
  <1>1. /\ settings' = Loaded /\ saving' = [a \in Admin |-> None] /\ adrift' = FALSE
        /\ settingsFile' = settingsFile /\ faults' = faults + 1
        BY DEF LoadSettings, Fault
  <1>2. Loaded \in Settings
        BY LoadableTypes DEF LoadSettings
  <1>3. SettingsTypeOK'
    <2>1. [a \in Admin |-> None] \in [Admin -> Settings \cup {None}]
          OBVIOUS
    <2>2. settingsFile \in Settings \cup {None} /\ faults + 1 \in Nat
          BY DEF SettingsOK, SettingsTypeOK
    <2>3. QED
          BY <1>1, <1>2, <2>1, <2>2 DEF SettingsTypeOK
  <1>4. Loaded' = settings'
        BY <1>1 DEF Loaded
  <1>5. KeptOK'
        BY <1>1, <1>4 DEF KeptOK, Idle
  <1>6. QED
        BY <1>1, <1>3, <1>5 DEF SettingsOK, FileLoads

-----------------------------------------------------------------------------
(* The block log.                                                           *)

\* The blocks of a set of records.
LEMMA BlocksOfMarked ==
    ASSUME collected \subseteq Record
    PROVE  /\ \A r \in collected : Marked(r).block = r.block /\ Marked(r).coinbase = r.coinbase
                                   /\ Marked(r) \in Record
           /\ BlocksOf(Fresh) = BlocksOf(collected) \ noted
  <1>1. ASSUME NEW r \in collected
        PROVE  Marked(r).block = r.block /\ Marked(r).coinbase = r.coinbase /\ Marked(r) \in Record
    <2>1. r \in Record /\ (r.round \/ InRounds(r.block)) \in BOOLEAN
          BY DEF InRounds, Record
    <2>2. QED
          BY <2>1 DEF Marked, Record
  <1>2. BlocksOf(Fresh) = BlocksOf(collected) \ noted
        BY <1>1 DEF BlocksOf, Fresh
  <1>3. QED
        BY <1>1, <1>2

\* A block is logged once.
LEMMA LoggedOnceKeeps ==
    ASSUME LoggedOnce, RecordsOK, BlocksStep
    PROVE  LoggedOnce'
  <1>1. ASSUME UNCHANGED <<noted, appends, written, dropped>>
        PROVE  LoggedOnce'
        BY <1>1 DEF LoggedOnce, Waiting, BlocksOf
  <1>2. CASE Apply
    <2>1. /\ noted' = noted \cup BlocksOf(collected)
          /\ appends' = IF Fresh = {} THEN appends ELSE appends \cup {Fresh}
          /\ UNCHANGED <<written, dropped>>
          BY <1>2 DEF Apply
    <2>2. BlocksOf(Fresh) = BlocksOf(collected) \ noted
          BY BlocksOfMarked DEF RecordsOK
    <2>3. Fresh = {} => BlocksOf(Fresh) = {}
          BY DEF BlocksOf
    <2>4. Waiting' = Waiting \cup BlocksOf(Fresh)
          BY <2>1, <2>3 DEF Waiting, BlocksOf
    <2>5. \A s \in appends : BlocksOf(s) \subseteq noted
          BY DEF LoggedOnce, Waiting
    <2>6. \A s, t \in appends' : s # t => BlocksOf(s) \cap BlocksOf(t) = {}
      <3>1. appends' \subseteq appends \cup {Fresh}
            BY <2>1
      <3>2. \A s \in appends : BlocksOf(s) \cap BlocksOf(Fresh) = {}
            BY <2>2, <2>5
      <3>3. QED
            BY <3>1, <3>2 DEF LoggedOnce
    <2>7. /\ noted' = Waiting' \cup written' \cup dropped'
          /\ Waiting' \cap (written' \cup dropped') = {} /\ written' \cap dropped' = {}
          BY <2>1, <2>2, <2>4 DEF LoggedOnce
    <2>8. QED
          BY <2>6, <2>7 DEF LoggedOnce, BlocksOf
  <1>3. ASSUME NEW batch \in appends, WriteBatch(batch) \/ WriteFails(batch)
        PROVE  LoggedOnce'
    <2>1. /\ appends' = appends \ {batch} /\ noted' = noted
          BY <1>3 DEF WriteBatch, WriteFails
    <2>2. /\ written' \cup dropped' = written \cup dropped \cup BlocksOf(batch)
          /\ written' \cap dropped' = {}
      <3>1. /\ BlocksOf(batch) \cap (written \cup dropped) = {}
            /\ written \cap dropped = {}
            BY DEF LoggedOnce, Waiting
      <3>2. CASE WriteBatch(batch)
            BY <3>1, <3>2 DEF WriteBatch
      <3>3. CASE WriteFails(batch)
        <4>1. PICK n \in BlocksOf(batch) :
                 /\ written' = written \cup {b \in BlocksOf(batch) : b > n}
                 /\ dropped' = dropped \cup {b \in BlocksOf(batch) : b <= n}
              BY <3>3 DEF WriteFails
        <4>2. BlocksOf(batch) \subseteq Nat
              BY ChainAssumption DEF RecordsOK, BlocksOf, Record, Block
        <4>3. \A b \in BlocksOf(batch) : (b > n \/ b <= n) /\ ~(b > n /\ b <= n)
              BY <4>2
        <4>4. QED
              BY <3>1, <4>1, <4>3
      <3>4. QED
            BY <1>3, <3>2, <3>3
    <2>3. Waiting' = Waiting \ BlocksOf(batch)
      <3>1. \A s \in appends : s # batch => BlocksOf(s) \cap BlocksOf(batch) = {}
            BY DEF LoggedOnce
      <3>2. \A b : b \in Waiting <=> \E s \in appends : b \in BlocksOf(s)
            BY DEF Waiting
      <3>3. \A b : b \in Waiting' <=> \E s \in appends' : b \in BlocksOf(s)
            BY DEF Waiting, BlocksOf
      <3>4. \A b : b \in Waiting' <=> b \in Waiting /\ b \notin BlocksOf(batch)
            BY <2>1, <3>1, <3>2, <3>3
      <3>5. QED
            BY <3>4
    <2>4. BlocksOf(batch) \subseteq Waiting
          BY DEF Waiting
    <2>5. noted = Waiting \cup written \cup dropped /\ Waiting \cap (written \cup dropped) = {}
          BY DEF LoggedOnce
    <2>6. /\ noted' = Waiting' \cup written' \cup dropped'
          /\ Waiting' \cap (written' \cup dropped') = {}
          BY <2>1, <2>2, <2>3, <2>4, <2>5
    <2>7. \A s, t \in appends' : s # t => BlocksOf(s) \cap BlocksOf(t) = {}
          BY <2>1 DEF LoggedOnce
    <2>8. QED
          BY <2>2, <2>6, <2>7 DEF LoggedOnce, BlocksOf
  <1>4. CASE BlockIndexed \/ (\E b \in Block : RoundFiled(b)) \/ Collect
        BY <1>1, <1>4 DEF BlockIndexed, RoundFiled, Collect
  <1>5. QED
        BY <1>2, <1>3, <1>4 DEF BlocksStep

\* The records of a refresh, of the cache and on the way to the file keep their types.
LEMMA RecordsKeep ==
    ASSUME RecordsOK, BlocksStep
    PROVE  RecordsOK'
  <1>1. CASE Collect
    <2>1. UNCHANGED <<cached, appends>>
          BY <1>1 DEF Collect
    <2>2. PICK misser \in SUBSET {b \in Window : ~Have(b)} :
             collected' = {IF Have(b) THEN RecordOf(b) ELSE Fetched(b, misser) : b \in Window}
          BY <1>1 DEF Collect
    <2>3. ASSUME NEW b \in Window
          PROVE  (IF Have(b) THEN RecordOf(b) ELSE Fetched(b, misser)) \in Record
      <3>1. Have(b) => RecordOf(b) \in cached
            BY DEF Have, RecordOf
      <3>2. Fetched(b, misser) \in Record
            BY DEF Fetched, Record, Window
      <3>3. QED
            BY <3>1, <3>2 DEF RecordsOK
    <2>4. QED
          BY <2>1, <2>2, <2>3 DEF RecordsOK
  <1>2. CASE Apply
    <2>1. /\ collected' = {}
          /\ cached' \subseteq cached \cup {Marked(r) : r \in collected}
          /\ appends' \subseteq appends \cup {Fresh}
          BY <1>2 DEF Apply
    <2>2. {Marked(r) : r \in collected} \subseteq Record /\ Fresh \subseteq Record
          BY BlocksOfMarked DEF RecordsOK, Fresh
    <2>3. QED
          BY <2>1, <2>2 DEF RecordsOK
  <1>3. CASE \/ BlockIndexed \/ (\E b \in Block : RoundFiled(b))
             \/ \E batch \in appends : WriteBatch(batch) \/ WriteFails(batch)
    <2>1. UNCHANGED <<collected, cached>> /\ appends' \subseteq appends
          BY <1>3 DEF BlockIndexed, RoundFiled, WriteBatch, WriteFails
    <2>2. QED
          BY <2>1 DEF RecordsOK
  <1>4. QED
        BY <1>1, <1>2, <1>3 DEF BlocksStep

\* What is known of a block's coinbase is kept, and asked for when nothing is known.
LEMMA OwnersKeep ==
    ASSUME CollectedOK, BlocksStep
    PROVE  CollectedOK'
  <1>1. RecordsOK'
        BY RecordsKeep DEF CollectedOK
  <1>2. CASE Collect
    <2>1. PICK misser \in SUBSET {b \in Window : ~Have(b)} :
             /\ collected' = {IF Have(b) THEN RecordOf(b) ELSE Fetched(b, misser) : b \in Window}
             /\ missed' = missed \cup misser /\ cached' = cached
          BY <1>2 DEF Collect
    <2> DEFINE rec(b) == IF Have(b) THEN RecordOf(b) ELSE Fetched(b, misser)
    <2>2. ASSUME NEW b \in Window
          PROVE  rec(b).block = b /\ (~rec(b).coinbase => b \in missed')
      <3>1. CASE Have(b)
        <4>1. RecordOf(b) \in cached /\ RecordOf(b).block = b
              BY <3>1 DEF Have, RecordOf
        <4>2. QED
              BY <2>1, <3>1, <4>1 DEF CollectedOK, Owned
      <3>2. CASE ~Have(b)
            BY <2>1, <3>2 DEF Fetched
      <3>3. QED
            BY <3>1, <3>2
    <2>3. collected' = {rec(b) : b \in Window}
          BY <2>1
    <2> HIDE DEF rec
    <2>4. Owned(collected)'
          BY <2>2, <2>3 DEF Owned
    <2>5. Owned(cached)'
          BY <2>1 DEF CollectedOK, Owned
    <2>6. ASSUME NEW b \in Window, NEW t \in cached, rec(b).block = t.block
          PROVE  rec(b) = t
      <3>1. t.block = b
            BY <2>2, <2>6
      <3>2. Have(b)
            BY <3>1 DEF Have
      <3>3. RecordOf(b) \in cached /\ RecordOf(b).block = b
            BY <3>2 DEF Have, RecordOf
      <3>4. RecordOf(b) = t
            BY <3>1, <3>3 DEF CollectedOK, Owned
      <3>5. QED
            BY <3>2, <3>4 DEF rec
    <2>7. QED
          BY <1>1, <2>1, <2>3, <2>4, <2>5, <2>6 DEF CollectedOK
  <1>3. CASE Apply
    <2>1. /\ collected' = {} /\ missed' = missed
          /\ cached' = {r \in cached : r.block \notin BlocksOf(collected)}
                          \cup {Marked(r) : r \in collected}
          BY <1>3 DEF Apply
    <2>2. \A r \in collected : Marked(r).block = r.block /\ Marked(r).coinbase = r.coinbase
          BY BlocksOfMarked DEF CollectedOK, RecordsOK
    <2> DEFINE old == {r \in cached : r.block \notin BlocksOf(collected)}
               new == {Marked(r) : r \in collected}
    <2>3. \A r \in new : r.block \in BlocksOf(collected) /\ (~r.coinbase => r.block \in missed)
          BY <2>2 DEF BlocksOf, CollectedOK, Owned
    <2>4. \A r, t \in new : r.block = t.block => r = t
          BY <2>2 DEF CollectedOK, Owned
    <2>5. /\ \A r \in old : r.block \notin BlocksOf(collected)
          /\ \A r \in old : ~r.coinbase => r.block \in missed
          /\ \A r, t \in old : r.block = t.block => r = t
          BY DEF CollectedOK, Owned
    <2>6. cached' = old \cup new
          BY <2>1
    <2> HIDE DEF old, new
    <2>7. Owned(cached)'
          BY <2>1, <2>3, <2>4, <2>5, <2>6 DEF Owned
    <2>8. Owned(collected)'
          BY <2>1 DEF Owned
    <2>9. collected' = {}
          BY <2>1
    <2>10. QED
          BY <1>1, <2>7, <2>8, <2>9 DEF CollectedOK
  <1>4. CASE \/ BlockIndexed \/ (\E b \in Block : RoundFiled(b))
             \/ \E batch \in appends : WriteBatch(batch) \/ WriteFails(batch)
    <2>1. UNCHANGED <<collected, cached, missed>>
          BY <1>4 DEF BlockIndexed, RoundFiled, WriteBatch, WriteFails
    <2>2. QED
          BY <1>1, <2>1 DEF CollectedOK, Owned
  <1>5. QED
        BY <1>2, <1>3, <1>4 DEF BlocksStep

\* What is shown of a block stays.
LEMMA ShownStays ==
    ASSUME CollectedOK, BlocksStep, NEW r \in cached
    PROVE  \E t \in cached' :
              t.block = r.block /\ (r.coinbase => t.coinbase) /\ (r.round => t.round)
  <1>1. CASE Apply
    <2>1. cached' = {s \in cached : s.block \notin BlocksOf(collected)}
                       \cup {Marked(s) : s \in collected}
          BY <1>1 DEF Apply
    <2>2. CASE r.block \in BlocksOf(collected)
      <3>1. r \in collected
            BY <2>2 DEF BlocksOf, CollectedOK
      <3>2. Marked(r).block = r.block /\ Marked(r).coinbase = r.coinbase
            BY <3>1, BlocksOfMarked DEF CollectedOK, RecordsOK
      <3>3. r.round => Marked(r).round
            BY <3>1 DEF CollectedOK, RecordsOK, Record, Marked
      <3>4. QED
            BY <2>1, <3>1, <3>2, <3>3
    <2>3. CASE r.block \notin BlocksOf(collected)
          BY <2>1, <2>3
    <2>4. QED
          BY <2>2, <2>3
  <1>2. CASE ~Apply
    <2>1. cached' = cached
          BY <1>2 DEF BlocksStep, BlockIndexed, RoundFiled, Collect, WriteBatch, WriteFails
    <2>2. QED
          BY <2>1
  <1>3. QED
        BY <1>1, <1>2

-----------------------------------------------------------------------------
(* The data directory.                                                      *)

IInv == SettingsOK /\ LoggedOnce /\ CollectedOK

\* Nothing is known, nothing is saved.
LEMMA Initially == Init => IInv
  <1> SUFFICES ASSUME Init PROVE IInv
      OBVIOUS
  <1>1. /\ settings = Configured /\ settingsFile = None /\ adrift = FALSE /\ faults = 0
        /\ saving = [a \in Admin |-> None]
        BY DEF Init, SettingsInit
  <1>2. Configured \in Loadable /\ Configured \in Settings
        BY ConfiguredAssumption, LoadableTypes
  <1>3. [a \in Admin |-> None] \in [Admin -> Settings \cup {None}]
        OBVIOUS
  <1>4. SettingsTypeOK
        BY <1>1, <1>2, <1>3 DEF SettingsTypeOK
  <1>5. SettingsOK
        BY <1>1, <1>4 DEF SettingsOK, FileLoads, KeptOK, Idle, Loaded
  <1>6. LoggedOnce /\ CollectedOK
        BY DEF Init, ChainInit, LoggedOnce, Waiting, CollectedOK, RecordsOK, Owned
  <1>7. QED
        BY <1>5, <1>6 DEF IInv

\* Every step keeps the invariant.
LEMMA Inductive == IInv /\ [Next]_vars => IInv'
  <1> SUFFICES ASSUME IInv, [Next]_vars PROVE IInv'
      OBVIOUS
  <1>0. SettingsOK /\ LoggedOnce /\ CollectedOK /\ RecordsOK
        BY DEF IInv, CollectedOK
  <1>1. ASSUME UNCHANGED chainVars PROVE LoggedOnce' /\ CollectedOK'
        BY <1>0, <1>1 DEF chainVars, LoggedOnce, Waiting, BlocksOf, CollectedOK, RecordsOK, Owned
  <1>2. ASSUME UNCHANGED <<settingsVars, faults>> PROVE SettingsOK'
    <2>1. UNCHANGED <<settings, settingsFile, saving, adrift, faults>>
          BY <1>2 DEF settingsVars
    <2>2. SettingsTypeOK'
          BY <1>0, <2>1 DEF SettingsOK, SettingsTypeOK
    <2>3. KeptOK'
          BY <1>0, <2>1 DEF SettingsOK, KeptOK, Idle, Quiet, Loaded
    <2>4. QED
          BY <1>0, <2>1, <2>2, <2>3 DEF SettingsOK, FileLoads
  <1>3. CASE SettingsStep /\ UNCHANGED chainVars
        BY <1>0, <1>1, <1>3, SettingsKeep DEF IInv
  <1>4. CASE BlocksStep /\ UNCHANGED <<settingsVars, faults>>
        BY <1>0, <1>2, <1>4, LoggedOnceKeeps, OwnersKeep DEF IInv
  <1>5. CASE Restart
    <2>1. SettingsOK'
          BY <1>0, <1>5, SettingsLoad DEF Restart
    <2>2. /\ collected' = {} /\ cached' = {} /\ noted' = {} /\ appends' = {}
          /\ written' = {} /\ dropped' = {} /\ missed' = {}
          BY <1>5 DEF Restart, ForgetBlocks
    <2>3. LoggedOnce'
          BY <2>2 DEF LoggedOnce, Waiting
    <2>4. CollectedOK'
          BY <2>2 DEF CollectedOK, RecordsOK, Owned
    <2>5. QED
          BY <2>1, <2>3, <2>4 DEF IInv
  <1>6. CASE UNCHANGED vars
    <2>1. UNCHANGED chainVars /\ UNCHANGED <<settingsVars, faults>>
          BY <1>6 DEF vars
    <2>2. QED
          BY <1>1, <1>2, <2>1 DEF IInv
  <1>7. QED
        BY <1>3, <1>4, <1>5, <1>6 DEF Next

\* The invariant holds in every state of the program.
LEMMA Invariant == Spec => []IInv
  <1>1. QED
        BY Initially, Inductive, PTL DEF Spec

\* No settings file is ever written that a start would refuse.
THEOREM FileCanBeLoaded == Spec => []FileLoads
  <1>1. IInv => FileLoads
        BY DEF IInv, SettingsOK
  <1>2. QED
        BY <1>1, Invariant, PTL

\* What is in force after an update that was alone is in force after a restart.
THEOREM SettingsSurvive == Spec => []SettingsAreKept
  <1>1. IInv => SettingsAreKept
        BY DEF IInv, SettingsOK, KeptOK, SettingsAreKept
  <1>2. QED
        BY <1>1, Invariant, PTL

\* Every block is logged once in a run of the program, or dropped by a failed write.
THEOREM BlocksLoggedOnce == Spec => []LoggedOnce
  <1>1. IInv => LoggedOnce
        BY DEF IInv
  <1>2. QED
        BY <1>1, Invariant, PTL

\* A block is shown without its coinbase only if that could not be had the first time.
THEOREM OwnersAreKnown == Spec => []OwnerIsKnown
  <1>1. IInv => OwnerIsKnown
        BY DEF IInv, CollectedOK, Owned, OwnerIsKnown
  <1>2. QED
        BY <1>1, Invariant, PTL

\* Neither the coinbase nor the round of a block is taken back in a run of the program.
THEOREM ShownIsKept == Spec => NeverShowsLess
  <1>1. ASSUME IInv, [Next]_vars, cached' # {}, NEW r \in cached
        PROVE  \E t \in cached' :
                  t.block = r.block /\ (r.coinbase => t.coinbase) /\ (r.round => t.round)
    <2>1. CASE BlocksStep
          BY <1>1, <2>1, ShownStays DEF IInv
    <2>2. CASE SettingsStep /\ UNCHANGED chainVars
      <3>1. cached' = cached
            BY <2>2 DEF chainVars
      <3>2. QED
            BY <3>1
    <2>3. CASE Restart
          BY <1>1, <2>3 DEF Restart, ForgetBlocks
    <2>4. CASE UNCHANGED vars
      <3>1. cached' = cached
            BY <2>4 DEF vars, chainVars
      <3>2. QED
            BY <3>1
    <2>5. QED
          BY <1>1, <2>1, <2>2, <2>3, <2>4 DEF Next
  <1>2. IInv /\ [Next]_vars =>
           [cached' # {} => \A r \in cached : \E t \in cached' :
               t.block = r.block /\ (r.coinbase => t.coinbase) /\ (r.round => t.round)]_cached
        BY <1>1
  <1>3. QED
        BY <1>2, Invariant, PTL DEF Spec, NeverShowsLess
=============================================================================
