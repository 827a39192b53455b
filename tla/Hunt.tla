-------------------------------- MODULE Hunt ---------------------------------
(***************************************************************************)
(* Track B's job (track_b/hunt.py): every scan it judges the coins, keeps  *)
(* streaks and cooldowns in a state file, and opens, winds down and drops  *)
(* the books of params.  What a scan reads of a coin is a choice: the      *)
(* phase, what the rules read when an AI session overrode it, and a        *)
(* measured reason to leave; so is which engines report themselves flat.   *)
(* The state is written before params, and the job may die in between.     *)
(***************************************************************************)
EXTENDS Integers, FiniteSetsExt

CONSTANTS
  Coins,
  BookLimit,     \* hunt.max_books, or 1 without a pool
  Confirm,       \* hunt.confirm: scans before a risk is opened
  ExitConfirm,   \* hunt.exit_confirm: scans before a coin is left
  Runs,          \* hunt.ai_runs: how often the AI reads the same input
  MaxDeaths      \* bound: deaths between the two saves of a turn

ASSUME HuntAssumption ==
  /\ IsFiniteSet(Coins) /\ {BookLimit, Runs, ExitConfirm, Confirm} \subseteq Nat \ {0}
  /\ Confirm >= ExitConfirm /\ MaxDeaths \in Nat

VARIABLES
  books,     \* params: coin -> [side, leave], leave being "no", "gentle" or "fast"
  memory,    \* hunt-state.json
  torn,      \* coins the state gave up and params did not: the job died in between
  deaths

huntVars == <<books, memory, torn, deaths>>

Directions == {"long", "short"}
CoinPhases == {"markup", "markdown", "climax", "distribution"}

\* hunt-state.json: what is known of a held coin, the streaks, the cooldowns.
NoEpisode == [side |-> "", exit |-> "none"]
Blank ==
  [held    |-> [c \in Coins |-> NoEpisode],
   streak  |-> [c \in Coins |-> [d \in Directions |-> 0]],
   xstreak |-> [c \in Coins |-> 0],
   rstreak |-> [c \in Coins |-> 0],
   cool    |-> {}]

HuntInit ==
  /\ books = <<>> /\ memory = Blank /\ torn = {} /\ deaths = 0

HeldBooks == DOMAIN books
Winding(c) == books[c].leave # "no"
CountTo(n) == IF n > Confirm THEN Confirm ELSE n

----------------------------------------------------------------------------
(* What a scan reads.                                                      *)

\* ai_read: what a strict majority of the configured runs says, else what the
\* rules read.  A run that failed votes for nothing.
MajorityPhase(votes, det) ==
  LET most == {ph \in CoinPhases : 2 * Cardinality({n \in DOMAIN votes : votes[n] = ph}) > Runs}
  IN IF most = {} THEN det ELSE CHOOSE ph \in most : TRUE

\* Bound: the AI overrides the rules where they read climax.
Overrides == {MajorityPhase(votes, "climax") : votes \in [1..Runs -> CoinPhases \union {"failed"}]}

\* Unread: a row without a phase.  Missing: no row.
Unread == [phase |-> "unread", det |-> "unread", mark |-> "none"]
Missing == [phase |-> "missing", det |-> "missing", mark |-> "none"]
Readings ==
  {Unread, Missing}
  \union [phase : Overrides, det : {"climax"}, mark : {"none"}]
  \union [phase : {"markup"}, det : {"markup"}, mark : {"none", "still", "vol"}]
  \union [phase : {"markdown"}, det : {"markdown"}, mark : {"none"}]

\* Bound: a scan reads one coin in every way; the others are unread or plain.
Plain == {Unread, [phase |-> "markup", det |-> "markup", mark |-> "none"]}
Scans ==
  {rows \in [Coins -> Readings] : \E d \in Coins : \A c \in Coins \ {d} : rows[c] \in Plain}

DirectionOf(r) == IF r.phase = "markup" THEN "long" ELSE IF r.phase = "markdown" THEN "short" ELSE ""

\* flags_of: the toll, and a phase that names no side, keep a coin out.
IsEligible(r) == DirectionOf(r) # "" /\ r.mark = "none"

\* exit_flags: the measured reasons, then the phase against the side.
ExitFlags(r, side) ==
  ({r.mark} \ {"none"})
  \union (IF side = "long"
          THEN (IF r.phase = "distribution" THEN {"hold"}
                ELSE IF r.phase \in {"climax", "markdown"} THEN {"turn"} ELSE {})
          ELSE IF r.phase = "markup" THEN {"turn"} ELSE {})

\* ai_only: every flag hangs on the phase, and the rules read another one.
AiOnly(r, flags) == flags \subseteq {"turn", "hold"} /\ r.phase # r.det

\* A reason as _leave_coin and _illiquid take it: the episode is over, there is
\* nothing to sell into, or neither.
ReasonOf(flags) ==
  IF "vol" \in flags THEN "dead" ELSE IF flags \intersect {"still", "hold"} # {} THEN "soft" ELSE "turn"

LeavesCoin(reason) == reason = "dead"
Illiquid(reason) == reason \in {"dead", "soft"}

----------------------------------------------------------------------------
(* verdict                                                                 *)

\* A held coin that is no leaver: its side is known, its flags are counted.
EpisodeSide(c) == IF memory.held[c].side = "" THEN books[c].side ELSE memory.held[c].side
IsEvidence(c, r) == c \in HeldBooks /\ ~Winding(c) /\ r.phase \notin {"unread", "missing"}
FlagsOf(c, r) == IF IsEvidence(c, r) THEN ExitFlags(r, EpisodeSide(c)) ELSE {}

ExitStreak(c, r) ==
  IF ~IsEvidence(c, r) THEN memory.xstreak[c]
  ELSE IF FlagsOf(c, r) = {} THEN 0 ELSE CountTo(memory.xstreak[c] + 1)

ScansNeeded(r, flags) == IF AiOnly(r, flags) THEN Confirm ELSE ExitConfirm

IsWound(c, r) == FlagsOf(c, r) # {} /\ ExitStreak(c, r) >= ScansNeeded(r, FlagsOf(c, r))

\* A leaver that was seen and whose coin is not over, and whose read is back on its side.
MayReturn(c, r) ==
  c \in HeldBooks /\ Winding(c) /\ r.phase # "missing" /\ ~LeavesCoin(memory.held[c].exit)
ReadsBack(c, r) ==
  /\ DirectionOf(r) = books[c].side
  /\ ExitFlags(r, IF memory.held[c].side = "" THEN "short" ELSE memory.held[c].side) = {}

BackStreak(c, r) ==
  IF ~MayReturn(c, r) THEN memory.rstreak[c] ELSE IF ReadsBack(c, r) THEN memory.rstreak[c] + 1 ELSE 0
IsResumed(c, r) == MayReturn(c, r) /\ BackStreak(c, r) >= Confirm

ExitOf(c, r) == IF IsWound(c, r) THEN ReasonOf(FlagsOf(c, r)) ELSE memory.held[c].exit

Leaving(rows) ==
  {c \in HeldBooks : IF Winding(c) THEN ~IsResumed(c, rows[c]) ELSE IsWound(c, rows[c])}

\* A coin without a book, or a leaver whose episode goes on, on its other side.
IsFree(c, r, leaving) ==
  c \in HeldBooks => c \in leaving /\ ~LeavesCoin(ExitOf(c, r)) /\ DirectionOf(r) # books[c].side

\* A mutant: a cooldown keeps nothing out.
CandidatesWarm(rows, leaving) ==
  {c \in Coins : IsEligible(rows[c]) /\ IsFree(c, rows[c], leaving)}

Candidates(rows, leaving) ==
  {c \in Coins : IsEligible(rows[c]) /\ c \notin memory.cool /\ IsFree(c, rows[c], leaving)}

\* Every candidate counts its own scans; dropping out restarts it.
Streaks(rows, candidates) ==
  [c \in Coins |-> [d \in Directions |->
     IF c \in candidates /\ DirectionOf(rows[c]) = d THEN CountTo(memory.streak[c][d] + 1) ELSE 0]]

\* A leaver's place is its replacement's; which of the confirmed coins come first
\* is a choice.
Chosen(rows, leaving, streaks) ==
  LET confirmed == {c \in Coins : \E d \in Directions : streaks[c][d] >= Confirm}
      room == BookLimit - Cardinality(HeldBooks \ leaving)
  IN IF room >= Cardinality(confirmed) THEN {confirmed}
     ELSE IF room <= 0 THEN {{}} ELSE kSubset(room, confirmed)

----------------------------------------------------------------------------
(* apply                                                                   *)

\* A coin that has a book comes back only when that is flat, and not out of a cooldown.
Openable(chosen, rows, flats) ==
  {c \in chosen : c \in HeldBooks => c \in flats /\ ~LeavesCoin(ExitOf(c, rows[c]))}

\* A mutant: every flat leaver goes.
DroppableEvery(adds, flats) == {flats}

\* Flat leavers go; the last one stays when nothing would remain.
Droppable(adds, flats) ==
  IF flats = HeldBooks /\ adds = {} /\ flats # {} THEN {flats \ {c} : c \in flats} ELSE {flats}

\* A leaver sells into the next stall at any price, unless there is nothing to sell into.
LeaveOf(c, r) ==
  IF IsWound(c, r) THEN (IF Illiquid(ReasonOf(FlagsOf(c, r))) THEN "gentle" ELSE "fast")
  ELSE IF IsResumed(c, r) THEN "no" ELSE books[c].leave

BooksAfter(rows, new, kept) ==
  [c \in kept \union new |->
     IF c \in new THEN [side |-> DirectionOf(rows[c]), leave |-> "no"]
     ELSE [books[c] EXCEPT !.leave = LeaveOf(c, rows[c])]]

HeldAfter(c, r) ==
  [side |-> IF IsEvidence(c, r) THEN EpisodeSide(c) ELSE memory.held[c].side,
   exit |-> IF IsResumed(c, r) THEN "none" ELSE ExitOf(c, r)]

MemoryAfter(rows, streaks, new, gone) ==
  [held |-> [c \in Coins |->
     IF c \in new THEN [side |-> DirectionOf(rows[c]), exit |-> "none"]
     ELSE IF c \in gone THEN NoEpisode ELSE HeldAfter(c, rows[c])],
   streak |-> [c \in Coins |-> [d \in Directions |->
     IF c \in new /\ d = DirectionOf(rows[c]) THEN 0 ELSE streaks[c][d]]],
   xstreak |-> [c \in Coins |-> IF c \in gone \union new THEN 0 ELSE ExitStreak(c, rows[c])],
   rstreak |-> [c \in Coins |->
     IF c \in gone \union new \/ IsResumed(c, rows[c]) THEN 0 ELSE BackStreak(c, rows[c])],
   cool |-> memory.cool \union {c \in gone : LeavesCoin(ExitOf(c, rows[c]))}]

----------------------------------------------------------------------------
(* A turn of the job: the state is saved, then params.  One that only reports *)
(* (the scan failed, hunt is off, its configuration changed meanwhile, the    *)
(* selector lives) changes nothing.                                           *)

Outcomes(rows) ==
  LET leaving == Leaving(rows)
      streaks == Streaks(rows, Candidates(rows, leaving))
      Outcome(adds, gone) ==
        [books |-> BooksAfter(rows, adds \ (HeldBooks \ gone), HeldBooks \ gone),
         memory |-> MemoryAfter(rows, streaks, adds \ (HeldBooks \ gone), gone)]
      Results(adds, flats) == {Outcome(adds, gone) : gone \in Droppable(adds, flats)}
  IN UNION {UNION {Results(Openable(chosen, rows, flats), flats) : chosen \in Chosen(rows, leaving, streaks)}
            : flats \in SUBSET leaving}

Decisions == UNION {Outcomes(rows) : rows \in Scans}

Saves(after) ==
  /\ books' = after.books /\ torn' = torn \intersect DOMAIN after.books
  /\ UNCHANGED deaths

\* The state is on file, and the job dies before params are.
DiesInBetween(after) ==
  /\ deaths < MaxDeaths /\ deaths' = deaths + 1
  /\ torn' = torn \union (HeldBooks \ DOMAIN after.books)
  /\ UNCHANGED books

Turn ==
  \E after \in Decisions : memory' = after.memory /\ (Saves(after) \/ DiesInBetween(after))

CooldownEnds(c) ==
  /\ c \in memory.cool
  /\ memory' = [memory EXCEPT !.cool = @ \ {c}]
  /\ UNCHANGED <<books, torn, deaths>>

HuntNext == Turn \/ \E c \in Coins : CooldownEnds(c)

HuntSpec == HuntInit /\ [][HuntNext]_huntVars

----------------------------------------------------------------------------
(* Properties.                                                               *)

\* A coin whose episode ended has no book until its cooldown is over, whatever the
\* phase reads, flips and resumes in between; a death between the two saves may
\* leave the old book on file.
CoolingStaysOut == (memory.cool \ torn) \intersect HeldBooks = {}

\* A basket that has books never becomes empty (an empty one would put the whole
\* wallet on the common symbol), however its coins go flat and are replaced.
NeverEmpty == [][books # <<>> => books' # <<>>]_books

----------------------------------------------------------------------------
(* What the documentation says and the code does not keep.                   *)

\* "`pool` 0 keeps one book", and with a pool "up to `max_books`": the books that
\* are not being wound down.
ActiveLimit == Cardinality({c \in HeldBooks : ~Winding(c)}) <= BookLimit

\* "a quiet / dead leaver never resumes": who is sitting out is not traded again by
\* taking back that its book winds down.
DeadNeverResumes ==
  [][\A c \in HeldBooks \intersect memory.cool :
       Winding(c) /\ c \in DOMAIN books' => books'[c].leave # "no" \/ books'[c].side # books[c].side]_books
=============================================================================
