------------------------------ MODULE Graveyard ------------------------------
(***************************************************************************)
(* What the analysis derives from an arm's committed snapshots: the        *)
(* graveyard of what left it, the lineage of its summaries, and how near a *)
(* new memory comes to what the arm can no longer see.                     *)
(*                                                                         *)
(* A history is the sequence of an arm's snapshots, one per cycle.  Texts  *)
(* are left out: Likeness is the similarity of the texts of two memories,  *)
(* in hundredths, whose vectors the store keeps under the texts' digests.  *)
(***************************************************************************)
EXTENDS MemoryState, Sequences

CONSTANTS
  Likeness(_, _),    \* cosine similarity of two memories' texts
  ECHO_THRESHOLD     \* how much nearer to the forgotten than to the kept

NoSummary == [id |-> Never, parents |-> {}]

(* The record of the cycle that took an arm from memory s to memory t.  It *)
(* carries one summary, the last, however many the cycle wrote.            *)
ArmCycleSnapshot(s, t, cycle) ==
  LET fresh == {m \in Known(t) \ Known(s) : t.mem[m].kind = "summary"}
      admitted == Active(s) \cup {s.next}
  IN [cycle |-> cycle, before |-> Active(s), candidate |-> s.next,
      statistics |-> [m \in admitted |-> [kind |-> t.mem[m].kind, birth |-> t.mem[m].birth]],
      cited |-> {m \in Active(s) : t.mem[m].cited = cycle},
      summary |-> IF fresh = {} THEN NoSummary
                  ELSE [id |-> Max(fresh), parents |-> t.mem[Max(fresh)].parents],
      retired |-> [m \in admitted \ Active(t) |-> t.mem[m].status],
      after |-> Active(t), tokens |-> ActiveTokens(t)]

-----------------------------------------------------------------------------

(* Seeds are born at 0; anything else when a snapshot first tells.         *)
birth_cycle(h, m) ==
  LET tells(i) == m \in DOMAIN h[i].statistics \cup {h[i].candidate, h[i].summary.id}
      first == Min({i \in DOMAIN h : tells(i)})
  IN IF m \in h[1].before \/ \A i \in DOMAIN h : ~ tells(i) THEN 0
     ELSE IF m \in {h[first].candidate, h[first].summary.id} THEN h[first].cycle
     ELSE h[first].statistics[m].birth

citation_history(h, m) == {h[i].cycle : i \in {i \in DOMAIN h : m \in h[i].cited}}

\* Mutant: a memory cited again keeps the cycle of its first citation.
first_cited_cycle(h, m) ==
  IF citation_history(h, m) = {} THEN Never ELSE Min(citation_history(h, m))

last_cited_cycle(h, m) == Max(citation_history(h, m) \cup {Never})

summary_descendant(h, m) ==
  LET absorbing == {i \in DOMAIN h : m \in h[i].summary.parents}
  IN IF absorbing = {} THEN Never ELSE h[Max(absorbing)].summary.id

memory_type(h, m) ==
  LET told == {i \in DOMAIN h : m \in DOMAIN h[i].statistics}
  IN IF told = {} THEN "generated" ELSE h[Min(told)].statistics[m].kind

\* Mutant: it is lost after all once the summary has left the arm.
WhileTheSummaryLasts(h, i, m) ==
  [memory |-> m, kind |-> memory_type(h, m), birth |-> birth_cycle(h, m),
   retirement |-> h[i].cycle, status |-> h[i].retired[m],
   cited |-> last_cited_cycle(h, m), descendant |-> summary_descendant(h, m),
   genuinely_inaccessible |-> summary_descendant(h, m) \notin h[Len(h)].after]

(* What a summary absorbed is not lost, whatever became of the summary.    *)
GraveyardEntry(h, i, m) ==
  LET into == summary_descendant(h, m)
  IN [memory |-> m, kind |-> memory_type(h, m), birth |-> birth_cycle(h, m),
      retirement |-> h[i].cycle, status |-> h[i].retired[m],
      cited |-> last_cited_cycle(h, m), descendant |-> into,
      genuinely_inaccessible |-> into = Never]

build_graveyard(h) ==
  UNION {{GraveyardEntry(h, i, m) : m \in DOMAIN h[i].retired} : i \in DOMAIN h}

lineage_of(h, m) ==
  [parents |-> UNION {h[i].summary.parents : i \in {i \in DOMAIN h : h[i].summary.id = m}},
   children |-> {h[i].summary.id : i \in {i \in DOMAIN h : m \in h[i].summary.parents}}]

-----------------------------------------------------------------------------
(* Echoes. *)

\* The likeness of the nearest candidate, nothing being like the empty text.
Nearness(m, C) == IF C = {} THEN 0 ELSE Max({Likeness(m, c) : c \in C})
Nearest(m, C)  == {c \in C : Likeness(m, c) = Nearness(m, C)}

(* Below the threshold no model is asked; above it one reads both texts.   *)
classify_echo(delta, reference) ==
  CASE delta < ECHO_THRESHOLD \/ reference = {} ->
         IF delta <= 0 THEN "unrelated" ELSE "shared_motif_only"
    [] OTHER -> "ask the evaluator"

measure_echo(m, entries, active) ==
  LET forgotten == {e.memory : e \in {e \in entries : e.genuinely_inaccessible}}
      retained == {e.memory : e \in entries} \ forgotten
      available == active \ {m}
      delta == Nearness(m, forgotten) - Nearness(m, available)
  IN [delta |-> delta, nearest |-> Nearest(m, forgotten), beside |-> Nearest(m, available),
      category |-> IF retained # {} /\ Nearness(m, retained) > Nearness(m, forgotten)
                   THEN "compressed_echo"
                   ELSE classify_echo(delta, Nearest(m, forgotten))]

\* Mutant: the new memory is measured against what the arm holds today.
SeenToday(s, snapshot) == Active(s) \cap snapshot.before

\* What the arm could see when it wrote, whatever has left it since.
SeenThen(s, snapshot) == Known(s) \cap snapshot.before

(* One measurement per snapshot that had anything to echo: what had left   *)
(* in a strictly earlier cycle.                                            *)
Echoes(h, s) ==
  LET graveyard == build_graveyard(h)
      earlier(i) == {e \in graveyard : e.retirement < h[i].cycle}
  IN [i \in {i \in DOMAIN h : earlier(i) # {}} |->
        measure_echo(h[i].candidate, earlier(i), SeenThen(s, h[i]))]
=============================================================================
