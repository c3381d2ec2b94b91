------------------------------ MODULE Keyboard ------------------------------
(***************************************************************************)
(* The keyboard (kernel/drivers/keyboard.c).  The interrupt comes to CPU 0 *)
(* and its handler only tries kb_lock: when a reader on another CPU holds  *)
(* it the scan code is lost.  Readers are the shell on CPU 0, which looks  *)
(* again after every hlt, and user tasks on the other CPUs, in the system  *)
(* calls that call get_char and read_char.                                 *)
(***************************************************************************)
EXTENDS Integers, FiniteSets, Sequences

CONSTANTS CPU, BUFFER_SIZE,
          Code,     \* the scan codes that are typed
          MaxCodes  \* bound: how many

ASSUME KeyboardAssumption ==
  /\ 0 \in CPU /\ CPU \subseteq Nat
  /\ BUFFER_SIZE \in Nat /\ BUFFER_SIZE > 1 /\ MaxCodes \in Nat

ASSUME CodeAssumption ==
  Code \subseteq {"key", "key release", "shift", "shift release", "caps",
                  "prefix", "arrow"}

VARIABLES kb_lock,      \* the reader that holds it, Handler or Free
          scan_code, shift_pressed, caps_on, extended,
          key_buffer, buffer_head, buffer_tail,
          at,           \* where each CPU's get_char is
          char,         \* what it has read
          accepted,     \* history: the codes that were not lost
          count,        \* how many were typed
          stored,       \* history: the characters put into the buffer
          dropped,      \* history: those that found it full
          returned      \* history: what get_char returned, in order

keyVars == <<scan_code, shift_pressed, caps_on, extended, accepted>>
bufVars == <<key_buffer, buffer_head, buffer_tail, stored, dropped,
             returned>>
vars == <<kb_lock, keyVars, bufVars, at, char, count>>

(* Values of kb_lock that are no CPU.                                       *)
Free == -1
Handler == -2

Index == 0..BUFFER_SIZE - 1
NoChar == [n |-> 0, c |-> "none"]
-----------------------------------------------------------------------------
(* The interrupt.  Interrupts are off on CPU 0 inside get_char.            *)
KeyIsLost ==
  /\ count < MaxCodes
  /\ at[0] = "out"
  /\ kb_lock \in CPU
  /\ count' = count + 1
  /\ \E code \in Code : scan_code' = code
  /\ UNCHANGED <<kb_lock, shift_pressed, caps_on, extended, accepted, bufVars,
                 at, char>>

KeyIsTaken ==
  /\ count < MaxCodes
  /\ at[0] = "out"
  /\ kb_lock = Free
  /\ kb_lock' = Handler
  /\ count' = count + 1
  /\ \E code \in Code :
       scan_code' = code /\ accepted' = Append(accepted, code)
  /\ UNCHANGED <<shift_pressed, caps_on, extended, bufVars, at, char>>

After(i) == (i + 1) % BUFFER_SIZE

HasRoom == After(buffer_head) # buffer_tail

(* Put c into the buffer, unless it is full.                               *)
Push(c) ==
  LET e == [n |-> Len(accepted), c |-> c]
  IN  IF HasRoom
      THEN /\ key_buffer' = [key_buffer EXCEPT ![buffer_head] = e]
           /\ buffer_head' = After(buffer_head)
           /\ stored' = Append(stored, e)
           /\ UNCHANGED <<buffer_tail, dropped, returned>>
      ELSE /\ dropped' = dropped \cup {e.n}
           /\ UNCHANGED <<key_buffer, buffer_head, buffer_tail, stored,
                          returned>>

(* The rest of keyboard_handler, one branch each; all end by unlocking.    *)
Prefix ==
  /\ scan_code = "prefix"
  /\ extended' = TRUE
  /\ UNCHANGED <<shift_pressed, caps_on, bufVars>>

Extended_Kept ==
  /\ scan_code # "prefix" /\ extended
  /\ UNCHANGED <<extended, shift_pressed, caps_on>>
  /\ IF scan_code = "arrow" THEN Push("arrow") ELSE UNCHANGED bufVars

Extended ==
  /\ scan_code # "prefix" /\ extended
  /\ extended' = FALSE
  /\ IF scan_code = "arrow" THEN Push("arrow") ELSE UNCHANGED bufVars
  /\ UNCHANGED <<shift_pressed, caps_on>>

Modifier ==
  /\ ~extended
  /\ scan_code \in {"shift", "shift release", "caps"}
  /\ shift_pressed' = CASE scan_code = "shift" -> TRUE
                        [] scan_code = "shift release" -> FALSE
                        [] OTHER -> shift_pressed
  /\ caps_on' = (caps_on # (scan_code = "caps"))
  /\ UNCHANGED <<extended, bufVars>>

Plain ==
  /\ ~extended
  /\ scan_code \in {"key", "key release", "arrow"}
  /\ IF scan_code = "key"
     THEN Push(IF shift_pressed \/ caps_on THEN "K" ELSE "k")
     ELSE UNCHANGED bufVars
  /\ UNCHANGED <<shift_pressed, caps_on, extended>>

Unlocked_NotForPrefix == IF scan_code = "prefix" THEN kb_lock ELSE Free
Unlocked == Free

HandlerEnds ==
  /\ kb_lock = Handler
  /\ Prefix \/ Extended \/ Modifier \/ Plain
  /\ kb_lock' = Unlocked
  /\ UNCHANGED <<scan_code, accepted, at, char, count>>
-----------------------------------------------------------------------------
(* get_char on a CPU: lock with interrupts off,                            *)
Lock_Unheld(p) ==
  /\ at[p] = "out"
  /\ p = 0 => kb_lock # Handler
  /\ kb_lock' = p
  /\ at' = [at EXCEPT ![p] = "in"]
  /\ UNCHANGED <<keyVars, bufVars, char, count>>

Lock(p) ==
  /\ at[p] = "out"
  /\ kb_lock = Free
  /\ kb_lock' = p
  /\ at' = [at EXCEPT ![p] = "in"]
  /\ UNCHANGED <<keyVars, bufVars, char, count>>

(* read the oldest character,                                              *)
Read(p) ==
  /\ at[p] = "in"
  /\ buffer_head # buffer_tail
  /\ char' = [char EXCEPT ![p] = key_buffer[buffer_tail]]
  /\ at' = [at EXCEPT ![p] = "read"]
  /\ UNCHANGED <<kb_lock, keyVars, bufVars, count>>

(* advance, unlock and return it,                                          *)
Take(p) ==
  /\ at[p] = "read"
  /\ buffer_tail' = After(buffer_tail)
  /\ returned' = Append(returned, char[p])
  /\ char' = [char EXCEPT ![p] = NoChar]
  /\ at' = [at EXCEPT ![p] = "out"]
  /\ kb_lock' = Free
  /\ UNCHANGED <<keyVars, key_buffer, buffer_head, stored, dropped, count>>

(* or find nothing; read_char and read_char_any call it again.             *)
Nothing(p) ==
  /\ at[p] = "in"
  /\ buffer_head = buffer_tail
  /\ at' = [at EXCEPT ![p] = "out"]
  /\ kb_lock' = Free
  /\ UNCHANGED <<keyVars, bufVars, char, count>>

Init ==
  /\ kb_lock = Free
  /\ scan_code = "key"
  /\ shift_pressed = FALSE /\ caps_on = FALSE /\ extended = FALSE
  /\ key_buffer = [i \in Index |-> NoChar]
  /\ buffer_head = 0 /\ buffer_tail = 0
  /\ at = [p \in CPU |-> "out"]
  /\ char = [p \in CPU |-> NoChar]
  /\ accepted = <<>> /\ count = 0 /\ stored = <<>>
  /\ dropped = {} /\ returned = <<>>

Next ==
  \/ KeyIsLost \/ KeyIsTaken \/ HandlerEnds
  \/ \E p \in CPU : Lock(p) \/ Read(p) \/ Take(p) \/ Nothing(p)

(* The handler ends; a CPU inside get_char goes on.  The spinlock gives    *)
(* no turn to anyone in particular: only that some reader gets it.         *)
Fairness ==
  /\ WF_vars(HandlerEnds)
  /\ WF_vars(\E p \in CPU : Lock(p))
  /\ \A p \in CPU : WF_vars(Read(p) \/ Take(p) \/ Nothing(p))

Spec == Init /\ [][Next]_vars /\ Fairness
-----------------------------------------------------------------------------
(* The lock, the codes and both ends of the ring, which keyboard_handler   *)
(* and get_char advance, have their types.                                 *)
TypeOK ==
  /\ kb_lock \in CPU \cup {Free, Handler}
  /\ buffer_head \in Index /\ buffer_tail \in Index
  /\ at \in [CPU -> {"out", "in", "read"}]
  /\ scan_code \in Code \cup {"key"}
  /\ count \in 0..MaxCodes /\ Len(accepted) <= count

(* The second code of an extended key, in the history of codes.            *)
IsExtended(k) ==
  k > 1 /\ accepted[k - 1] = "prefix" /\ accepted[k] # "prefix"

(* The codes of one kind before code k that are keys of their own.         *)
Before(k, kinds) ==
  {j \in 1..k - 1 : accepted[j] \in kinds /\ ~IsExtended(j)}

Shifted(k) ==
  \E j \in Before(k, {"shift"}) :
    \A i \in Before(k, {"shift release"}) : i < j

Capital(k) == Shifted(k) \/ Cardinality(Before(k, {"caps"})) % 2 = 1

(* The character of code k, or "none".                                     *)
Decode(k) ==
  CASE accepted[k] = "arrow" /\ IsExtended(k) -> "arrow"
    [] accepted[k] = "key" /\ ~IsExtended(k) ->
         IF Capital(k) THEN "K" ELSE "k"
    [] OTHER -> "none"

Handled == 1..Len(accepted) - (IF kb_lock = Handler THEN 1 ELSE 0)

(* The handler stores for every code it was given the character that the   *)
(* whole sequence of codes before it determines, and drops one only when   *)
(* the buffer is full: no sequence of prefixes, modifiers and releases     *)
(* makes it forget or invent a key.                                        *)
Decoded ==
  /\ \A i \in 1..Len(stored) : stored[i].c = Decode(stored[i].n)
  /\ {k \in Handled : Decode(k) # "none"} =
       dropped \cup {stored[i].n : i \in 1..Len(stored)}

(* Readers on all CPUs together get the stored characters in order, each   *)
(* one once; what they have not got yet is in the buffer.                  *)
EachKeyOnce ==
  LET pending == (buffer_head - buffer_tail) % BUFFER_SIZE
  IN  /\ Len(stored) = Len(returned) + pending
      /\ \A i \in 1..Len(returned) : returned[i] = stored[i]
      /\ \A j \in 0..pending - 1 :
           key_buffer[(buffer_tail + j) % BUFFER_SIZE] =
             stored[Len(returned) + 1 + j]

(* Every stored character is read in the end: no path of the handler or of *)
(* get_char keeps kb_lock.                                                 *)
AllRead == <>[](buffer_head = buffer_tail)
=============================================================================
