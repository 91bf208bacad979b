------------------------------ MODULE LineInput ------------------------------
(***************************************************************************)
(* From the keyboard to the reader: keyboard_interrupt_handler and         *)
(* buf_clear (keyboard.c), term_read, term_save and term_restore           *)
(* (terminal.c), and the buf_clear of halt (system_call.c).                *)
(*                                                                         *)
(* There is one key buffer, that of the displayed terminal; a switch of    *)
(* terminals swaps its content. term_read turns interrupts on and goes     *)
(* through the buffer character by character, so a key or a tick may come  *)
(* between any two of its steps; the handlers themselves are one step.     *)
(*                                                                         *)
(* One process per terminal stands for whichever is the newest there: it   *)
(* calls read, returns, ends, and another one takes its place.             *)
(***************************************************************************)
EXTENDS Integers, Sequences

CONSTANTS
  TERM_MAX,     \* number of terminals
  KEY_BUF_MAX,  \* size of the key buffer (128 in the kernel)
  Keys,         \* the characters of the keyboard
  NL, NUL,      \* '\n' and '\0'
  Lengths       \* the lengths a program may pass to read

ASSUME KeysAssumption ==
  /\ TERM_MAX \in Nat \ {0}
  /\ KEY_BUF_MAX \in Nat \ {0}
  /\ NL # NUL
  /\ NL \notin Keys
  /\ NUL \notin Keys
  /\ Lengths \subseteq Nat

Terms == 0 .. TERM_MAX - 1
Places == 0 .. KEY_BUF_MAX - 1
Chars == Keys \cup {NL, NUL}
Empty == [i \in Places |-> NUL]

VARIABLES
  cur_term_id,   \* the terminal on the screen
  now_term_id,   \* the terminal whose process has the CPU
  key_buf,       \* the characters typed
  key_buf_idx,   \* where the next one goes
  term,          \* term[t]: the key_buf and key_buf_idx saved, the enter_state
  at,            \* at[t]: where in term_read t's process is, "user" outside
  idx,           \* idx[t]: its loop variable i
  length,        \* length[t]: the length it asked for
  got            \* got[t]: the characters it has copied

keyVars    == <<key_buf, key_buf_idx>>
readerVars == <<at, idx, length, got>>
vars == <<cur_term_id, now_term_id, keyVars, term, readerVars>>

Init ==
  /\ cur_term_id = 0
  /\ now_term_id = 0
  /\ key_buf = Empty
  /\ key_buf_idx = 0
  /\ term = [t \in Terms |-> [key_buf |-> Empty, key_buf_idx |-> 0, enter_state |-> 0]]
  /\ at = [t \in Terms |-> "user"]
  /\ idx = [t \in Terms |-> 0]
  /\ length = [t \in Terms |-> 0]
  /\ got = [t \in Terms |-> <<>>]

\* buf_clear with interrupts off.
buf_clear ==
  /\ key_buf' = Empty
  /\ key_buf_idx' = 0

-----------------------------------------------------------------------------
(* Keys *)

RoomForOneMore == key_buf_idx <= KEY_BUF_MAX          \* mutant

\* The last place of the buffer is kept for Enter.
HasRoom == key_buf_idx < KEY_BUF_MAX - 1

Put(k) ==
  /\ key_buf' = [key_buf EXCEPT ![key_buf_idx] = k]
  /\ key_buf_idx' = key_buf_idx + 1

Type(k) ==
  /\ HasRoom
  /\ Put(k)
  /\ UNCHANGED <<cur_term_id, now_term_id, term, readerVars>>

Enter ==
  /\ key_buf_idx < KEY_BUF_MAX
  /\ Put(NL)
  /\ term' = [term EXCEPT ![cur_term_id].enter_state = 1]
  /\ UNCHANGED <<cur_term_id, now_term_id, readerVars>>

ErasedBehind == [key_buf EXCEPT ![key_buf_idx] = NUL] \* mutant
Erased == [key_buf EXCEPT ![key_buf_idx - 1] = NUL]

Backspace ==
  /\ key_buf_idx > 0
  /\ key_buf_idx' = key_buf_idx - 1
  /\ key_buf' = Erased
  /\ UNCHANGED <<cur_term_id, now_term_id, term, readerVars>>

SavedText(t) == [term EXCEPT ![t].key_buf = key_buf]   \* mutant
SavedAnew(t) ==                                        \* mutant
  [term EXCEPT ![t] = [key_buf |-> key_buf, key_buf_idx |-> key_buf_idx,
                       enter_state |-> 0]]

\* term_save.
Saved(t) == [term EXCEPT ![t].key_buf = key_buf, ![t].key_buf_idx = key_buf_idx]

\* Alt+Fn: term_switch(cur_term_id, n), term_save and then term_restore. What
\* stays behind in term[n] is never read, and is forgotten.
AltF(n) ==
  LET saved == Saved(cur_term_id) IN
  /\ key_buf' = saved[n].key_buf
  /\ key_buf_idx' = saved[n].key_buf_idx
  /\ term' = [saved EXCEPT ![n].key_buf = Empty, ![n].key_buf_idx = 0]
  /\ cur_term_id' = n
  /\ UNCHANGED <<now_term_id, readerVars>>

\* The process of terminal t ends inside or outside term_read; its parent is
\* in user mode, behind execute.
Ends(t) ==
  /\ at' = [at EXCEPT ![t] = "user"]
  /\ idx' = [idx EXCEPT ![t] = 0]
  /\ length' = [length EXCEPT ![t] = 0]
  /\ got' = [got EXCEPT ![t] = <<>>]

\* Ctrl+C: buf_clear, and halt(1) for the process that has the CPU.
CtrlC ==
  /\ buf_clear
  /\ Ends(now_term_id)
  /\ UNCHANGED <<cur_term_id, now_term_id, term>>

-----------------------------------------------------------------------------
(* The process that has the CPU *)

\* The timer: the next terminal's process goes on.
Tick ==
  /\ now_term_id' = (now_term_id + 1) % TERM_MAX
  /\ UNCHANGED <<cur_term_id, keyVars, term, readerVars>>

\* It exits: halt clears the key buffer.
Halt ==
  /\ at[now_term_id] = "user"
  /\ buf_clear
  /\ Ends(now_term_id)
  /\ UNCHANGED <<cur_term_id, now_term_id, term>>

\* It calls read on stdin with a buffer.
Read ==
  LET t == now_term_id IN
  /\ at[t] = "user"
  /\ at' = [at EXCEPT ![t] = "wait"]
  /\ length' \in {[length EXCEPT ![t] = n] : n \in Lengths}
  /\ UNCHANGED <<cur_term_id, now_term_id, keyVars, term, idx, got>>

\* while(term[now_term_id].enter_state==0);
Wait(t) ==
  /\ at[t] = "wait"
  /\ term[t].enter_state # 0
  /\ at' = [at EXCEPT ![t] = "reset"]
  /\ UNCHANGED <<keyVars, term, idx, length, got>>

\* term[now_term_id].enter_state=0;
Reset(t) ==
  /\ at[t] = "reset"
  /\ term' = [term EXCEPT ![t].enter_state = 0]
  /\ at' = [at EXCEPT ![t] = "copy"]
  /\ UNCHANGED <<keyVars, idx, length, got>>

More(t) ==
  /\ idx[t] < KEY_BUF_MAX
  /\ idx[t] < length[t]
  /\ key_buf[idx[t]] # NUL

\* One turn of the copy loop.
Copy(t) ==
  /\ at[t] = "copy"
  /\ More(t)
  /\ got' = [got EXCEPT ![t] = Append(@, key_buf[idx[t]])]
  /\ idx' = [idx EXCEPT ![t] = @ + 1]
  /\ UNCHANGED <<keyVars, term, at, length>>

\* The text copied, got[t], is the result; nothing changes it any more.
Copied(t) ==
  /\ at[t] = "copy"
  /\ ~More(t)
  /\ idx' = [idx EXCEPT ![t] = 0]
  /\ length' = [length EXCEPT ![t] = 0]
  /\ got' = [got EXCEPT ![t] = <<>>]
  /\ at' = [at EXCEPT ![t] = "clear"]
  /\ UNCHANGED <<keyVars, term>>

\* One turn of the loop of buf_clear.
Clear(t) ==
  /\ at[t] = "clear"
  /\ idx[t] < KEY_BUF_MAX
  /\ key_buf' = [key_buf EXCEPT ![idx[t]] = NUL]
  /\ idx' = [idx EXCEPT ![t] = @ + 1]
  /\ UNCHANGED <<key_buf_idx, term, at, length, got>>

\* The end of buf_clear, and the return.
Return(t) ==
  /\ at[t] = "clear"
  /\ idx[t] = KEY_BUF_MAX
  /\ key_buf_idx' = 0
  /\ at' = [at EXCEPT ![t] = "user"]
  /\ idx' = [idx EXCEPT ![t] = 0]
  /\ UNCHANGED <<key_buf, term, length, got>>

\* A step of term_read by terminal t's process.
ReaderStep(t) ==
  /\ now_term_id = t
  /\ Wait(t) \/ Reset(t) \/ Copy(t) \/ Copied(t) \/ Clear(t) \/ Return(t)
  /\ UNCHANGED <<cur_term_id, now_term_id>>

Next ==
  \/ Tick
  \/ Halt
  \/ Read
  \/ \E t \in Terms : ReaderStep(t)
  \/ \E k \in Keys : Type(k)
  \/ Enter
  \/ Backspace
  \/ CtrlC
  \/ \E n \in Terms : AltF(n)

Spec == Init /\ [][Next]_vars

\* The PIT never stops, and a slice is long enough for a process to get on.
Fairness == WF_vars(Tick) /\ \A t \in Terms : SF_vars(ReaderStep(t))

FairSpec == Spec /\ Fairness

(***************************************************************************)
(* An operator who types into a terminal only while its process waits for  *)
(* a line, and leaves the keyboard alone from Enter until the line is read.*)
(* Programs end only while nothing is typed on the screen.                 *)
(***************************************************************************)
Settled == \A t \in Terms : at[t] \in {"user", "wait"} /\ term[t].enter_state = 0
Quiet == Settled /\ at[cur_term_id] = "wait"

AttendedNext ==
  \/ Tick
  \/ key_buf_idx = 0 /\ Halt
  \/ Read
  \/ \E t \in Terms : ReaderStep(t)
  \/ \E k \in Keys : Quiet /\ Type(k)
  \/ Quiet /\ Enter
  \/ Quiet /\ Backspace
  \/ Settled /\ CtrlC
  \/ \E n \in Terms : Settled /\ AltF(n)

AttendedSpec == Init /\ [][AttendedNext]_vars

-----------------------------------------------------------------------------
(* Properties of every behaviour *)

\* The type of the state: no index of the key buffer or of a saved one leaves
\* it, whatever comes between two steps of the readers.
TypeOK ==
  /\ cur_term_id \in Terms
  /\ now_term_id \in Terms
  /\ key_buf \in [Places -> Chars]
  /\ key_buf_idx \in 0 .. KEY_BUF_MAX
  /\ term \in [Terms -> [key_buf : [Places -> Chars],
                        key_buf_idx : 0 .. KEY_BUF_MAX,
                        enter_state : {0, 1}]]
  /\ at \in [Terms -> {"user", "wait", "reset", "copy", "clear"}]
  /\ idx \in [Terms -> 0 .. KEY_BUF_MAX]
  /\ length \in [Terms -> Lengths \cup {0}]
  /\ \A t \in Terms : Len(got[t]) = IF at[t] = "copy" THEN idx[t] ELSE 0

\* No Enter is lost on a reader: one that waits in a terminal where Enter was
\* pressed returns, also when the terminal leaves the screen before that.
EnterWakesReader ==
  \A t \in Terms :
    (at[t] = "wait" /\ term[t].enter_state = 1) ~> (at[t] = "user")

-----------------------------------------------------------------------------
(* Properties of the attended keyboard *)

\* term_read stops at a NUL and the keyboard handler counts: in the buffer on
\* the screen and in every saved one the text is exactly what lies below the
\* index, except while a reader clears it.
IsText(buf, n) == \A i \in Places : buf[i] = NUL <=> i >= n

BuffersAreText ==
  /\ \/ \E t \in Terms : at[t] = "clear"
     \/ IsText(key_buf, key_buf_idx)
  /\ \A t \in Terms \ {cur_term_id} : IsText(term[t].key_buf, term[t].key_buf_idx)

=============================================================================
