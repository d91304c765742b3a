------------------------------ MODULE Keyboard -------------------------------
(***************************************************************************)
(* device/keyboard.c and device/ioqueue.c: the keyboard's handler follows  *)
(* the modifier keys and puts characters into a ring, from which threads   *)
(* take them with ioq_getchar.  The handler and the queue's functions run  *)
(* with interrupts masked, so each is one step; what is hard is the order  *)
(* of bytes, wrap-arounds and sleeps.  A character is its number; which of *)
(* the two characters of its key it is is left out.  Of the grey keys the  *)
(* ones are modelled that the handler takes for a character, print screen  *)
(* and the keypad's slash; their fake shift codes are those of all.        *)
(***************************************************************************)
EXTENDS Integers, Sequences

CONSTANTS Keys,         \* keys of the keyboard: characters, grey, modifiers
          Readers,      \* threads that call ioq_getchar
          bufsize,      \* 64
          NULL,
          MaxTyped,     \* bound: characters accepted
          MaxWire       \* bound: bytes on their way

Modifiers == [shift |-> {"shift_l", "shift_r"}, ctrl |-> {"ctrl_l", "ctrl_r"},
              alt |-> {"alt_l", "alt_r"}]
Flags == DOMAIN Modifiers
ModifierKeys == UNION {Modifiers[f] : f \in Flags}

ASSUME KeyboardAssumption ==
    /\ Keys \subseteq {"char", "grey", "caps_lock"} \cup ModifierKeys
    /\ NULL \notin Readers
    /\ bufsize \in Nat \ {0, 1} /\ {MaxTyped, MaxWire} \subseteq Nat

VARIABLES down,         \* the keys held down
          fake,         \* the last shift code sent is a fake make code
          wire,         \* bytes the handler has not yet read
          status,       \* ctrl_status, shift_status, alt_status
          caps_lock_status, ext_scancode,
          head, tail, buf,
          consumer,     \* the waiting consumer, if it is on record
          queue_lock,   \* the queue's lock
          reader,       \* reader[r]: running, asleep in ioq_wait or in try_lock
          typed, got    \* the last character put into the ring, taken from it

keys == <<down, fake, wire>>
modes == <<status, caps_lock_status, ext_scancode>>
ring == <<head, tail, buf, consumer, queue_lock>>
keyboardVars == <<keys, modes, ring, reader, typed, got>>

\* The right ctrl and alt keys send 0xe0 and then the left one's code, a grey
\* key 0xe0 and the code of a character's key.
Extended == {"ctrl_r", "alt_r", "grey"}
Code(k) ==
    CASE k = "ctrl_r" -> "ctrl_l" [] k = "alt_r" -> "alt_l" [] k = "grey" -> "char"
      [] OTHER -> k
Codes == {Code(k) : k \in Keys} \cup {"shift_l"}
Bytes(kind, k) == (IF k \in Extended THEN << <<"prefix", "e0">> >> ELSE <<>>) \o << <<kind, Code(k)>> >>

KeyboardTypeOK ==
    /\ down \subseteq Keys
    /\ fake \in BOOLEAN
    /\ wire \in Seq({<<"prefix", "e0">>} \cup {"make", "break"} \X Codes)
    /\ status \in [Flags -> BOOLEAN]
    /\ caps_lock_status \in BOOLEAN /\ ext_scancode \in BOOLEAN
    /\ {head, tail} \subseteq 0 .. bufsize - 1
    /\ buf \in [0 .. bufsize - 1 -> 0 .. MaxTyped]
    /\ consumer \in Readers \cup {NULL} /\ queue_lock \in Readers \cup {NULL}
    /\ reader \in [Readers -> {"running", "asleep", "locked_out"}]
    /\ typed \in 0 .. MaxTyped /\ got \in 0 .. typed

\* ioqueue_init; nothing is pressed.
KeyboardInit ==
    /\ down = {} /\ fake = FALSE /\ wire = <<>>
    /\ status = [f \in Flags |-> FALSE]
    /\ caps_lock_status = FALSE /\ ext_scancode = FALSE
    /\ head = 0 /\ tail = 0 /\ buf = [i \in 0 .. bufsize - 1 |-> 0]
    /\ consumer = NULL /\ queue_lock = NULL
    /\ reader = [r \in Readers |-> "running"]
    /\ typed = 0 /\ got = 0

-----------------------------------------------------------------------------
(* The keyboard *)

Held(f) == Modifiers[f] \cap down # {}

\* The keyboard may put fake shift codes, 0xe0 and the left shift key's, before
\* a grey key's make code and take them back behind its break code: it makes up
\* a shift key where none is held, and releases the one that is.  Which keys,
\* which states of num lock and which keyboards do so is left open.
Fake(kind) == IF kind = "none" THEN <<>> ELSE << <<"prefix", "e0">>, <<kind, "shift_l">> >>
Before(k) == {"none"} \cup IF k # "grey" THEN {} ELSE {IF Held("shift") THEN "break" ELSE "make"}
Behind(k) == {"none"} \cup IF k # "grey" THEN {} ELSE {IF Held("shift") THEN "make" ELSE "break"}

Send(k, kind, bytes) ==
    /\ Len(wire \o bytes) <= MaxWire
    /\ wire' = wire \o bytes
    /\ fake' = (kind = "make" \/ (kind = "none" /\ fake /\ k \notin Modifiers["shift"]))
    /\ UNCHANGED <<modes, ring, reader, typed, got>>

\* A key goes down, or repeats while it is down.
Press(k) ==
    /\ down' = down \cup {k}
    /\ \E kind \in Before(k) : Send(k, kind, Fake(kind) \o Bytes("make", k))

Release(k) ==
    /\ k \in down /\ down' = down \ {k}
    /\ \E kind \in Behind(k) : Send(k, kind, Bytes("break", k) \o Fake(kind))

-----------------------------------------------------------------------------
(* The queue *)

next_pos(pos) == (pos + 1) % bufsize
ioq_full == tail - head = 1             \* not when head is the last slot and tail 0
ioq_empty == head = tail

\* ioq_setchar in a ring that is not full: the waiting consumer, if there is
\* one on record, is woken.
ioq_setchar ==
    /\ typed' = typed + 1
    /\ buf' = [buf EXCEPT ![head] = typed']
    /\ head' = next_pos(head)
    /\ consumer' = NULL
    /\ reader' = IF consumer = NULL THEN reader ELSE [reader EXCEPT ![consumer] = "running"]
    /\ UNCHANGED <<tail, queue_lock, got>>

\* ioq_wait compares instead of assigning: the sleeper is not recorded, and
\* sleeps with the lock.
ioq_wait(r) ==
    /\ queue_lock' = r
    /\ reader' = [reader EXCEPT ![r] = "asleep"]
    /\ UNCHANGED <<head, tail, buf, consumer, got>>

\* Mutant: the tail moves before the character is read.
TakeLate == tail' = next_pos(tail) /\ got' = buf[tail']

Take == got' = buf[tail] /\ tail' = next_pos(tail)

ioq_getchar(r) ==
    /\ reader[r] = "running"
    /\ IF ~ioq_empty
       THEN Take /\ UNCHANGED <<head, buf, consumer, queue_lock, reader>>
       ELSE IF queue_lock = NULL THEN ioq_wait(r)
       ELSE reader' = [reader EXCEPT ![r] = "locked_out"] /\ UNCHANGED <<ring, got>>
    /\ UNCHANGED <<keys, modes, typed>>

-----------------------------------------------------------------------------
(* The handler *)

Byte(b) == wire # <<>> /\ Head(wire) = b /\ wire' = Tail(wire) /\ UNCHANGED <<down, fake>>
FlagOf(code) == CHOOSE f \in Flags : code \in Modifiers[f]
QueueUnchanged == UNCHANGED <<ring, reader, typed, got>>

Prefix == Byte(<<"prefix", "e0">>) /\ ext_scancode' = TRUE
          /\ UNCHANGED <<status, caps_lock_status>> /\ QueueUnchanged

\* Mutant: the break code of the right shift key is not known.
BreakLeftOnly(code) ==
    /\ Byte(<<"break", code>>)
    /\ status' = IF code \in ModifierKeys \ {"shift_r"}
                 THEN [status EXCEPT ![FlagOf(code)] = FALSE] ELSE status
    /\ UNCHANGED <<caps_lock_status, ext_scancode>> /\ QueueUnchanged

Break(code) ==
    /\ Byte(<<"break", code>>)
    /\ status' = IF code \in ModifierKeys
                 THEN [status EXCEPT ![FlagOf(code)] = FALSE] ELSE status
    /\ UNCHANGED <<caps_lock_status, ext_scancode>> /\ QueueUnchanged

\* A character is dropped when the ring is full.
MakeChar ==
    /\ typed < MaxTyped
    /\ Byte(<<"make", "char">>)
    /\ IF ioq_full THEN QueueUnchanged ELSE ioq_setchar
    /\ UNCHANGED modes

MakeModifier(code) ==
    /\ code \in ModifierKeys
    /\ Byte(<<"make", code>>)
    /\ status' = [status EXCEPT ![FlagOf(code)] = TRUE]
    /\ UNCHANGED <<caps_lock_status, ext_scancode>> /\ QueueUnchanged

MakeCaps ==
    /\ Byte(<<"make", "caps_lock">>)
    /\ caps_lock_status' = ~caps_lock_status
    /\ UNCHANGED <<status, ext_scancode>> /\ QueueUnchanged

intr_keyboard_handler ==
    \/ Prefix \/ MakeChar \/ MakeCaps
    \/ \E code \in Codes : Break(code) \/ MakeModifier(code)

KeyboardNext ==
    \/ \E k \in Keys : Press(k) \/ Release(k)
    \/ intr_keyboard_handler
    \/ \E r \in Readers : ioq_getchar(r)

KeyboardSpec == KeyboardInit /\ [][KeyboardNext]_keyboardVars

-----------------------------------------------------------------------------
(* Correctness *)

\* No modifier sticks: a flag is set only while a key of it is held, or the
\* byte that clears it is on its way, with both keys of a pair in any order.
\* The exception is shift, which the handler, having dropped the 0xe0, sets for
\* a fake make code with no shift key held (keyboard.c:119, 164); it stays set
\* until the next break code of shift, a fake one or not.
NoStuckModifier ==
    \A f \in Flags : status[f] =>
        \/ Held(f)
        \/ \E i \in 1 .. Len(wire) : wire[i] \in {"break"} \X Modifiers[f]
        \/ f = "shift" /\ fake

\* A reader gets the oldest character that is in the ring, and characters are
\* lost only where ioq_full misses a full ring: when the head wraps round to a
\* tail at 0, which turns the full ring into an empty one.
OldestFirst ==
    [][/\ tail' # tail => got' = typed + 1 - ((head - tail) % bufsize)
       /\ head' # head /\ head' = tail' => tail = 0]_keyboardVars
=============================================================================
