------------------------------ MODULE Control ------------------------------
(***************************************************************************)
(* x86_control.c: calls, interrupts and returns over the program's stack,   *)
(* and what a return should find. The stack pointer is kept in a register   *)
(* of the generated code and passed from one to the next.                   *)
(***************************************************************************)
EXTENDS MemoryMap

(* A CPU is [cs, ip, ss, flags, memory, sp].                                *)
Push(cpu, word) ==
  LET sp == (cpu.sp - 2) % WordSize
  IN  [cpu EXCEPT !.sp = sp, !.memory = Write16Seg(@, cpu.ss, sp, word)]
Peek(cpu, depth) == Read16Seg(cpu.memory, cpu.ss, (cpu.sp + depth) % WordSize)
\* mutant of Released
ReleasedUnwrapped(cpu, bytes) == cpu.sp + bytes

Released(cpu, bytes) == (cpu.sp + bytes) % WordSize

(* D2E_X86_POPF_MASK keeps some of the flags, D2E_X86_FLAG_FIXED is always  *)
(* set: here bits 0 and 2, and bit 1.                                       *)
PoppedFlags(word) == (word % 2) + 2 + 4 * ((word \div 4) % 2)
WithFixed(word) == IF (word \div 2) % 2 = 1 THEN word ELSE word + 2

PushFlags(cpu) == Push(cpu, WithFixed(cpu.flags))
PopFlags(cpu) == [cpu EXCEPT !.flags = PoppedFlags(Peek(cpu, 0)), !.sp = Released(cpu, 2)]
PushNear(cpu, ip) == Push(cpu, ip)
PushFar(cpu, cs, ip) == Push(Push(cpu, cs), ip)
CallNear(cpu, back, ip) == [PushNear(cpu, back) EXCEPT !.ip = ip]
CallFar(cpu, back, cs, ip) == [PushFar(cpu, cpu.cs, back) EXCEPT !.cs = cs, !.ip = ip]

ReturnNear(cpu, cleanup) == [cpu EXCEPT !.ip = Peek(cpu, 0), !.sp = Released(cpu, 2 + cleanup)]
ReturnFar(cpu, cleanup) ==
  [cpu EXCEPT !.ip = Peek(cpu, 0), !.cs = Peek(cpu, 2), !.sp = Released(cpu, 4 + cleanup)]
Iret(cpu) ==
  [cpu EXCEPT !.ip = Peek(cpu, 0), !.cs = Peek(cpu, 2), !.flags = PoppedFlags(Peek(cpu, 4)),
              !.sp = Released(cpu, 6)]

(* An interrupt of the generated code pushes the flags and a far return.    *)
Interrupt(cpu, back, cs, ip) ==
  [PushFar(PushFlags(cpu), cpu.cs, back) EXCEPT !.cs = cs, !.ip = ip]

----------------------------------------------------------------------------
(* Calls inside one another, each to somewhere else, returning in turn. A   *)
(* call is <<kind, back, cs, ip>>.                                          *)
Enter(cpu, call) ==
  CASE call[1] = "near" -> CallNear(cpu, call[2], call[4])
    [] call[1] = "far" -> CallFar(cpu, call[2], call[3], call[4])
    [] call[1] = "int" -> Interrupt(cpu, call[2], call[3], call[4])
    [] call[1] = "flags" -> PushFlags(cpu)
Leave(cpu, call) ==
  CASE call[1] = "near" -> ReturnNear(cpu, 0)
    [] call[1] = "far" -> ReturnFar(cpu, 0)
    [] call[1] = "int" -> Iret(cpu)
    [] call[1] = "flags" -> PopFlags(cpu)
Depth(kind) == CASE kind \in {"near", "flags"} -> 2 [] kind = "far" -> 4 [] kind = "int" -> 6

(* A return goes where its call said, with segment, flags and stack as      *)
(* before the call, and no byte is written but those the call took from the *)
(* stack, around the end of its segment.                                    *)
ReturnsRight(cpu, call, inner, got) ==
  LET bytes == Depth(call[1]) + Depth(inner[1])
      written == {Linear(cpu.ss, (cpu.sp - k) % WordSize) : k \in 1..bytes}
  IN  /\ got.ip = IF call[1] = "flags" THEN (IF inner[1] = "flags" THEN cpu.ip ELSE inner[2]) ELSE call[2]
      /\ got.cs = cpu.cs /\ got.ss = cpu.ss /\ got.sp = cpu.sp /\ got.flags = cpu.flags
      /\ ~got.memory.stopped
      /\ \A a \in 0..MemorySize - 1 : a \notin written => Read8(got.memory, a) = Read8(cpu.memory, a)

CallAndReturn(cpu, call, inner) == Leave(Leave(Enter(Enter(cpu, call), inner), inner), call)
=============================================================================
