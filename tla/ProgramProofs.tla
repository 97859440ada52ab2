---------------------------- MODULE ProgramProofs ---------------------------
(***************************************************************************)
(* Proofs about what a program relies on. Memory, for every size of the    *)
(* array, of a page, of the video window and of the address space, and any *)
(* number of pages; FlagLiveness, for every program; the arithmetic of     *)
(* bytes and words; the table of blocks, for every length; and calls and   *)
(* returns over the stack, for every size of memory.                       *)
(***************************************************************************)
EXTENDS Memory, FlagLiveness, AluReference, BlockTable, FiniteSetTheorems,
        Induction, TLAPS

-----------------------------------------------------------------------------
(* Addresses and words.                                                    *)

LEMMA SplitBytes ==
  ASSUME NEW x \in Nat, NEW d \in Nat, d > 0, NEW n \in Nat, x < d * n
  PROVE  x \div d \in 0..(n - 1) /\ x % d \in 0..(d - 1)
  OBVIOUS

LEMMA SplitUnique ==
  ASSUME NEW x \in Nat, NEW y \in Nat, NEW d \in Nat, d > 0,
         x \div d = y \div d, x % d = y % d
  PROVE  x = y
  OBVIOUS

LEMMA ModSmall ==
  ASSUME NEW x \in Nat, NEW d \in Nat, x < d
  PROVE  x % d = x
  OBVIOUS

LEMMA ModRange ==
  ASSUME NEW x \in Int, NEW d \in Nat, d > 0
  PROVE  x % d \in 0..(d - 1)
  OBVIOUS

LEMMA ModUnique ==
  ASSUME NEW x \in Int, NEW d \in Nat, NEW q \in Int, NEW r \in Nat, r < d, x = d * q + r
  PROVE  x % d = r
  OBVIOUS

LEMMA ModParts ==
  ASSUME NEW x \in Int, NEW d \in Nat, d > 0
  PROVE  x \div d \in Int /\ x % d \in Nat /\ x % d < d /\ x = d * (x \div d) + (x % d)
<1>1. x = d * (x \div d) + (x % d)
  BY Z3
<1> QED
  BY <1>1

LEMMA ModShift ==
  ASSUME NEW x \in Int, NEW k \in Int, NEW d \in Nat, d > 0
  PROVE  ((x % d) + k) % d = (x + k) % d
<1>1. PICK q \in Int, r \in Nat : r = x % d /\ r < d /\ x = d * q + r
  BY ModParts
<1>2. PICK p \in Int, s \in Nat : s = (r + k) % d /\ s < d /\ r + k = d * p + s
  BY ModParts
<1>3. d * q + d * p = d * (q + p)
  OBVIOUS
<1>4. PICK t \in Int, y \in Int : t = q + p /\ y = x + k
  OBVIOUS
<1>5. y = d * t + s
  BY <1>1, <1>2, <1>3, <1>4
<1>6. y % d = s
  BY <1>2, <1>5, ModUnique
<1> QED
  BY <1>1, <1>2, <1>4, <1>6

\* What the constants are to each other.
LEMMA Sizes ==
  /\ ByteSize \in Nat /\ ByteSize > 1 /\ Paragraph \in Nat
  /\ WordSize \in Nat /\ WordSize > 1
  /\ AddressSpace \in Nat /\ AddressSpace > 1 /\ WordSize <= AddressSpace
  /\ PrimarySize \in Nat /\ PageSize \in Nat /\ PageSize > 0 /\ PageCount \in Nat
  /\ MemorySize \in Nat /\ PrimarySize <= MemorySize
  /\ WindowFirst \in Nat /\ WindowSize \in Nat
  /\ MemorySize <= WindowFirst /\ WindowFirst + WindowSize <= AddressSpace
<1>1. ByteSize \in Nat /\ ByteSize > 1
  BY MemoryAssumption
<1>2. WordSize \in Nat /\ WordSize > 1
  <2>1. ByteSize * ByteSize > 1
    BY <1>1
  <2> QED
    BY <1>1, <2>1 DEF WordSize
<1>3. PageSize \in Nat /\ PageSize > 0 /\ PageCount \in Nat /\ PrimarySize \in Nat
  BY MemoryAssumption
<1>4. PageSize * PageCount \in Nat
  BY <1>3
<1>5. MemorySize \in Nat /\ PrimarySize <= MemorySize
  BY <1>3, <1>4 DEF MemorySize
<1>6. AddressSpace \in Nat /\ AddressSpace > 1 /\ WordSize <= AddressSpace
  <2>1. AddressSpace \in Nat /\ WordSize <= AddressSpace
    BY MemoryAssumption
  <2> QED
    BY <1>2, <2>1
<1> QED
  BY <1>1, <1>2, <1>3, <1>5, <1>6, MemoryAssumption

LEMMA WordBytes ==
  ASSUME NEW word \in 0..(WordSize - 1)
  PROVE  LowByte(word) \in ByteValue /\ HighByte(word) \in ByteValue
<1>1. word \in Nat /\ word < ByteSize * ByteSize
  BY Sizes DEF WordSize
<1> QED
  BY <1>1, Sizes, SplitBytes DEF LowByte, HighByte, ByteValue

-----------------------------------------------------------------------------
(* The three places.                                                       *)

Page == [0..(PageSize - 1) -> ByteValue]
MemRecord ==
  [primary : [0..(PrimarySize - 1) -> ByteValue],
   pages : [0..(PageCount - 1) -> {Absent} \cup Page],
   room : Nat,
   vram : [0..(WindowSize - 1) -> ByteValue],
   stopped : BOOLEAN]

\* Where an address of the pages is.
PageOf(a) == (a - PrimarySize) \div PageSize
PageOffset(a) == (a - PrimarySize) % PageSize

LEMMA NoPage == \A page \in Page : page # Absent
<1>1. 0 \in 0..(PageSize - 1)
  BY Sizes
<1>2. \A page \in Page : 0 \in DOMAIN page
  BY <1>1 DEF Page
<1>3. DOMAIN Absent = {}
  BY DEF Absent
<1> QED
  BY <1>2, <1>3

LEMMA PageBounds ==
  ASSUME NEW a \in Address, IsExtended(a)
  PROVE  PageOf(a) \in 0..(PageCount - 1) /\ PageOffset(a) \in 0..(PageSize - 1)
<1>1. a \in Nat /\ a >= PrimarySize /\ a < PrimarySize + PageSize * PageCount
  BY Sizes DEF Address, IsExtended, MemorySize
<1>2. PICK x \in Nat : x = a - PrimarySize
  BY <1>1, Sizes
<1>3. x < PageSize * PageCount
  <2>1. PageSize * PageCount \in Nat
    BY Sizes
  <2> QED
    BY <1>1, <1>2, <2>1, Sizes
<1> QED
  BY <1>2, <1>3, Sizes, SplitBytes DEF PageOf, PageOffset

LEMMA PageUnique ==
  ASSUME NEW a \in Address, NEW b \in Address, IsExtended(a), IsExtended(b),
         PageOf(a) = PageOf(b), PageOffset(a) = PageOffset(b)
  PROVE  a = b
<1>1. a \in Nat /\ b \in Nat /\ a >= PrimarySize /\ b >= PrimarySize
  BY Sizes DEF Address, IsExtended
<1>2. PICK x \in Nat, y \in Nat : x = a - PrimarySize /\ y = b - PrimarySize
  BY <1>1, Sizes
<1>3. x = y
  BY <1>2, Sizes, SplitUnique DEF PageOf, PageOffset
<1> QED
  BY <1>1, <1>2, <1>3, Sizes

LEMMA WrappedAddress ==
  ASSUME NEW x \in Int
  PROVE  Wrapped(x) \in Address /\ (x \in Address => Wrapped(x) = x)
  BY Sizes, ModRange, ModSmall DEF Wrapped, Address

\* An address lies in one place.
LEMMA PagePlaces ==
  ASSUME NEW a \in Address
  PROVE  /\ IsExtended(a) => ~IsWindow(a) /\ ~(a < PrimarySize)
         /\ IsWindow(a) => ~(a < PrimarySize) /\ a - WindowFirst \in 0..(WindowSize - 1)
         /\ a < PrimarySize => a \in 0..(PrimarySize - 1)
         /\ a \in WithMemory <=> IsExtended(a) \/ IsWindow(a) \/ a < PrimarySize
<1>1. a \in Nat
  BY Sizes DEF Address
<1> QED
  BY <1>1, Sizes DEF IsExtended, IsWindow, WithMemory

LEMMA ReadAt ==
  ASSUME NEW mem, NEW a \in Address
  PROVE  /\ IsExtended(a) => Read8(mem, a) = ReadPage(mem.pages[PageOf(a)], PageOffset(a))
         /\ IsWindow(a) => Read8(mem, a) = mem.vram[a - WindowFirst]
         /\ a < PrimarySize => Read8(mem, a) = mem.primary[a]
         /\ a \notin WithMemory => Read8(mem, a) = Floating
<1>1. Wrapped(a) = a
  BY WrappedAddress DEF Address
<1> QED
  BY <1>1, PagePlaces DEF Read8, PageOf, PageOffset

LEMMA ReadAlike ==
  ASSUME NEW mem, NEW new, NEW b \in Address,
         IsExtended(b) => new.pages[PageOf(b)] = mem.pages[PageOf(b)],
         IsWindow(b) => new.vram[b - WindowFirst] = mem.vram[b - WindowFirst],
         b < PrimarySize => new.primary[b] = mem.primary[b]
  PROVE  Read8(new, b) = Read8(mem, b)
<1>1. CASE IsExtended(b)
  BY <1>1, ReadAt
<1>2. CASE IsWindow(b)
  BY <1>2, ReadAt
<1>3. CASE b < PrimarySize
  BY <1>3, ReadAt
<1>4. CASE b \notin WithMemory
  BY <1>4, ReadAt
<1> QED
  BY <1>1, <1>2, <1>3, <1>4, PagePlaces

\* What a store of a byte may do: it changes that byte and no other, or stops
\* the program; and no page is lost.
Stores(mem, new, a, byte) ==
  /\ a \in WithMemory /\ new.stopped = mem.stopped
  /\ \A b \in Address : Read8(new, b) = IF b = a THEN byte ELSE Read8(mem, b)
Refuses(mem, new) ==
  /\ new.stopped
  /\ \A b \in Address : Read8(new, b) = Read8(mem, b)
PagesHeld(mem) == mem.room + Cardinality(Freed(mem))

LEMMA FreedFinite ==
  ASSUME NEW mem
  PROVE  IsFiniteSet(Freed(mem)) /\ Cardinality(Freed(mem)) \in Nat
<1>1. IsFiniteSet(0..(PageCount - 1))
  BY Sizes, FS_Interval
<1>2. Freed(mem) \in SUBSET (0..(PageCount - 1))
  BY DEF Freed
<1> QED
  BY <1>1, <1>2, FS_Subset, FS_CardinalityType

LEMMA StopRefuses ==
  ASSUME NEW mem \in MemRecord, NEW new, new = Stopped(mem)
  PROVE  new \in MemRecord /\ PagesHeld(new) = PagesHeld(mem) /\ Refuses(mem, new)
<1>1. /\ new.primary = mem.primary /\ new.pages = mem.pages /\ new.room = mem.room
      /\ new.vram = mem.vram /\ new.stopped = TRUE
      /\ new \in MemRecord
  BY DEF Stopped, MemRecord
<1>2. PagesHeld(new) = PagesHeld(mem)
  BY <1>1 DEF PagesHeld, Freed
<1>3. \A b \in Address : Read8(new, b) = Read8(mem, b)
  BY <1>1 DEF Read8
<1> QED
  BY <1>1, <1>2, <1>3 DEF Refuses

LEMMA PrimaryStores ==
  ASSUME NEW mem \in MemRecord, NEW a \in Address, NEW byte \in ByteValue, a < PrimarySize,
         NEW new, new = [mem EXCEPT !.primary[a] = byte]
  PROVE  new \in MemRecord /\ PagesHeld(new) = PagesHeld(mem) /\ Stores(mem, new, a, byte)
<1>p. a \in 0..(PrimarySize - 1) /\ a \in WithMemory
  BY PagePlaces
<1>1. /\ new.primary = [mem.primary EXCEPT ![a] = byte]
      /\ new.pages = mem.pages /\ new.room = mem.room
      /\ new.vram = mem.vram /\ new.stopped = mem.stopped
      /\ new \in MemRecord
  BY <1>p, ZenonT(60) DEF MemRecord
<1>2. PagesHeld(new) = PagesHeld(mem)
  BY <1>1 DEF PagesHeld, Freed
<1>3. mem.primary \in [0..(PrimarySize - 1) -> ByteValue]
  BY DEF MemRecord
<1>4. ASSUME NEW b \in Address PROVE Read8(new, b) = IF b = a THEN byte ELSE Read8(mem, b)
  <2>1. CASE b < PrimarySize
    <3>1. Read8(new, b) = new.primary[b] /\ Read8(mem, b) = mem.primary[b]
      BY <2>1, ReadAt
    <3>2. b \in 0..(PrimarySize - 1)
      BY <2>1, PagePlaces
    <3> QED
      BY <1>1, <1>3, <1>p, <3>1, <3>2
  <2>2. CASE ~(b < PrimarySize)
    <3>1. Read8(new, b) = Read8(mem, b)
      BY <1>1, <2>2, ReadAlike, ZenonT(60)
    <3> QED
      BY <2>2, <3>1
  <2> QED
    BY <2>1, <2>2
<1> QED
  BY <1>1, <1>2, <1>4, <1>p DEF Stores

LEMMA WindowStores ==
  ASSUME NEW mem \in MemRecord, NEW a \in Address, NEW byte \in ByteValue, IsWindow(a),
         NEW new, new = [mem EXCEPT !.vram[a - WindowFirst] = byte]
  PROVE  new \in MemRecord /\ PagesHeld(new) = PagesHeld(mem) /\ Stores(mem, new, a, byte)
<1>p. a - WindowFirst \in 0..(WindowSize - 1) /\ a \in WithMemory
  BY PagePlaces
<1>1. /\ new.vram = [mem.vram EXCEPT ![a - WindowFirst] = byte]
      /\ new.pages = mem.pages /\ new.room = mem.room
      /\ new.primary = mem.primary /\ new.stopped = mem.stopped
      /\ new \in MemRecord
  BY <1>p, ZenonT(60) DEF MemRecord
<1>2. PagesHeld(new) = PagesHeld(mem)
  BY <1>1 DEF PagesHeld, Freed
<1>3. mem.vram \in [0..(WindowSize - 1) -> ByteValue]
  BY DEF MemRecord
<1>4. ASSUME NEW b \in Address PROVE Read8(new, b) = IF b = a THEN byte ELSE Read8(mem, b)
  <2>1. CASE IsWindow(b)
    <3>1. /\ Read8(new, b) = new.vram[b - WindowFirst]
          /\ Read8(mem, b) = mem.vram[b - WindowFirst]
      BY <2>1, ReadAt
    <3>2. b - WindowFirst \in 0..(WindowSize - 1)
      BY <2>1, PagePlaces
    <3>3. b - WindowFirst = a - WindowFirst <=> b = a
      BY Sizes DEF Address
    <3> QED
      BY <1>1, <1>3, <1>p, <3>1, <3>2, <3>3
  <2>2. CASE ~IsWindow(b)
    <3>1. Read8(new, b) = Read8(mem, b)
      BY <1>1, <2>2, ReadAlike, ZenonT(60)
    <3> QED
      BY <2>2, <3>1
  <2> QED
    BY <2>1, <2>2
<1> QED
  BY <1>1, <1>2, <1>4, <1>p DEF Stores

LEMMA PageStores ==
  ASSUME NEW mem \in MemRecord, NEW a \in Address, NEW byte \in ByteValue, IsExtended(a),
         NEW new, new = WritePage(mem, PageOf(a), PageOffset(a), byte)
  PROVE  /\ new \in MemRecord /\ PagesHeld(new) = PagesHeld(mem)
         /\ Stores(mem, new, a, byte) \/ Refuses(mem, new)
<1>n. PICK n \in 0..(PageCount - 1), x \in 0..(PageSize - 1) : n = PageOf(a) /\ x = PageOffset(a)
  BY PageBounds
<1>a. a \in WithMemory
  BY PagePlaces
<1>t. /\ mem.pages \in [0..(PageCount - 1) -> {Absent} \cup Page]
      /\ mem.pages[n] \in {Absent} \cup Page
      /\ mem.room \in Nat
  BY DEF MemRecord
<1>z. ZeroPage \in Page
  <2>1. 0 \in ByteValue
    BY Sizes DEF ByteValue
  <2> QED
    BY <2>1 DEF ZeroPage, Page
<1>1. CASE mem.pages[n] = Absent /\ mem.room = 0
  <2>1. new = Stopped(mem)
    BY <1>1, <1>n DEF WritePage
  <2> QED
    BY <2>1, StopRefuses
<1>2. ASSUME NEW old \in Page, mem.pages[n] = old \/ (mem.pages[n] = Absent /\ old = ZeroPage),
             new.pages = [mem.pages EXCEPT ![n] = [old EXCEPT ![x] = byte]],
             new.primary = mem.primary, new.vram = mem.vram, new.stopped = mem.stopped
      PROVE  Stores(mem, new, a, byte)
  <2>1. [old EXCEPT ![x] = byte] \in Page /\ new.pages[n] = [old EXCEPT ![x] = byte]
    BY <1>2, <1>t DEF Page
  <2>2. \A y \in 0..(PageSize - 1) : ReadPage(mem.pages[n], y) = old[y]
    BY <1>2, NoPage DEF ReadPage, ZeroPage
  <2>3. ASSUME NEW b \in Address PROVE Read8(new, b) = IF b = a THEN byte ELSE Read8(mem, b)
    <3>1. CASE IsExtended(b) /\ PageOf(b) = n
      <4>1. PICK y \in 0..(PageSize - 1) : y = PageOffset(b)
        BY <3>1, PageBounds
      <4>2. PICK patched \in Page : patched = [old EXCEPT ![x] = byte]
        BY <2>1
      <4>3. ReadPage(new.pages[n], y) = patched[y]
        BY <2>1, <4>2, NoPage DEF ReadPage
      <4>4. Read8(new, b) = patched[y] /\ Read8(mem, b) = old[y]
        BY <3>1, <4>1, <4>3, <2>2, ReadAt
      <4>5. x = y <=> a = b
        BY <1>n, <3>1, <4>1, PageUnique
      <4> QED
        BY <4>2, <4>4, <4>5 DEF Page
    <3>2. CASE ~(IsExtended(b) /\ PageOf(b) = n)
      <4>1. IsExtended(b) => new.pages[PageOf(b)] = mem.pages[PageOf(b)]
        BY <1>2, <1>t, <3>2, PageBounds
      <4>2. Read8(new, b) = Read8(mem, b)
        BY <1>2, <4>1, ReadAlike
      <4>3. b # a
        BY <1>n, <3>2
      <4> QED
        BY <4>2, <4>3
    <3> QED
      BY <3>1, <3>2
  <2> QED
    BY <1>2, <1>a, <2>3 DEF Stores
<1>3. CASE mem.pages[n] # Absent
  <2>1. PICK old \in Page : old = mem.pages[n]
    BY <1>3, <1>t
  <2>2. new = [mem EXCEPT !.pages[n] = [old EXCEPT ![x] = byte]]
    BY <1>3, <1>n, <2>1 DEF WritePage
  <2>3. [old EXCEPT ![x] = byte] \in Page
    BY DEF Page
  <2>4. /\ new.pages = [mem.pages EXCEPT ![n] = [old EXCEPT ![x] = byte]]
        /\ new.primary = mem.primary /\ new.vram = mem.vram /\ new.stopped = mem.stopped
        /\ new.room = mem.room /\ new \in MemRecord
    BY <2>2, <2>3, ZenonT(60) DEF MemRecord
  <2>5. Freed(new) = Freed(mem)
    BY <1>3, <1>t, <2>3, <2>4, NoPage, ZenonT(60) DEF Freed
  <2> QED
    BY <1>2, <2>1, <2>4, <2>5 DEF PagesHeld
<1>4. CASE mem.pages[n] = Absent /\ mem.room # 0
  <2>1. new = [mem EXCEPT !.pages[n] = [ZeroPage EXCEPT ![x] = byte], !.room = @ - 1]
    BY <1>4, <1>n DEF WritePage
  <2>2. PICK old \in Page : old = ZeroPage
    BY <1>z
  <2>3. [old EXCEPT ![x] = byte] \in Page
    BY DEF Page
  <2>4. /\ new.pages = [mem.pages EXCEPT ![n] = [old EXCEPT ![x] = byte]]
        /\ new.primary = mem.primary /\ new.vram = mem.vram /\ new.stopped = mem.stopped
        /\ new.room = mem.room - 1 /\ new \in MemRecord
    <3>1. PICK left \in Nat : left = mem.room - 1
      BY <1>4, <1>t
    <3>2. new = [mem EXCEPT !.pages[n] = [old EXCEPT ![x] = byte], !.room = left]
      BY <2>1, <2>2, <3>1
    <3>3. PICK patched \in Page : patched = [old EXCEPT ![x] = byte]
      BY <2>3
    <3>4. new = [mem EXCEPT !.pages[n] = patched, !.room = left]
      BY <3>2, <3>3
    <3>a. PICK table \in [0..(PageCount - 1) -> {Absent} \cup Page] :
            table = [mem.pages EXCEPT ![n] = patched]
      BY <1>t
    <3>b. new = [mem EXCEPT !.pages = table, !.room = left]
      BY <3>4, <3>a
    <3>5. /\ new.pages = [mem.pages EXCEPT ![n] = patched]
          /\ new.primary = mem.primary /\ new.vram = mem.vram /\ new.stopped = mem.stopped
          /\ new.room = left
      BY <3>a, <3>b, ZenonT(60) DEF MemRecord
    <3>6. new \in MemRecord
      BY <3>b, ZenonT(60) DEF MemRecord
    <3> QED
      BY <3>1, <3>3, <3>5, <3>6
  <2>5. Freed(new) = Freed(mem) \cup {n} /\ n \notin Freed(mem)
    BY <1>4, <1>t, <2>3, <2>4, NoPage, ZenonT(60) DEF Freed
  <2>6. Cardinality(Freed(new)) = Cardinality(Freed(mem)) + 1
    BY <2>5, FreedFinite, FS_AddElement
  <2>7. PagesHeld(new) = PagesHeld(mem)
    BY <1>t, <2>4, <2>6, FreedFinite DEF PagesHeld
  <2>8. Stores(mem, new, a, byte)
    BY <1>2, <1>4, <2>2, <2>4
  <2> QED
    BY <2>4, <2>7, <2>8
<1> QED
  BY <1>1, <1>3, <1>4

(* A store of a byte, whatever the address.                                *)
LEMMA Write8Effect ==
  ASSUME NEW mem \in MemRecord, NEW address \in Int, NEW byte \in ByteValue,
         NEW a, a = Wrapped(address), NEW new, new = Write8(mem, address, byte)
  PROVE  /\ new \in MemRecord /\ PagesHeld(new) = PagesHeld(mem)
         /\ Stores(mem, new, a, byte) \/ Refuses(mem, new)
<1>1. a \in Address
  BY WrappedAddress
<1>2. CASE IsExtended(a)
  BY <1>1, <1>2, PageStores DEF Write8, PageOf, PageOffset
<1>3. CASE ~IsExtended(a) /\ IsWindow(a)
  BY <1>1, <1>3, WindowStores DEF Write8
<1>4. CASE ~IsExtended(a) /\ ~IsWindow(a) /\ a < PrimarySize
  BY <1>1, <1>4, PrimaryStores DEF Write8
<1>5. CASE ~IsExtended(a) /\ ~IsWindow(a) /\ ~(a < PrimarySize)
  BY <1>5, StopRefuses DEF Write8
<1> QED
  BY <1>2, <1>3, <1>4, <1>5

-----------------------------------------------------------------------------
(* Words.                                                                  *)

LEMMA StepMoves ==
  ASSUME NEW d \in Nat, NEW a \in Nat, a < d, NEW k \in Int, k # 0, k < d, 0 - d < k
  PROVE  (a + k) % d # a
<1>1. PICK y \in Int : y = a + k
  OBVIOUS
<1>2. CASE y >= 0 /\ y < d
  BY <1>1, <1>2, ModSmall
<1>3. CASE y >= d
  <2>1. PICK r \in Nat : r = y - d /\ r < d /\ y = d * 1 + r
    BY <1>1, <1>3
  <2>2. y % d = r
    BY <2>1, ModUnique
  <2> QED
    BY <1>1, <2>1, <2>2
<1>4. CASE y < 0
  <2>1. PICK r \in Nat : r = y + d /\ r < d /\ y = d * (0 - 1) + r
    BY <1>1, <1>4
  <2>2. y % d = r
    BY <2>1, ModUnique
  <2> QED
    BY <1>1, <2>1, <2>2
<1> QED
  BY <1>1, <1>2, <1>3, <1>4

\* The second byte of a word: behind the first or, of the last offset of a segment,
\* at its start.
Strides == {1, 1 - WordSize}

LEMMA SecondByte ==
  ASSUME NEW x \in Int, NEW step \in Strides
  PROVE  /\ Wrapped(x + step) = (Wrapped(x) + step) % AddressSpace
         /\ Wrapped(x + step) # Wrapped(x)
         /\ Wrapped(x) \in 0..(AddressSpace - 1)
<1>1. /\ step \in Int /\ step # 0 /\ step < AddressSpace /\ 0 - AddressSpace < step
      /\ AddressSpace \in Nat /\ AddressSpace > 0
  BY Sizes DEF Strides
<1>2. Wrapped(x) \in Nat /\ Wrapped(x) < AddressSpace
  BY <1>1, ModRange DEF Wrapped
<1>3. Wrapped(x + step) = (Wrapped(x) + step) % AddressSpace
  BY <1>1, ModShift DEF Wrapped
<1>4. (Wrapped(x) + step) % AddressSpace # Wrapped(x)
  BY <1>1, <1>2, StepMoves
<1> QED
  BY <1>2, <1>3, <1>4, <1>1

LEMMA SegmentStep ==
  ASSUME NEW segment \in Nat, NEW offset \in 0..(WordSize - 1)
  PROVE  \E x \in Int, step \in Strides :
           /\ Linear(segment, offset) = Wrapped(x)
           /\ Linear(segment, NextOffset(offset)) = Wrapped(x + step)
<1>1. PICK base \in Nat : base = segment * Paragraph
  BY Sizes
<1>2. PICK x \in Int : x = base + offset
  BY <1>1, Sizes
<1>3. Linear(segment, offset) = Wrapped(x)
  BY <1>1, <1>2 DEF Linear
<1>4. CASE offset < WordSize - 1
  <2>1. NextOffset(offset) = offset + 1
    <3>1. offset + 1 \in Nat /\ offset + 1 < WordSize
      BY <1>4, Sizes
    <3> QED
      BY <3>1, Sizes, ModSmall DEF NextOffset
  <2>2. Linear(segment, NextOffset(offset)) = Wrapped(x + 1)
    <3>1. base + (offset + 1) = x + 1
      BY <1>1, <1>2, Sizes
    <3> QED
      BY <1>1, <2>1, <3>1 DEF Linear
  <2>3. 1 \in Strides
    BY DEF Strides
  <2> QED
    BY <1>3, <2>2, <2>3
<1>5. CASE offset = WordSize - 1
  <2>1. NextOffset(offset) = 0
    <3>1. offset + 1 = WordSize * 1 + 0
      BY <1>5, Sizes
    <3>2. PICK y \in Int : y = offset + 1
      BY Sizes
    <3>3. y % WordSize = 0
      BY <3>1, <3>2, Sizes, ModUnique
    <3> QED
      BY <3>2, <3>3 DEF NextOffset
  <2>2. Linear(segment, NextOffset(offset)) = Wrapped(x + (1 - WordSize))
    <3>1. base + 0 = x + (1 - WordSize)
      BY <1>1, <1>2, <1>5, Sizes
    <3> QED
      BY <1>1, <2>1, <3>1 DEF Linear
  <2>3. 1 - WordSize \in Strides
    BY DEF Strides
  <2> QED
    BY <1>3, <2>2, <2>3
<1> QED
  BY <1>4, <1>5, Sizes

\* The bytes in done are stored, and the program stops when one is missing.
StoredAs(mem, new, bytes, done) ==
  /\ \A c \in WithMemory : Read8(new, c) = IF c \in done THEN bytes[c] ELSE Read8(mem, c)
  /\ new.stopped <=> done # DOMAIN bytes

ByteAt(mem, new, a, v) ==
  \E done \in SUBSET ({a} \cap WithMemory) : StoredAs(mem, new, [c \in {a} |-> v], done)
PairAt(mem, new, a, b, v, w) ==
  \E done \in SUBSET ({a, b} \cap WithMemory) :
    StoredAs(mem, new, [c \in {a, b} |-> IF c = a THEN v ELSE w], done)

LEMMA ByteStored ==
  ASSUME NEW mem \in MemRecord, ~mem.stopped, NEW a \in Address, NEW v \in ByteValue,
         NEW new, new = Write8(mem, a, v)
  PROVE  new \in MemRecord /\ PagesHeld(new) = PagesHeld(mem) /\ ByteAt(mem, new, a, v)
<1>1. Wrapped(a) = a /\ a \in Int
  BY WrappedAddress, Sizes DEF Address
<1>2. /\ new \in MemRecord /\ PagesHeld(new) = PagesHeld(mem)
      /\ Stores(mem, new, a, v) \/ Refuses(mem, new)
  BY <1>1, Write8Effect
<1>3. WithMemory \subseteq Address
  BY DEF WithMemory
<1>4. CASE Stores(mem, new, a, v)
  <2>1. StoredAs(mem, new, [c \in {a} |-> v], {a}) /\ a \in WithMemory
    BY <1>3, <1>4 DEF StoredAs, Stores
  <2> QED
    BY <1>2, <2>1 DEF ByteAt
<1>5. CASE Refuses(mem, new)
  <2>1. StoredAs(mem, new, [c \in {a} |-> v], {})
    BY <1>3, <1>5 DEF StoredAs, Refuses
  <2> QED
    BY <1>2, <2>1 DEF ByteAt
<1> QED
  BY <1>2, <1>4, <1>5

LEMMA WordStored ==
  ASSUME NEW mem \in MemRecord, ~mem.stopped, NEW x \in Int, NEW y \in Int,
         NEW a \in Address, NEW b \in Address, a = Wrapped(x), b = Wrapped(y), a # b,
         NEW v \in ByteValue, NEW w \in ByteValue,
         NEW new, new = Write8(Write8(mem, x, v), y, w)
  PROVE  new \in MemRecord /\ PagesHeld(new) = PagesHeld(mem) /\ PairAt(mem, new, a, b, v, w)
<1>1. PICK mid : mid = Write8(mem, x, v)
  OBVIOUS
<1>2. /\ mid \in MemRecord /\ PagesHeld(mid) = PagesHeld(mem)
      /\ Stores(mem, mid, a, v) \/ Refuses(mem, mid)
  BY <1>1, Write8Effect
<1>3. /\ new \in MemRecord /\ PagesHeld(new) = PagesHeld(mid)
      /\ Stores(mid, new, b, w) \/ Refuses(mid, new)
  BY <1>1, <1>2, Write8Effect
<1>4. WithMemory \subseteq Address
  BY DEF WithMemory
<1> DEFINE bytes == [c \in {a, b} |-> IF c = a THEN v ELSE w]
<1>5. DOMAIN bytes = {a, b} /\ bytes[a] = v /\ bytes[b] = w
  OBVIOUS
<1> HIDE DEF bytes
<1>6. CASE Stores(mem, mid, a, v) /\ Stores(mid, new, b, w)
  <2>1. StoredAs(mem, new, bytes, {a, b}) /\ {a, b} \subseteq WithMemory
    BY <1>4, <1>5, <1>6 DEF StoredAs, Stores
  <2> QED
    BY <1>2, <1>3, <2>1 DEF bytes, PairAt
<1>7. CASE Stores(mem, mid, a, v) /\ Refuses(mid, new)
  <2>1. StoredAs(mem, new, bytes, {a}) /\ a \in WithMemory
    BY <1>4, <1>5, <1>7 DEF StoredAs, Stores, Refuses
  <2> QED
    BY <1>2, <1>3, <2>1 DEF bytes, PairAt
<1>8. CASE Refuses(mem, mid) /\ Stores(mid, new, b, w)
  <2>1. StoredAs(mem, new, bytes, {b}) /\ b \in WithMemory
    BY <1>4, <1>5, <1>8 DEF StoredAs, Stores, Refuses
  <2> QED
    BY <1>2, <1>3, <2>1 DEF bytes, PairAt
<1>9. CASE Refuses(mem, mid) /\ Refuses(mid, new)
  <2>1. StoredAs(mem, new, bytes, {})
    BY <1>4, <1>5, <1>9 DEF StoredAs, Refuses
  <2> QED
    BY <1>2, <1>3, <2>1 DEF bytes, PairAt
<1> QED
  BY <1>2, <1>3, <1>6, <1>7, <1>8, <1>9

-----------------------------------------------------------------------------
(* What a step of the machine does to the memory.                          *)

\* Every page is on the heap or in use.
MemInv == memory \in MemRecord /\ PagesHeld(memory) \in 0..HeapRoom

BytePlaced(mem, new) ==
  \E a \in Address, v \in ByteValue : ByteAt(mem, new, a, v)

WordPlaced(mem, new) ==
  \E a \in Address, v \in ByteValue, w \in ByteValue, step \in Strides :
    \E b \in Address : b = (a + step) % AddressSpace /\ PairAt(mem, new, a, b, v, w)

Zeroed(mem, new) ==
  /\ \A c \in WithMemory : Read8(new, c) = IF IsWindow(c) THEN Read8(mem, c) ELSE 0
  /\ new.stopped = FALSE

LEMMA BytesPlaced ==
  ASSUME NEW mem \in MemRecord, ~mem.stopped, NEW a \in Address, NEW v \in ByteValue,
         NEW new, new = Write8(mem, a, v)
  PROVE  new \in MemRecord /\ PagesHeld(new) = PagesHeld(mem) /\ BytePlaced(mem, new)
<1>1. new \in MemRecord /\ PagesHeld(new) = PagesHeld(mem) /\ ByteAt(mem, new, a, v)
  BY ByteStored
<1> QED
  BY <1>1 DEF BytePlaced

\* Two bytes that a step apart makes neighbours.
LEMMA PairPlaced ==
  ASSUME NEW mem \in MemRecord, ~mem.stopped, NEW x \in Int, NEW step \in Strides,
         NEW p \in Int, NEW q \in Int,
         Wrapped(p) = Wrapped(x), Wrapped(q) = Wrapped(x + step),
         NEW v \in ByteValue, NEW w \in ByteValue,
         NEW new, new = Write8(Write8(mem, p, v), q, w)
  PROVE  new \in MemRecord /\ PagesHeld(new) = PagesHeld(mem) /\ WordPlaced(mem, new)
<1>0. x + step \in Int
  BY Sizes DEF Strides
<1>1. PICK a \in Address, b \in Address :
        a = Wrapped(x) /\ b = Wrapped(x + step)
  BY <1>0, WrappedAddress
<1>2. b = (a + step) % AddressSpace /\ a # b
  BY <1>1, SecondByte
<1>3. a = Wrapped(p) /\ b = Wrapped(q)
  BY <1>1
<1>4. new \in MemRecord /\ PagesHeld(new) = PagesHeld(mem) /\ PairAt(mem, new, a, b, v, w)
  BY <1>2, <1>3, WordStored
<1> QED
  BY <1>2, <1>4 DEF WordPlaced

LEMMA WordsPlaced ==
  ASSUME NEW mem \in MemRecord, ~mem.stopped, NEW a \in Address, NEW word \in 0..(WordSize - 1),
         NEW new, new = Write16(mem, a, word)
  PROVE  new \in MemRecord /\ PagesHeld(new) = PagesHeld(mem) /\ WordPlaced(mem, new)
<1>1. a \in Int /\ a + 1 \in Int /\ 1 \in Strides
  BY Sizes DEF Address, Strides
<1>2. new = Write8(Write8(mem, a, LowByte(word)), a + 1, HighByte(word))
  BY DEF Write16
<1> QED
  BY <1>1, <1>2, WordBytes, PairPlaced

LEMMA SegmentWordsPlaced ==
  ASSUME NEW mem \in MemRecord, ~mem.stopped, NEW segment \in Nat,
         NEW offset \in 0..(WordSize - 1), NEW word \in 0..(WordSize - 1),
         NEW new, new = Write16Seg(mem, segment, offset, word)
  PROVE  new \in MemRecord /\ PagesHeld(new) = PagesHeld(mem) /\ WordPlaced(mem, new)
<1>1. PICK x \in Int, step \in Strides :
        /\ Linear(segment, offset) = Wrapped(x)
        /\ Linear(segment, NextOffset(offset)) = Wrapped(x + step)
  BY SegmentStep
<1>2. x + step \in Int
  BY Sizes DEF Strides
<1>3. PICK p \in Address, q \in Address :
        /\ p = Linear(segment, offset) /\ q = Linear(segment, NextOffset(offset))
        /\ p = Wrapped(x) /\ q = Wrapped(x + step)
  BY <1>1, <1>2, WrappedAddress
<1>4. p \in Int /\ q \in Int /\ Wrapped(p) = p /\ Wrapped(q) = q
  BY <1>3, WrappedAddress, Sizes DEF Address
<1>5. new = Write8(Write8(mem, p, LowByte(word)), q, HighByte(word))
  BY <1>3 DEF Write16Seg
<1> QED
  BY <1>3, <1>4, <1>5, WordBytes, PairPlaced

\* Memory after a clear: zeros, all pages on the heap.
LEMMA NewMemoryZero ==
  ASSUME NEW room \in Nat, NEW mem, mem = NewMemory(room)
  PROVE  /\ mem \in MemRecord /\ PagesHeld(mem) = room /\ ~mem.stopped
         /\ \A c \in WithMemory : Read8(mem, c) = 0
<1>1. 0 \in ByteValue
  BY Sizes DEF ByteValue
<1>2. /\ mem \in MemRecord /\ mem.room = room /\ mem.stopped = FALSE
      /\ mem.primary = [a \in 0..(PrimarySize - 1) |-> 0]
      /\ mem.pages = [n \in 0..(PageCount - 1) |-> Absent]
      /\ mem.vram = [x \in 0..(WindowSize - 1) |-> 0]
  BY <1>1 DEF NewMemory, MemRecord
<1>3. Freed(mem) = {}
  BY <1>2 DEF Freed
<1>4. PagesHeld(mem) = room
  BY <1>2, <1>3, FS_EmptySet DEF PagesHeld
<1>5. ASSUME NEW c \in WithMemory PROVE Read8(mem, c) = 0
  <2>0. c \in Address
    BY DEF WithMemory
  <2>1. CASE IsExtended(c)
    <3>1. Read8(mem, c) = ReadPage(mem.pages[PageOf(c)], PageOffset(c))
      BY <2>0, <2>1, ReadAt
    <3>2. mem.pages[PageOf(c)] = Absent
      BY <1>2, <2>0, <2>1, PageBounds
    <3> QED
      BY <3>1, <3>2 DEF ReadPage
  <2>2. CASE IsWindow(c)
    <3>1. Read8(mem, c) = mem.vram[c - WindowFirst]
      BY <2>0, <2>2, ReadAt
    <3>2. c - WindowFirst \in 0..(WindowSize - 1)
      BY <2>0, <2>2, PagePlaces
    <3> QED
      BY <1>2, <3>1, <3>2
  <2>3. CASE c < PrimarySize
    <3>1. Read8(mem, c) = mem.primary[c]
      BY <2>0, <2>3, ReadAt
    <3>2. c \in 0..(PrimarySize - 1)
      BY <2>0, <2>3, PagePlaces
    <3> QED
      BY <1>2, <3>1, <3>2
  <2> QED
    BY <2>0, <2>1, <2>2, <2>3, PagePlaces
<1> QED
  BY <1>2, <1>4, <1>5

LEMMA MemoryCleared ==
  ASSUME NEW mem \in MemRecord,
         NEW new, new = [NewMemory(mem.room + Cardinality(Freed(mem))) EXCEPT !.vram = mem.vram]
  PROVE  new \in MemRecord /\ PagesHeld(new) = PagesHeld(mem) /\ Zeroed(mem, new)
<1>1. PICK room \in Nat : room = PagesHeld(mem) /\ room = mem.room + Cardinality(Freed(mem))
  BY FreedFinite DEF PagesHeld, MemRecord
<1>2. PICK zero \in MemRecord : zero = NewMemory(room)
  BY NewMemoryZero
<1>3. /\ PagesHeld(zero) = room /\ ~zero.stopped
      /\ \A c \in WithMemory : Read8(zero, c) = 0
  BY <1>2, NewMemoryZero
<1>4. new = [zero EXCEPT !.vram = mem.vram]
  BY <1>1, <1>2
<1>5. /\ new \in MemRecord /\ new.vram = mem.vram /\ new.stopped = zero.stopped
      /\ new.pages = zero.pages /\ new.primary = zero.primary /\ new.room = zero.room
  BY <1>4 DEF MemRecord
<1>6. PagesHeld(new) = PagesHeld(zero)
  BY <1>5 DEF PagesHeld, Freed
<1>7. ASSUME NEW c \in WithMemory
      PROVE  Read8(new, c) = IF IsWindow(c) THEN Read8(mem, c) ELSE 0
  <2>0. c \in Address
    BY DEF WithMemory
  <2>1. CASE IsWindow(c)
    <3>1. Read8(new, c) = new.vram[c - WindowFirst] /\ Read8(mem, c) = mem.vram[c - WindowFirst]
      BY <2>0, <2>1, ReadAt
    <3> QED
      BY <1>5, <2>1, <3>1
  <2>2. CASE ~IsWindow(c)
    <3>1. Read8(new, c) = Read8(zero, c)
      BY <1>5, <2>0, <2>2, ReadAlike
    <3> QED
      BY <1>3, <2>2, <3>1
  <2> QED
    BY <2>1, <2>2
<1>8. new.stopped = FALSE
  BY <1>2, <1>3, <1>5 DEF MemRecord
<1> QED
  BY <1>1, <1>3, <1>5, <1>6, <1>7, <1>8 DEF Zeroed

LEMMA MemoryStarts == MemoryInit => MemInv
<1>1. SUFFICES ASSUME NEW room \in 0..HeapRoom, memory = NewMemory(room) PROVE MemInv
  BY DEF MemoryInit
<1>2. room \in Nat
  BY MemoryAssumption
<1> QED
  BY <1>1, <1>2, NewMemoryZero DEF MemInv

\* A step keeps the pages, and is a byte or a word stored, or a clear.
LEMMA MemoryMoves ==
  ASSUME MemInv, MemoryNext
  PROVE  /\ MemInv'
         /\ \/ ~memory.stopped /\ BytePlaced(memory, memory')
            \/ ~memory.stopped /\ WordPlaced(memory, memory')
            \/ Zeroed(memory, memory')
<1>1. PICK mem, new : mem \in MemRecord /\ mem = memory /\ new = memory' /\ PagesHeld(mem) \in 0..HeapRoom
  BY DEF MemInv
<1>2. ASSUME new \in MemRecord, PagesHeld(new) = PagesHeld(mem) PROVE MemInv'
  <2>1. memory' \in MemRecord /\ PagesHeld(memory') \in 0..HeapRoom
    BY <1>1, <1>2
  <2> QED
    BY <2>1 DEF MemInv, PagesHeld, Freed
<1>3. CASE StoreByte
  <2>1. PICK a \in Address, v \in ByteValue : new = Write8(mem, a, v)
    BY <1>1, <1>3 DEF StoreByte
  <2>2. ~mem.stopped
    BY <1>1, <1>3 DEF StoreByte
  <2> QED
    BY <1>1, <1>2, <2>1, <2>2, BytesPlaced
<1>4. CASE StoreWord
  <2>1. PICK a \in Address, word \in 0..(WordSize - 1) : new = Write16(mem, a, word)
    BY <1>1, <1>4 DEF StoreWord
  <2>2. ~mem.stopped
    BY <1>1, <1>4 DEF StoreWord
  <2> QED
    BY <1>1, <1>2, <2>1, <2>2, WordsPlaced
<1>5. CASE StoreWordSeg
  <2>1. PICK segment \in Segments, offset \in 0..(WordSize - 1), word \in 0..(WordSize - 1) :
          new = Write16Seg(mem, segment, offset, word)
    BY <1>1, <1>5 DEF StoreWordSeg
  <2>2. ~mem.stopped /\ segment \in Nat
    BY <1>1, <1>5, MemoryAssumption DEF StoreWordSeg
  <2> QED
    BY <1>1, <1>2, <2>1, <2>2, SegmentWordsPlaced
<1>6. CASE ClearMemory
  <2>1. new = [NewMemory(mem.room + Cardinality(Freed(mem))) EXCEPT !.vram = mem.vram]
    BY <1>1, <1>6 DEF ClearMemory
  <2> QED
    BY <1>1, <1>2, <2>1, MemoryCleared
<1> QED
  BY <1>3, <1>4, <1>5, <1>6 DEF MemoryNext

LEMMA MemoryKeeps == MemInv /\ [MemoryNext]_memory => MemInv'
<1>1. ASSUME MemInv, UNCHANGED memory PROVE MemInv'
  BY <1>1 DEF MemInv, PagesHeld, Freed
<1> QED
  BY <1>1, MemoryMoves

-----------------------------------------------------------------------------
(* The theorems of Memory.                                                 *)

\* The bytes that programs see, and the cells of Ram.
LEMMA RamStarts == MemoryInit => Plainly!RamInit
<1>1. SUFFICES ASSUME NEW room \in 0..HeapRoom, memory = NewMemory(room) PROVE Plainly!RamInit
  BY DEF MemoryInit
<1>2. room \in Nat
  BY MemoryAssumption
<1>3. ~memory.stopped /\ memory \in MemRecord /\ \A c \in WithMemory : Read8(memory, c) = 0
  BY <1>1, <1>2, NewMemoryZero
<1> QED
  BY <1>3 DEF Plainly!RamInit, MemRecord

LEMMA StoredIsStored ==
  ASSUME MemInv, MemInv', NEW bytes, NEW done, done \subseteq WithMemory,
         StoredAs(memory, memory', bytes, done)
  PROVE  Plainly!Stored(bytes, done)
<1>1. \A c \in WithMemory :
        Read8(memory', c) = IF c \in done THEN bytes[c] ELSE Read8(memory, c)
  BY DEF StoredAs
<1>2. memory'.stopped = (done # DOMAIN bytes)
  BY DEF StoredAs, MemInv, MemRecord
<1>3. [c \in WithMemory |-> Read8(memory', c)]
        = [a \in WithMemory |-> IF a \in done THEN bytes[a] ELSE Read8(memory, a)]
  BY <1>1
<1> QED
  BY <1>1, <1>2, <1>3 DEF Plainly!Stored

LEMMA RamMoves ==
  ASSUME MemInv, MemInv', MemoryNext
  PROVE  Plainly!RamNext
<1>1. CASE ~memory.stopped /\ BytePlaced(memory, memory')
  <2>1. PICK a \in Address, v \in ByteValue : ByteAt(memory, memory', a, v)
    BY <1>1 DEF BytePlaced
  <2>2. PICK done \in SUBSET ({a} \cap WithMemory) :
          StoredAs(memory, memory', [c \in {a} |-> v], done)
    BY <2>1 DEF ByteAt
  <2>3. Plainly!Stored([c \in {a} |-> v], done)
    BY <2>2, StoredIsStored
  <2>4. Plainly!RamStore
    BY <2>2, <2>3 DEF Plainly!RamStore, Address
  <2> QED
    BY <1>1, <2>4 DEF Plainly!RamNext
<1>2. CASE ~memory.stopped /\ WordPlaced(memory, memory')
  <2>1. PICK a \in Address, v \in ByteValue, w \in ByteValue, step \in Strides, b \in Address :
          b = (a + step) % AddressSpace /\ PairAt(memory, memory', a, b, v, w)
    BY <1>2 DEF WordPlaced
  <2>2. PICK done \in SUBSET ({a, b} \cap WithMemory) :
          StoredAs(memory, memory', [c \in {a, b} |-> IF c = a THEN v ELSE w], done)
    BY <2>1 DEF PairAt
  <2>3. Plainly!Stored([c \in {a, b} |-> IF c = a THEN v ELSE w], done)
    BY <2>2, StoredIsStored
  <2>4. Plainly!RamStoreWord
    <3>1. \E x \in SUBSET ({a, (a + step) % AddressSpace} \cap WithMemory) :
            Plainly!Stored([c \in {a, (a + step) % AddressSpace} |-> IF c = a THEN v ELSE w], x)
      BY <2>1, <2>2, <2>3, Zenon
    <3>2. a \in 0..AddressSpace - 1 /\ step \in {1, 1 - WordSize}
      BY DEF Address, Strides
    <3> QED
      BY <3>1, <3>2, Zenon DEF Plainly!RamStoreWord
  <2> QED
    BY <1>2, <2>4 DEF Plainly!RamNext
<1>3. CASE Zeroed(memory, memory')
  <2>1. Plainly!RamClear
    BY <1>3 DEF Plainly!RamClear, Zeroed, WithMemory
  <2> QED
    BY <2>1 DEF Plainly!RamNext
<1> QED
  BY <1>1, <1>2, <1>3, MemoryMoves

LEMMA RamStep ==
  ASSUME MemInv, [MemoryNext]_memory
  PROVE  [Plainly!RamNext]_(Plainly!RamVars)
<1>1. CASE MemoryNext
  BY <1>1, MemoryKeeps, RamMoves
<1>2. CASE UNCHANGED memory
  BY <1>2 DEF Plainly!RamVars
<1> QED
  BY <1>1, <1>2

LEMMA MemoryInvariant == MemorySpec => []MemInv
<1> QED
  BY MemoryStarts, MemoryKeeps, PTL DEF MemorySpec

(* The array, the pages and the video memory are never outgrown, whatever  *)
(* addresses programs store to: the indices that d2e_x86_write8 computes   *)
(* are in range, and no page that the heap gave is lost when memory is     *)
(* cleared.                                                                *)
THEOREM MemoryTypeCorrect == MemorySpec => []MemoryTypeOK
<1>1. MemInv => MemoryTypeOK
  <2>1. Page = [0..(PageSize - 1) -> ByteValue]
    BY DEF Page
  <2> QED
    BY <2>1 DEF MemInv, MemRecord, MemoryTypeOK, PagesHeld
<1> QED
  BY <1>1, MemoryInvariant, PTL

(* The three places behave as one memory: a store changes the bytes it     *)
(* names and no other, also where a word lies in two places, wraps at the  *)
(* end of its segment or of the address space, or needs a page; and when a *)
(* byte of it cannot be stored, the program stops.                         *)
THEOREM MemoryIsOneRam == MemorySpec => MemoryIsRam
<1>1. MemoryInit => Plainly!RamInit
  BY RamStarts
<1>2. MemInv /\ [MemoryNext]_memory => [Plainly!RamNext]_(Plainly!RamVars)
  BY RamStep
<1>3. MemorySpec => Plainly!RamSpec
  BY <1>1, <1>2, MemoryInvariant, PTL DEF MemorySpec, Plainly!RamSpec
<1> QED
  BY <1>3 DEF MemoryIsRam

-----------------------------------------------------------------------------
(* The flags of a translated program.                                      *)

Mnemonics == DOMAIN Contract
BodyOf(p, n) == CodeOf(p[n])

LEMMA Contracts ==
  ASSUME NEW i \in Mnemonics
  PROVE  Reads(i) \subseteq AllFlags /\ Defines(i) \subseteq AllFlags
  BY DEF Mnemonics, Reads, Defines, Contract, AllFlags

LEMMA Misjudging ==
  ASSUME NEW i, NEW set \in Sets(i), NEW f \in Defines(i), f \notin set, f \notin Reads(i)
  PROVE  f \in Misjudged(i)
  BY DEF Misjudged

(* An instruction sets flags it is said to define, and it keeps only those  *)
(* of them that are misjudged, or that it is also said to read.             *)
LEMMA SetsClaimed ==
  ASSUME NEW i \in Mnemonics, NEW set \in Sets(i)
  PROVE  /\ set \subseteq Defines(i)
         /\ Defines(i) \ set \subseteq Misjudged(i) \cup Reads(i)
<1>1. set \subseteq Defines(i)
  <2>1. CASE i = "shl_cl"
    <3>1. Defines(i) = AllFlags
      BY <2>1 DEF Defines, Contract
    <3> QED
      BY <2>1, <3>1 DEF Sets, AllFlags
  <2>2. CASE i \in {"rol_cl", "rcl_cl"}
    <3>1. Defines(i) = {"C", "O"}
      BY <2>2 DEF Defines, Contract
    <3> QED
      BY <2>2, <3>1 DEF Sets
  <2>3. CASE i = "sahf"
    <3>1. Defines(i) = AllFlags
      BY <2>3 DEF Defines, Contract
    <3> QED
      BY <2>3, <3>1 DEF Sets, AllFlags
  <2>4. CASE i = "repe_scas"
    <3>1. Defines(i) = AllFlags
      BY <2>4 DEF Defines, Contract
    <3> QED
      BY <2>4, <3>1 DEF Sets
  <2>5. CASE i \notin {"shl_cl", "rol_cl", "rcl_cl", "sahf", "repe_scas"}
    BY <2>5 DEF Sets
  <2> QED
    BY <2>1, <2>2, <2>3, <2>4, <2>5
<1> QED
  BY <1>1, Misjudging

LEMMA SeqParts ==
  ASSUME NEW S, NEW q \in Seq(S), q # << >>
  PROVE  Len(q) \in Nat /\ Len(q) > 0 /\ DOMAIN q = 1..Len(q) /\ \A n \in 1..Len(q) : q[n] \in S
  OBVIOUS

LEMMA ProgramLength == \A p \in Programs : Len(p) \in Nat /\ Len(p) > 0
<1>1. SUFFICES ASSUME NEW p \in Programs PROVE Len(p) \in Nat /\ Len(p) > 0
  OBVIOUS
<1>2. p \in Seq([body : Seq(Mnemonics), last : Mnemonics, target : Nat]) /\ p # << >>
  BY FlagAssumption DEF Mnemonics
<1> QED
  BY <1>2, SeqParts

LEMMA ProgramParts ==
  ASSUME NEW p \in Programs, NEW n \in 1..Len(p)
  PROVE  /\ Len(p) \in Nat /\ Len(p) > 0 /\ DOMAIN p = 1..Len(p)
         /\ p[n].target \in 0..Len(p)
         /\ BodyOf(p, n) \in Seq(Mnemonics) /\ Len(BodyOf(p, n)) > 0
<1>1. /\ p \in Seq([body : Seq(Mnemonics), last : Mnemonics, target : Nat])
      /\ p # << >> /\ \A k \in DOMAIN p : p[k].target <= Len(p)
  BY FlagAssumption DEF Mnemonics
<1> DEFINE Blocks == [body : Seq(Mnemonics), last : Mnemonics, target : Nat]
<1>2. /\ Len(p) \in Nat /\ Len(p) > 0 /\ DOMAIN p = 1..Len(p)
      /\ p[n] \in Blocks
  <2>1. p \in Seq(Blocks) /\ p # << >>
    BY <1>1
  <2> HIDE DEF Blocks
  <2> QED
    BY <2>1, SeqParts
<1>3. PICK b \in Blocks : b = p[n]
  BY <1>2
<1>4. b.target \in 0..Len(p)
  <2>1. b.target <= Len(p) /\ b.target \in Nat
    BY <1>1, <1>2, <1>3
  <2> QED
    BY <1>2, <2>1
<1>5. b.body \in Seq(Mnemonics) /\ b.last \in Mnemonics
  BY <1>3
<1>6. b.body \o <<b.last>> \in Seq(Mnemonics) /\ Len(b.body \o <<b.last>>) > 0
  BY <1>5
<1> QED
  BY <1>2, <1>3, <1>4, <1>6 DEF BodyOf, CodeOf

LEMMA SuccessorsInside ==
  ASSUME NEW p \in Programs, NEW n \in 1..Len(p)
  PROVE  Successors(p, n) \subseteq 0..Len(p)
<1>1. NextBlock(p, n) \in 0..Len(p) /\ p[n].target \in 0..Len(p) /\ Elsewhere \in 0..Len(p)
  BY ProgramParts DEF NextBlock, Elsewhere
<1> QED
  BY <1>1 DEF Successors

LEMMA LiveOutFlags ==
  ASSUME NEW p \in Programs, NEW n \in 1..Len(p), NEW in \in [1..Len(p) -> SUBSET AllFlags]
  PROVE  /\ LiveOut(p, in, n) \subseteq AllFlags
         /\ \A s \in Successors(p, n) :
              IF s = Elsewhere THEN LiveOut(p, in, n) = AllFlags
                               ELSE s \in 1..Len(p) /\ in[s] \subseteq LiveOut(p, in, n)
<1>1. \A s \in Successors(p, n) : s # Elsewhere => s \in 1..Len(p)
  BY SuccessorsInside, ProgramParts DEF Elsewhere
<1>2. LiveOut(p, in, n) \subseteq AllFlags
  BY <1>1 DEF LiveOut
<1>3. \A s \in Successors(p, n) :
        (IF s = Elsewhere THEN AllFlags ELSE in[s]) \subseteq LiveOut(p, in, n)
  BY DEF LiveOut
<1> QED
  BY <1>1, <1>2, <1>3

\* The transfer of one instruction, backwards.
LEMMA LiveBefore ==
  ASSUME NEW code \in Seq(Mnemonics), NEW i \in 1..Len(code), NEW out \in SUBSET AllFlags
  PROVE  LiveFrom(code, i, out)
           = Reads(code[i]) \cup (LiveFrom(code, i + 1, out) \ Defines(code[i]))
<1>0. code[i] \in Mnemonics /\ Reads(code[i]) \subseteq AllFlags
  BY Contracts
<1>1. UsedFrom(code, i) = Reads(code[i]) \cup (UsedFrom(code, i + 1) \ Defines(code[i]))
  <2>1. ASSUME NEW f \in AllFlags, f \in UsedFrom(code, i), f \notin Reads(code[i])
        PROVE  f \in UsedFrom(code, i + 1) /\ f \notin Defines(code[i])
    <3>1. PICK j \in i..Len(code) :
            f \in Reads(code[j]) /\ \A k \in i..(j - 1) : f \notin Defines(code[k])
      BY <2>1 DEF UsedFrom
    <3>2. j # i
      BY <2>1, <3>1
    <3>3. j \in (i + 1)..Len(code) /\ i \in i..(j - 1)
      BY <3>1, <3>2
    <3>4. \A k \in (i + 1)..(j - 1) : k \in i..(j - 1)
      OBVIOUS
    <3> QED
      BY <3>1, <3>3, <3>4 DEF UsedFrom
  <2>2. ASSUME NEW f \in AllFlags, f \in Reads(code[i]) PROVE f \in UsedFrom(code, i)
    <3>1. i \in i..Len(code) /\ i..(i - 1) = {}
      OBVIOUS
    <3> QED
      BY <2>2, <3>1 DEF UsedFrom
  <2>3. ASSUME NEW f \in AllFlags, f \in UsedFrom(code, i + 1), f \notin Defines(code[i])
        PROVE  f \in UsedFrom(code, i)
    <3>1. PICK j \in (i + 1)..Len(code) :
            f \in Reads(code[j]) /\ \A k \in (i + 1)..(j - 1) : f \notin Defines(code[k])
      BY <2>3 DEF UsedFrom
    <3>2. j \in i..Len(code) /\ \A k \in i..(j - 1) : k = i \/ k \in (i + 1)..(j - 1)
      BY <3>1
    <3> QED
      BY <2>3, <3>1, <3>2 DEF UsedFrom
  <2>4. UsedFrom(code, i) \subseteq AllFlags /\ UsedFrom(code, i + 1) \subseteq AllFlags
    BY DEF UsedFrom
  <2> QED
    BY <1>0, <2>1, <2>2, <2>3, <2>4
<1>2. DefinedFrom(code, i) = Defines(code[i]) \cup DefinedFrom(code, i + 1)
  <2>1. i..Len(code) = {i} \cup ((i + 1)..Len(code))
    OBVIOUS
  <2> QED
    BY <2>1 DEF DefinedFrom
<1> QED
  BY <1>1, <1>2 DEF LiveFrom

LEMMA LiveAtEnd ==
  ASSUME NEW code \in Seq(Mnemonics), NEW out \in SUBSET AllFlags
  PROVE  LiveFrom(code, Len(code) + 1, out) = out
<1>1. (Len(code) + 1)..Len(code) = {}
  OBVIOUS
<1> QED
  BY <1>1 DEF LiveFrom, UsedFrom, DefinedFrom

LEMMA LiveFlags ==
  ASSUME NEW code, NEW i, NEW out \in SUBSET AllFlags
  PROVE  LiveFrom(code, i, out) \subseteq AllFlags
  BY DEF LiveFrom, UsedFrom

\* The equations of a block.
Settled(n) ==
  /\ liveOut[n] = LiveOut(program, liveIn, n)
  /\ liveIn[n] = LiveFrom(BodyOf(program, n), 1, liveOut[n])

FlagTypes ==
  /\ program \in Programs
  /\ stale \subseteq AllFlags
  /\ leader \in 0..Len(program) /\ changed \in BOOLEAN
  /\ liveIn \in [1..Len(program) -> SUBSET AllFlags]
  /\ liveOut \in [1..Len(program) -> SUBSET AllFlags]
  /\ live \in {<< >>, LiveDefined(program, liveOut)}
  /\ \/ spot = Left
     \/ \E n \in 1..Len(program) : \E i \in 1..Len(BodyOf(program, n)) : spot = <<n, i>>

\* A sweep that has changed nothing has settled the blocks it visited.
AnalysisInv ==
  /\ Analyzing => spot = <<1, 1>> /\ stale = {}
  /\ ~changed => \A n \in (leader + 1)..Len(program) : Settled(n)
  /\ ~Analyzing => leader = 0 /\ ~changed

\* What is stale is not live.
StaleInv ==
  /\ spot = Left => stale = {}
  /\ ~Analyzing /\ spot # Left =>
       stale \cap LiveFrom(BodyOf(program, spot[1]), spot[2], liveOut[spot[1]]) = {}

LEMMA Spots ==
  ASSUME NEW n \in Nat, NEW i \in Nat, n > 0
  PROVE  <<n, i>> # Left /\ <<n, i>>[1] = n /\ <<n, i>>[2] = i
  BY DEF Left

LEMMA FlagsStart == FlagInit => FlagTypes /\ AnalysisInv /\ StaleInv
<1> SUFFICES ASSUME FlagInit PROVE FlagTypes /\ AnalysisInv /\ StaleInv
  OBVIOUS
<1>1. /\ program \in Programs /\ liveIn = [n \in 1..Len(program) |-> {}] /\ liveOut = liveIn
      /\ leader = Len(program) /\ changed = FALSE
      /\ live = << >> /\ spot = <<1, 1>> /\ stale = {}
  BY DEF FlagInit
<1>2. Len(program) \in Nat /\ 1 \in 1..Len(program)
  BY <1>1, ProgramLength
<1>3. 1 \in 1..Len(BodyOf(program, 1))
  <2>1. BodyOf(program, 1) \in Seq(Mnemonics) /\ Len(BodyOf(program, 1)) > 0
    BY <1>1, <1>2, ProgramParts
  <2> QED
    BY <2>1
<1>4. FlagTypes
  <2>1. liveIn \in [1..Len(program) -> SUBSET AllFlags] /\ liveOut = liveIn
    BY <1>1
  <2>2. \E n \in 1..Len(program) : \E i \in 1..Len(BodyOf(program, n)) : spot = <<n, i>>
    BY <1>1, <1>2, <1>3
  <2>3. leader \in 0..Len(program)
    BY <1>1, <1>2
  <2>4. changed \in BOOLEAN /\ stale \subseteq AllFlags
    BY <1>1
  <2> QED
    BY <1>1, <2>1, <2>2, <2>3, <2>4 DEF FlagTypes
<1>5. AnalysisInv
  BY <1>1, <1>2 DEF AnalysisInv, Analyzing
<1>6. StaleInv
  BY <1>1, Spots DEF StaleInv, Analyzing
<1> QED
  BY <1>4, <1>5, <1>6

\* A translation is not empty.
LEMMA TranslationIsThere ==
  ASSUME NEW p \in Programs, NEW out
  PROVE  LiveDefined(p, out) # << >>
<1>1. Len(p) \in Nat /\ Len(p) > 0
  BY ProgramLength
<1>2. DOMAIN LiveDefined(p, out) = 1..Len(p)
  BY DEF LiveDefined
<1>3. 1 \in 1..Len(p) /\ 1 \notin DOMAIN << >>
  BY <1>1
<1> QED
  BY <1>2, <1>3

LEMMA VisitKeeps ==
  ASSUME FlagTypes, AnalysisInv, VisitBlock
  PROVE  FlagTypes' /\ AnalysisInv' /\ StaleInv'
<1>1. /\ live = << >> /\ live' = << >> /\ leader > 0 /\ leader' = leader - 1
      /\ program' = program /\ spot' = spot /\ stale' = stale
      /\ spot = <<1, 1>> /\ stale = {}
      /\ program \in Programs /\ leader \in 1..Len(program) /\ Len(program) \in Nat
  BY ProgramLength DEF VisitBlock, Analyzing, FlagTypes, AnalysisInv
<1>2. PICK out \in SUBSET AllFlags : out = LiveOut(program, liveIn, leader)
  BY <1>1, LiveOutFlags DEF FlagTypes
<1>3. PICK in \in SUBSET AllFlags : in = LiveFrom(BodyOf(program, leader), 1, out)
  BY LiveFlags
<1>4. /\ liveOut' = [liveOut EXCEPT ![leader] = out]
      /\ liveIn' = [liveIn EXCEPT ![leader] = in]
      /\ changed' = (changed \/ <<liveIn, liveOut>>' # <<liveIn, liveOut>>)
      /\ liveIn \in [1..Len(program) -> SUBSET AllFlags]
      /\ liveOut \in [1..Len(program) -> SUBSET AllFlags]
  <2>1. liveOut' = [liveOut EXCEPT ![leader] = out]
    BY <1>2 DEF VisitBlock
  <2>2. liveOut'[leader] = out
    BY <1>1, <2>1 DEF FlagTypes
  <2>3. liveIn' = [liveIn EXCEPT ![leader] = in]
    BY <1>3, <2>2 DEF VisitBlock, BodyOf
  <2> QED
    BY <2>1, <2>3 DEF VisitBlock, FlagTypes
<1>5. FlagTypes'
  <2>1. /\ liveIn' \in [1..Len(program) -> SUBSET AllFlags]
        /\ liveOut' \in [1..Len(program) -> SUBSET AllFlags]
    BY <1>4
  <2>2. leader' \in 0..Len(program') /\ changed' \in BOOLEAN
    BY <1>1, <1>4 DEF FlagTypes
  <2>3. \/ spot' = Left
        \/ \E n \in 1..Len(program') : \E i \in 1..Len(BodyOf(program', n)) : spot' = <<n, i>>
    BY <1>1 DEF FlagTypes
  <2> QED
    BY <1>1, <2>1, <2>2, <2>3 DEF FlagTypes, BodyOf
<1>6. AnalysisInv'
  <2>1. ASSUME ~changed', NEW n \in (leader' + 1)..Len(program') PROVE Settled(n)'
    <3>1. ~changed /\ liveIn' = liveIn /\ liveOut' = liveOut
      BY <1>4, <2>1
    <3>2. Settled(n)
      <4>1. CASE n = leader
        <5>1. liveOut[leader] = out /\ liveIn[leader] = in
          BY <1>1, <1>4, <3>1
        <5> QED
          BY <1>2, <1>3, <4>1, <5>1 DEF Settled
      <4>2. CASE n # leader
        <5>1. n \in (leader + 1)..Len(program)
          BY <1>1, <4>2
        <5> QED
          BY <3>1, <5>1 DEF AnalysisInv
      <4> QED
        BY <4>1, <4>2
    <3> QED
      BY <1>1, <3>1, <3>2 DEF Settled, BodyOf
  <2> QED
    BY <1>1, <2>1 DEF AnalysisInv, Analyzing
<1>7. StaleInv'
  BY <1>1, Spots DEF StaleInv, Analyzing
<1> QED
  BY <1>5, <1>6, <1>7

LEMMA SweepKeeps ==
  ASSUME FlagTypes, AnalysisInv, SweepAgain
  PROVE  FlagTypes' /\ AnalysisInv' /\ StaleInv'
<1>1. /\ live = << >> /\ live' = << >> /\ leader' = Len(program) /\ changed' = FALSE
      /\ UNCHANGED <<program, liveIn, liveOut, live, spot, stale>>
      /\ program \in Programs /\ Len(program) \in Nat
  BY ProgramLength DEF SweepAgain, Analyzing, FlagTypes
<1>2. FlagTypes'
  <2>1. leader' \in 0..Len(program')
    BY <1>1
  <2>2. changed' \in BOOLEAN
    BY <1>1
  <2>3. \/ spot' = Left
        \/ \E n \in 1..Len(program') : \E i \in 1..Len(BodyOf(program', n)) : spot' = <<n, i>>
    BY <1>1 DEF FlagTypes
  <2> QED
    BY <1>1, <2>1, <2>2, <2>3 DEF FlagTypes, BodyOf
<1>3. AnalysisInv'
  <2>1. (leader' + 1)..Len(program') = {}
    BY <1>1
  <2> QED
    BY <1>1, <2>1 DEF AnalysisInv, Analyzing
<1>4. StaleInv'
  BY <1>1, Spots DEF StaleInv, AnalysisInv, Analyzing
<1> QED
  BY <1>2, <1>3, <1>4

LEMMA TranslateKeeps ==
  ASSUME FlagTypes, AnalysisInv, Translate
  PROVE  FlagTypes' /\ AnalysisInv' /\ StaleInv'
<1>1. /\ live = << >> /\ live' = LiveDefined(program, liveOut) /\ leader = 0 /\ ~changed
      /\ UNCHANGED <<program, liveIn, liveOut, leader, changed, spot, stale>>
      /\ program \in Programs
  BY DEF Translate, Analyzing, FlagTypes
<1>2. FlagTypes'
  <2>1. live' \in {<< >>, LiveDefined(program', liveOut')}
    BY <1>1
  <2>2. \/ spot' = Left
        \/ \E n \in 1..Len(program') : \E i \in 1..Len(BodyOf(program', n)) : spot' = <<n, i>>
    BY <1>1 DEF FlagTypes
  <2> QED
    BY <1>1, <2>1, <2>2 DEF FlagTypes, BodyOf
<1>3. AnalysisInv'
  <2>1. live' # << >>
    BY <1>1, TranslationIsThere
  <2>2. \A n \in (leader + 1)..Len(program) : Settled(n)
    BY <1>1 DEF AnalysisInv
  <2>3. \A n \in (leader' + 1)..Len(program') : Settled(n)'
    BY <1>1, <2>2 DEF Settled, BodyOf
  <2> QED
    BY <1>1, <2>1, <2>3 DEF AnalysisInv, Analyzing
<1>4. StaleInv'
  BY <1>1 DEF StaleInv, AnalysisInv, Analyzing
<1> QED
  BY <1>2, <1>3, <1>4

\* The instruction that is run, and where control goes.
RunsAt(n, i) ==
  /\ spot = <<n, i>> /\ live # << >>
  /\ \E set \in Sets(BodyOf(program, n)[i]) :
       stale' = (stale \ set)
         \cup (set \ (Defines(BodyOf(program, n)[i])
                        \cap LiveFrom(BodyOf(program, n), i + 1, liveOut[n])))
  /\ \/ i < Len(BodyOf(program, n)) /\ spot' = <<n, i + 1>>
     \/ /\ i = Len(BodyOf(program, n))
        /\ \E s \in Successors(program, n) :
             \/ s = Elsewhere /\ spot' = Left
             \/ s \in 1..Len(program) /\ s # Elsewhere /\ spot' = <<s, 1>>
  /\ UNCHANGED <<program, liveIn, liveOut, leader, changed, live>>

LEMMA ExecuteRuns ==
  ASSUME FlagTypes, AnalysisInv, Execute
  PROVE  \E n \in 1..Len(program) : \E i \in 1..Len(BodyOf(program, n)) : RunsAt(n, i)
<1>1. program \in Programs /\ Len(program) \in Nat
  BY ProgramLength DEF FlagTypes
<1>2. PICK n \in 1..Len(program) : \E i \in 1..Len(BodyOf(program, n)) : spot = <<n, i>>
  BY DEF Execute, Running, FlagTypes
<1>3. PICK i \in 1..Len(BodyOf(program, n)) : spot = <<n, i>>
  BY <1>2
<1>4. spot[1] = n /\ spot[2] = i
  BY <1>3
<1>5. live # << >> /\ live = LiveDefined(program, liveOut)
  BY DEF Execute, Running, Analyzing, FlagTypes
<1>6. PICK code : code = BodyOf(program, n) /\ code = CodeOf(program[n])
  BY DEF BodyOf
<1>7. live[n][i] = Defines(code[i]) \cap LiveFrom(code, i + 1, liveOut[n])
  <2>1. live[n] = [k \in 1..Len(code) |-> Defines(code[k]) \cap LiveFrom(code, k + 1, liveOut[n])]
    BY <1>5, <1>6 DEF LiveDefined
  <2> QED
    BY <1>6, <2>1
<1>8. \E set \in Sets(code[i]) : stale' = (stale \ set) \cup (set \ live[n][i])
  BY <1>4, <1>6 DEF Execute, Current
<1>9. \/ i < Len(code) /\ spot' = <<n, i + 1>>
      \/ /\ i = Len(code)
         /\ \E s \in Successors(program, n) :
              \/ s = Elsewhere /\ spot' = Left
              \/ s \in 1..Len(program) /\ s # Elsewhere /\ spot' = <<s, 1>>
  <2>1. Len(code) \in Nat
    BY <1>1, <1>6, ProgramParts
  <2>2. CASE i < Len(code)
    <3>1. spot' = <<n, i + 1>>
      BY <1>4, <1>6, <2>2 DEF Execute, Follow
    <3> QED
      BY <2>2, <3>1
  <2>3. CASE ~(i < Len(code))
    <3>1. PICK s \in Successors(program, n) : spot' = IF s = Elsewhere THEN Left ELSE <<s, 1>>
      BY <1>4, <1>6, <2>3 DEF Execute, Follow
    <3>2. s # Elsewhere => s \in 1..Len(program)
      BY <1>1, SuccessorsInside DEF Elsewhere
    <3>3. i = Len(code)
      BY <1>6, <2>1, <2>3
    <3> QED
      BY <3>1, <3>2, <3>3
  <2> QED
    BY <2>2, <2>3
<1>10. UNCHANGED <<program, liveIn, liveOut, leader, changed, live>>
  BY DEF Execute
<1>11. RunsAt(n, i)
  <2>1. \E set \in Sets(code[i]) :
          stale' = (stale \ set)
            \cup (set \ (Defines(code[i]) \cap LiveFrom(code, i + 1, liveOut[n])))
    BY <1>7, <1>8
  <2> QED
    BY <1>3, <1>5, <1>6, <1>9, <1>10, <2>1 DEF RunsAt
<1> QED
  BY <1>11

LEMMA ExecuteTypes ==
  ASSUME FlagTypes, AnalysisInv, NEW n \in 1..Len(program),
         NEW i \in 1..Len(BodyOf(program, n)), RunsAt(n, i)
  PROVE  FlagTypes' /\ AnalysisInv'
<1>1. /\ program \in Programs /\ program' = program /\ Len(program) \in Nat
      /\ UNCHANGED <<program, liveIn, liveOut, leader, changed, live>> /\ live # << >>
  BY ProgramLength DEF FlagTypes, RunsAt
<1>2. PICK m \in Mnemonics : m = BodyOf(program, n)[i]
  BY <1>1, ProgramParts
<1>3. stale' \subseteq AllFlags
  <2>1. PICK set \in Sets(m) :
          stale' = (stale \ set)
            \cup (set \ (Defines(m) \cap LiveFrom(BodyOf(program, n), i + 1, liveOut[n])))
    BY <1>2 DEF RunsAt
  <2>2. set \subseteq AllFlags
    BY <2>1, SetsClaimed, Contracts
  <2> QED
    BY <2>1, <2>2 DEF FlagTypes
<1>4. \/ spot' = Left
      \/ \E k \in 1..Len(program) : \E j \in 1..Len(BodyOf(program, k)) : spot' = <<k, j>>
  <2>1. CASE i < Len(BodyOf(program, n)) /\ spot' = <<n, i + 1>>
    <3>1. i + 1 \in 1..Len(BodyOf(program, n))
      <4>1. Len(BodyOf(program, n)) \in Nat
        BY <1>1, ProgramParts
      <4> QED
        BY <2>1, <4>1
    <3> QED
      BY <2>1, <3>1
  <2>2. ASSUME NEW s \in 1..Len(program), spot' = <<s, 1>>
        PROVE  \E k \in 1..Len(program) : \E j \in 1..Len(BodyOf(program, k)) : spot' = <<k, j>>
    <3>1. 1 \in 1..Len(BodyOf(program, s))
      <4>1. BodyOf(program, s) \in Seq(Mnemonics) /\ Len(BodyOf(program, s)) > 0
        BY <1>1, ProgramParts
      <4> QED
        BY <4>1
    <3> QED
      BY <2>2, <3>1
  <2> QED
    BY <2>1, <2>2 DEF RunsAt
<1>5. FlagTypes'
  <2>1. leader \in 0..Len(program) /\ changed \in BOOLEAN
    BY DEF FlagTypes
  <2> QED
    BY <1>1, <1>3, <1>4, <2>1 DEF FlagTypes, BodyOf
<1>6. AnalysisInv'
  <2>1. \A k \in (leader + 1)..Len(program) : ~changed => Settled(k)
    BY DEF AnalysisInv
  <2>2. \A k \in (leader' + 1)..Len(program') : ~changed' => Settled(k)'
    BY <1>1, <2>1 DEF Settled, BodyOf
  <2> QED
    BY <1>1, <2>2 DEF AnalysisInv, Analyzing
<1> QED
  BY <1>5, <1>6

LEMMA JudgedAt ==
  ASSUME WellJudged, FlagTypes, live # << >>, NEW n \in 1..Len(program),
         NEW i \in 1..Len(BodyOf(program, n)), NEW m, m = BodyOf(program, n)[i]
  PROVE  /\ Uses(m) \subseteq Reads(m)
         /\ Misjudged(m) \cap Defines(m)
              \cap LiveFrom(BodyOf(program, n), i + 1, liveOut[n]) = {}
<1>1. PICK code : code = BodyOf(program, n) /\ code = CodeOf(program[n])
  BY DEF BodyOf
<1>2. live = LiveDefined(program, liveOut)
  BY DEF FlagTypes
<1>3. n \in DOMAIN live
  BY <1>2 DEF LiveDefined
<1>4. live[n] = [k \in 1..Len(code) |-> Defines(code[k]) \cap LiveFrom(code, k + 1, liveOut[n])]
  BY <1>1, <1>2 DEF LiveDefined
<1>5. i \in DOMAIN live[n] /\ live[n][i] = Defines(m) \cap LiveFrom(code, i + 1, liveOut[n])
  BY <1>1, <1>4
<1>6. Judged(n, i)
  BY <1>3, <1>5 DEF WellJudged
<1>7. Uses(m) \subseteq Reads(m) /\ Misjudged(m) \cap live[n][i] = {}
  BY <1>1, <1>6 DEF Judged
<1> QED
  BY <1>1, <1>5, <1>7

LEMMA ExecuteKeepsFresh ==
  ASSUME WellJudged, FlagTypes, AnalysisInv, StaleInv, NEW n \in 1..Len(program),
         NEW i \in 1..Len(BodyOf(program, n)), RunsAt(n, i)
  PROVE  StaleInv'
<1>1. /\ program \in Programs /\ program' = program /\ Len(program) \in Nat
      /\ liveIn' = liveIn /\ liveOut' = liveOut /\ live' = live /\ live # << >>
      /\ stale \subseteq AllFlags
  BY ProgramLength DEF FlagTypes, RunsAt
<1>2. PICK code \in Seq(Mnemonics) : code = BodyOf(program, n) /\ i \in 1..Len(code)
  BY <1>1, ProgramParts
<1>3. PICK out \in SUBSET AllFlags : out = liveOut[n]
  BY DEF FlagTypes
<1>4. PICK m \in Mnemonics : m = code[i]
  BY <1>2
<1>j. Misjudged(m) \cap Defines(m) \cap LiveFrom(code, i + 1, out) = {}
  BY <1>1, <1>2, <1>3, <1>4, JudgedAt
<1>5. stale \cap (Reads(m) \cup (LiveFrom(code, i + 1, out) \ Defines(m))) = {}
  <2>1. spot # Left /\ spot[1] = n /\ spot[2] = i
    <3>1. spot = <<n, i>> /\ n \in Nat /\ n > 0 /\ i \in Nat
      BY DEF RunsAt
    <3> QED
      BY <3>1, Spots
  <2>2. stale \cap LiveFrom(code, i, out) = {}
    BY <1>1, <1>2, <1>3, <2>1 DEF StaleInv, Analyzing
  <2> QED
    BY <1>2, <1>4, <2>2, LiveBefore
<1>6. PICK set \in Sets(m) :
        stale' = (stale \ set) \cup (set \ (Defines(m) \cap LiveFrom(code, i + 1, out)))
  BY <1>2, <1>3, <1>4 DEF RunsAt
<1>c. set \subseteq Defines(m) /\ Defines(m) \ set \subseteq Misjudged(m) \cup Reads(m)
  BY <1>4, SetsClaimed
<1>7. stale' \cap LiveFrom(code, i + 1, out) = {}
  BY <1>5, <1>6, <1>j, <1>c
<1>8. CASE i < Len(BodyOf(program, n)) /\ spot' = <<n, i + 1>>
  <2>1. spot' # Left /\ spot'[1] = n /\ spot'[2] = i + 1
    BY <1>8, Spots
  <2> QED
    BY <1>1, <1>2, <1>3, <1>7, <2>1 DEF StaleInv, BodyOf
<1>9. ASSUME NEW s \in Successors(program, n), i = Len(code),
             \/ s = Elsewhere /\ spot' = Left
             \/ s \in 1..Len(program) /\ s # Elsewhere /\ spot' = <<s, 1>>
      PROVE  StaleInv'
  <2>1. stale' \cap out = {}
    BY <1>2, <1>7, <1>9, LiveAtEnd
  <2>2. \A k \in 1..Len(program) : Settled(k)
    BY <1>1 DEF AnalysisInv, Analyzing
  <2>3. out = LiveOut(program, liveIn, n)
    BY <1>3, <2>2 DEF Settled
  <2>4. CASE s = Elsewhere /\ spot' = Left
    <3>1. out = AllFlags
      BY <1>1, <2>3, <2>4, LiveOutFlags DEF FlagTypes
    <3>2. stale' \subseteq AllFlags
      BY <1>1, <1>4, <1>6, <1>c, Contracts
    <3> QED
      BY <2>1, <2>4, <3>1, <3>2 DEF StaleInv
  <2>5. CASE s \in 1..Len(program) /\ s # Elsewhere /\ spot' = <<s, 1>>
    <3>1. liveIn[s] \subseteq out
      BY <1>1, <2>3, <2>5, LiveOutFlags DEF FlagTypes
    <3>2. liveIn[s] = LiveFrom(BodyOf(program, s), 1, liveOut[s])
      BY <2>2, <2>5 DEF Settled
    <3>3. stale' \cap LiveFrom(BodyOf(program', s), 1, liveOut'[s]) = {}
      BY <1>1, <2>1, <3>1, <3>2
    <3>4. spot' # Left /\ spot'[1] = s /\ spot'[2] = 1
      BY <2>5, Spots
    <3> QED
      BY <3>3, <3>4 DEF StaleInv, BodyOf
  <2> QED
    BY <1>9, <2>4, <2>5
<1> QED
  BY <1>2, <1>8, <1>9 DEF RunsAt

LEMMA FlagTypesKept ==
  FlagTypes /\ AnalysisInv /\ [FlagNext]_flagVars => FlagTypes' /\ AnalysisInv'
<1> SUFFICES ASSUME FlagTypes, AnalysisInv, [FlagNext]_flagVars PROVE FlagTypes' /\ AnalysisInv'
  OBVIOUS
<1>1. CASE UNCHANGED flagVars
  BY <1>1 DEF flagVars, FlagTypes, AnalysisInv, Analyzing, Settled, BodyOf
<1>2. CASE Execute
  BY <1>2, ExecuteRuns, ExecuteTypes
<1> QED
  BY <1>1, <1>2, VisitKeeps, SweepKeeps, TranslateKeeps DEF FlagNext, Finished

\* The translation stays what it is.
LEMMA JudgedBefore ==
  ASSUME WellJudged', UNCHANGED <<program, live>>
  PROVE  WellJudged
  BY DEF WellJudged, Judged

FreshInv == WellJudged => StaleInv

LEMMA FreshKept ==
  FlagTypes /\ AnalysisInv /\ FreshInv /\ [FlagNext]_flagVars => FreshInv'
<1> SUFFICES ASSUME FlagTypes, AnalysisInv, FreshInv, [FlagNext]_flagVars, WellJudged'
             PROVE  StaleInv'
  BY DEF FreshInv
<1>1. CASE UNCHANGED flagVars
  <2>1. WellJudged
    BY <1>1, JudgedBefore DEF flagVars
  <2> QED
    BY <1>1, <2>1 DEF flagVars, FreshInv, StaleInv, Analyzing, BodyOf
<1>2. CASE Execute
  <2>1. WellJudged
    BY <1>2, JudgedBefore DEF Execute
  <2> QED
    BY <1>2, <2>1, ExecuteRuns, ExecuteKeepsFresh DEF FreshInv
<1> QED
  BY <1>1, <1>2, VisitKeeps, SweepKeeps, TranslateKeeps DEF FlagNext, Finished

LEMMA FlagInvariant == FlagSpec => [](FlagTypes /\ AnalysisInv)
<1> QED
  BY FlagsStart, FlagTypesKept, PTL DEF FlagSpec

(* The masks stay masks and control stays in the program, for every        *)
(* program: the analysis visits blocks there are, and what it returns is   *)
(* what its equations say.                                                 *)
THEOREM FlagTypeCorrect == FlagSpec => []FlagTypeOK
<1>1. FlagTypes => FlagTypeOK
  <2>1. ASSUME NEW n \in 1..Len(program), NEW i \in 1..Len(BodyOf(program, n)), spot = <<n, i>>
        PROVE  spot[1] \in 1..Len(program) /\ spot[2] \in 1..Len(CodeOf(program[spot[1]]))
    BY <2>1 DEF BodyOf
  <2> QED
    BY <2>1 DEF FlagTypes, FlagTypeOK
<1> QED
  BY <1>1, FlagInvariant, PTL

(* For every program, with any calls, loops and ends, the sweeps of analyze *)
(* end in flags that are enough, but for the flags effects() misjudges: if  *)
(* none of these is live where it is misjudged, no instruction on any path  *)
(* reads a flag that was not computed, and control leaves with none wrong.  *)
THEOREM NoFlagIsStale == FlagSpec => []FlagsAreFresh
<1>1. FlagTypes /\ AnalysisInv /\ FreshInv => FlagsAreFresh
  <2> SUFFICES ASSUME FlagTypes, AnalysisInv, StaleInv, WellJudged, Running
               PROVE  Uses(Current) \cap stale = {}
    BY DEF FlagsAreFresh, FreshInv, NoStaleFlag, StaleInv
  <2>1. program \in Programs /\ spot # Left /\ live # << >>
    BY DEF FlagTypes, Running, Analyzing
  <2>p. PICK n \in 1..Len(program) : \E k \in 1..Len(BodyOf(program, n)) : spot = <<n, k>>
    BY <2>1 DEF FlagTypes
  <2>2. PICK i \in 1..Len(BodyOf(program, n)) : spot = <<n, i>>
    BY <2>p
  <2>3. PICK code \in Seq(Mnemonics) : code = BodyOf(program, n) /\ i \in 1..Len(code)
    BY <2>1, <2>2, ProgramParts
  <2>4. PICK m \in Mnemonics : m = code[i]
    BY <2>3
  <2>5. spot[1] = n /\ spot[2] = i
    BY <2>2
  <2>6. Current = m
    BY <2>3, <2>4, <2>5 DEF Current, BodyOf
  <2>7. PICK out \in SUBSET AllFlags : out = liveOut[n]
    BY DEF FlagTypes
  <2>8. stale \cap LiveFrom(code, i, out) = {}
    BY <2>1, <2>3, <2>5, <2>7 DEF StaleInv, Analyzing
  <2>9. Reads(m) \subseteq LiveFrom(code, i, out)
    BY <2>3, <2>4, <2>7, LiveBefore
  <2>10. Uses(m) \subseteq Reads(m)
    BY <2>1, <2>3, <2>4, JudgedAt
  <2> QED
    BY <2>6, <2>8, <2>9, <2>10
<1>2. FlagInit => FreshInv
  BY FlagsStart DEF FreshInv
<1>4. FlagSpec => []FreshInv
  BY <1>2, FreshKept, FlagInvariant, PTL DEF FlagSpec
<1> QED
  BY <1>1, <1>4, FlagInvariant, PTL

(* The instructions whose contract of effects() is not what they do: CMC,   *)
(* shifts, rotations and comparisons whose count may be zero, and SAHF.     *)
MisjudgedMnemonics == {"cmc", "shl_cl", "rol_cl", "rcl_cl", "sahf", "repe_scas"}

LEMMA WrongContracts ==
  \A m \in Mnemonics :
    (Uses(m) \subseteq Reads(m) /\ Misjudged(m) = {}) <=> m \notin MisjudgedMnemonics
<1>1. SUFFICES ASSUME NEW m \in Mnemonics
               PROVE (Uses(m) \subseteq Reads(m) /\ Misjudged(m) = {}) <=> m \notin MisjudgedMnemonics
  OBVIOUS
<1>2. CASE m \notin MisjudgedMnemonics
  <2>1. Uses(m) = Reads(m) /\ Sets(m) = {Defines(m)}
    BY <1>2 DEF MisjudgedMnemonics, Uses, Sets
  <2>2. Misjudged(m) = {}
    BY <2>1 DEF Misjudged
  <2> QED
    BY <1>2, <2>1, <2>2
<1>3. CASE m = "cmc"
  <2>1. "C" \in Uses(m) /\ Reads(m) = {}
    BY <1>3 DEF Uses, Reads, Contract
  <2> QED
    BY <1>3, <2>1 DEF MisjudgedMnemonics
<1>4. CASE m \in {"shl_cl", "rol_cl", "rcl_cl", "repe_scas"}
  <2>1. {} \in Sets(m)
    BY <1>4 DEF Sets
  <2>2. "O" \in Defines(m) /\ "O" \notin Reads(m)
    <3>1. CASE m = "shl_cl"
      <4>1. Defines(m) = AllFlags /\ Reads(m) = {}
        BY <3>1 DEF Defines, Reads, Contract
      <4> QED
        BY <4>1 DEF AllFlags
    <3>2. CASE m = "rol_cl"
      <4>1. Defines(m) = {"C", "O"} /\ Reads(m) = {}
        BY <3>2 DEF Defines, Reads, Contract
      <4> QED
        BY <4>1
    <3>3. CASE m = "rcl_cl"
      <4>1. Defines(m) = {"C", "O"} /\ Reads(m) = {"C"}
        BY <3>3 DEF Defines, Reads, Contract
      <4> QED
        BY <4>1
    <3>4. CASE m = "repe_scas"
      <4>1. Defines(m) = AllFlags /\ Reads(m) = {"Z"}
        BY <3>4 DEF Defines, Reads, Contract
      <4> QED
        BY <4>1 DEF AllFlags
    <3> QED
      BY <1>4, <3>1, <3>2, <3>3, <3>4
  <2>3. "O" \in Misjudged(m)
    BY <2>1, <2>2, Misjudging
  <2> QED
    BY <1>4, <2>3 DEF MisjudgedMnemonics
<1>5. CASE m = "sahf"
  <2>1. {"C", "Z"} \in Sets(m) /\ "O" \in Defines(m) /\ "O" \notin Reads(m)
    <3>1. Defines(m) = AllFlags /\ Reads(m) = {} /\ Sets(m) = {{"C", "Z"}}
      BY <1>5 DEF Sets, Defines, Reads, Contract
    <3> QED
      BY <3>1 DEF AllFlags
  <2>2. "O" \in Misjudged(m)
    <3>1. "O" \notin {"C", "Z"}
      OBVIOUS
    <3> QED
      BY <2>1, <3>1, Misjudging
  <2> QED
    BY <1>5, <2>2 DEF MisjudgedMnemonics
<1> QED
  BY <1>2, <1>3, <1>4, <1>5 DEF MisjudgedMnemonics

(* Those six apart, which do break it (run FlagsLost shows two), nothing    *)
(* is assumed: of every program without them, no instruction on any path    *)
(* uses a flag that the translation did not compute.                        *)
THEOREM OtherProgramsAreFresh ==
  ASSUME \A p \in Programs : \A n \in 1..Len(p) : \A i \in 1..Len(CodeOf(p[n])) :
           CodeOf(p[n])[i] \notin MisjudgedMnemonics
  PROVE  FlagSpec => []NoStaleFlag
<1>1. FlagTypes => WellJudged
  <2> SUFFICES ASSUME FlagTypes, NEW n \in DOMAIN live, NEW i \in DOMAIN live[n]
               PROVE  Judged(n, i)
    BY DEF WellJudged
  <2>1. live = LiveDefined(program, liveOut) /\ program \in Programs
    BY DEF FlagTypes
  <2>2. n \in 1..Len(program)
    BY <2>1 DEF LiveDefined
  <2>3. i \in 1..Len(CodeOf(program[n]))
    BY <2>1, <2>2 DEF LiveDefined
  <2>4. PICK code \in Seq(Mnemonics) : code = CodeOf(program[n])
    BY <2>1, <2>2, ProgramParts DEF BodyOf
  <2>5. PICK m \in Mnemonics : m = code[i]
    BY <2>3, <2>4
  <2>6. m \notin MisjudgedMnemonics
    BY <2>1, <2>2, <2>3, <2>4, <2>5
  <2>7. Uses(m) \subseteq Reads(m) /\ Misjudged(m) = {}
    BY <2>5, <2>6, WrongContracts
  <2> QED
    BY <2>4, <2>5, <2>7 DEF Judged
<1>2. FlagsAreFresh /\ WellJudged => NoStaleFlag
  BY DEF FlagsAreFresh
<1> QED
  BY <1>1, <1>2, NoFlagIsStale, FlagInvariant, PTL

-----------------------------------------------------------------------------
(* Arithmetic, for bytes and words of 16 bits.                             *)

(* Powers of two.                                                          *)
LEMMA Powers ==
  /\ Two(0) = 1 /\ Two(1) = 2 /\ Two(2) = 4 /\ Two(3) = 8 /\ Two(4) = 16 /\ Two(5) = 32
  /\ Two(6) = 64 /\ Two(7) = 128 /\ Two(8) = 256 /\ Two(15) = 32768 /\ Two(16) = 65536
  /\ Two(31) = 2147483648 /\ Two(32) = 4294967296
  BY DEF Two

(* The widths of the code.                                                 *)
Widths == {8, 16}
HalfWidth(w) == Two(w - 1)

LEMMA WidthValues ==
  ASSUME NEW w \in Widths
  PROVE  \E h \in Nat, q \in Nat : /\ Two(w) = 2 * h /\ HalfWidth(w) = h /\ h = 16 * q /\ q > 0
                                   /\ Two(2 * w) = Two(w) * Two(w)
<1>1. CASE w = 8
  <2>1. w - 1 = 7 /\ 2 * w = 16
    BY <1>1
  <2>2. Two(w) = 256 /\ HalfWidth(w) = 128 /\ Two(2 * w) = 65536
    BY <1>1, <2>1, Powers DEF HalfWidth
  <2>3. 256 = 2 * 128 /\ 128 = 16 * 8 /\ 65536 = 256 * 256
    OBVIOUS
  <2> QED
    BY <2>2, <2>3
<1>2. CASE w = 16
  <2>1. w - 1 = 15 /\ 2 * w = 32
    BY <1>2
  <2>2. Two(w) = 65536 /\ HalfWidth(w) = 32768 /\ Two(2 * w) = 4294967296
    BY <1>2, <2>1, Powers DEF HalfWidth
  <2>3. 65536 = 2 * 32768 /\ 32768 = 16 * 2048 /\ 4294967296 = 65536 * 65536
    OBVIOUS
  <2> QED
    BY <2>2, <2>3
<1> QED
  BY <1>1, <1>2 DEF Widths

WordsOf(w) == 0..Two(w) - 1

LEMMA TopBit ==
  ASSUME NEW w \in Widths, NEW x \in WordsOf(w)
  PROVE  /\ x \in Nat /\ HalfWidth(w) \in Nat /\ Two(w) = 2 * HalfWidth(w)
         /\ Top(w, x) <=> x >= HalfWidth(w)
         /\ Signed(w, x) = IF x >= HalfWidth(w) THEN x - Two(w) ELSE x
         /\ x < 2 * HalfWidth(w)
<1>1. PICK h \in Nat : Two(w) = 2 * h /\ HalfWidth(w) = h /\ h > 0
  BY WidthValues
<1>2. x \in Nat /\ x < 2 * h
  BY <1>1 DEF WordsOf
<1>3. (x \div h) % 2 = 1 <=> x >= h
  <2>1. CASE x < h
    <3>1. x \div h = 0
      BY <1>1, <1>2, <2>1
    <3> QED
      BY <1>2, <2>1, <3>1
  <2>2. CASE x >= h
    <3>1. x \div h = 1
      BY <1>1, <1>2, <2>2
    <3> QED
      BY <1>2, <2>2, <3>1
  <2> QED
    BY <1>2, <2>1, <2>2
<1>4. Top(w, x) <=> x >= h
  BY <1>1, <1>3 DEF Top, Bit, HalfWidth
<1> QED
  BY <1>1, <1>2, <1>4 DEF Signed

LEMMA Bits ==
  ASSUME NEW x \in Nat, NEW i \in 0..8
  PROVE  Bit(x, i) \in {0, 1}
<1>1. PICK d \in Nat : d = Two(i) /\ d > 0
  BY Powers
<1>2. x \div d \in Nat
  BY <1>1
<1>3. (x \div d) % 2 \in {0, 1}
  BY <1>2
<1> QED
  BY <1>1, <1>3 DEF Bit

(* The bits of a byte, counted.                                            *)
BitsTo(x, k) == {i \in 0..k : Bit(x, i) = 1}

LEMMA OneBitMore ==
  ASSUME NEW x \in Nat, NEW k \in 0..6, NEW n \in Nat,
         IsFiniteSet(BitsTo(x, k)), Cardinality(BitsTo(x, k)) = n
  PROVE  IsFiniteSet(BitsTo(x, k + 1)) /\ Cardinality(BitsTo(x, k + 1)) = n + Bit(x, k + 1)
<1>1. PICK b : b = Bit(x, k + 1) /\ b \in {0, 1}
  BY Bits
<1>2. CASE b = 0
  <2>1. BitsTo(x, k + 1) = BitsTo(x, k)
    BY <1>1, <1>2 DEF BitsTo
  <2> QED
    BY <1>1, <1>2, <2>1
<1>3. CASE b = 1
  <2>1. BitsTo(x, k + 1) = BitsTo(x, k) \cup {k + 1} /\ k + 1 \notin BitsTo(x, k)
    BY <1>1, <1>3 DEF BitsTo
  <2> QED
    BY <1>1, <1>3, <2>1, FS_AddElement
<1> QED
  BY <1>1, <1>2, <1>3

LEMMA BitSum ==
  ASSUME NEW x \in Nat
  PROVE  Cardinality(BitsTo(x, 7)) =
           Bit(x, 0) + Bit(x, 1) + Bit(x, 2) + Bit(x, 3) + Bit(x, 4) + Bit(x, 5) + Bit(x, 6) + Bit(x, 7)
<1>1. PICK b0 \in {0, 1}, b1 \in {0, 1}, b2 \in {0, 1}, b3 \in {0, 1},
           b4 \in {0, 1}, b5 \in {0, 1}, b6 \in {0, 1}, b7 \in {0, 1} :
        /\ b0 = Bit(x, 0) /\ b1 = Bit(x, 1) /\ b2 = Bit(x, 2) /\ b3 = Bit(x, 3)
        /\ b4 = Bit(x, 4) /\ b5 = Bit(x, 5) /\ b6 = Bit(x, 6) /\ b7 = Bit(x, 7)
  BY Bits
<1>2. \A k \in 0..6, n \in Nat :
        IsFiniteSet(BitsTo(x, k)) /\ Cardinality(BitsTo(x, k)) = n
          => IsFiniteSet(BitsTo(x, k + 1)) /\ Cardinality(BitsTo(x, k + 1)) = n + Bit(x, k + 1)
  BY OneBitMore
<1> DEFINE C(k, n) == IsFiniteSet(BitsTo(x, k)) /\ Cardinality(BitsTo(x, k)) = n
<1>3. C(0, b0)
  <2>1. b0 = 0 => BitsTo(x, 0) = {}
    BY <1>1 DEF BitsTo
  <2>2. b0 = 1 => BitsTo(x, 0) = {0}
    BY <1>1 DEF BitsTo
  <2>3. IsFiniteSet({}) /\ Cardinality({}) = 0 /\ IsFiniteSet({0}) /\ Cardinality({0}) = 1
    BY FS_EmptySet, FS_Singleton
  <2> QED
    BY <2>1, <2>2, <2>3
<1> HIDE DEF C
<1>4. \A k \in 0..6, n \in Nat : C(k, n) => C(k + 1, n + Bit(x, k + 1))
  BY <1>2 DEF C
<1>5. \A k \in 0..6, j \in 1..7, n \in Nat, s \in Nat :
        j = k + 1 /\ s = n + Bit(x, j) /\ C(k, n) => C(j, s)
  BY <1>4
<1>6. PICK s1 \in Nat, s2 \in Nat, s3 \in Nat, s4 \in Nat, s5 \in Nat, s6 \in Nat, s7 \in Nat :
        /\ s1 = b0 + b1 /\ s2 = s1 + b2 /\ s3 = s2 + b3 /\ s4 = s3 + b4
        /\ s5 = s4 + b5 /\ s6 = s5 + b6 /\ s7 = s6 + b7
  OBVIOUS
<1>11. C(1, s1)
  BY <1>1, <1>3, <1>5, <1>6
<1>12. C(2, s2)
  BY <1>1, <1>11, <1>5, <1>6
<1>13. C(3, s3)
  BY <1>1, <1>12, <1>5, <1>6
<1>14. C(4, s4)
  BY <1>1, <1>13, <1>5, <1>6
<1>15. C(5, s5)
  BY <1>1, <1>14, <1>5, <1>6
<1>16. C(6, s6)
  BY <1>1, <1>15, <1>5, <1>6
<1>17. C(7, s7)
  BY <1>1, <1>16, <1>5, <1>6
<1>18. s7 = b0 + b1 + b2 + b3 + b4 + b5 + b6 + b7
  BY <1>6
<1> QED
  BY <1>1, <1>17, <1>18 DEF C

LEMMA ParityOf ==
  ASSUME NEW b0 \in {0, 1}, NEW b1 \in {0, 1}, NEW b2 \in {0, 1}, NEW b3 \in {0, 1}
  PROVE  Bit(ParityTable, b0 + 2 * b1 + 4 * b2 + 8 * b3) = 1 <=> (b0 + b1 + b2 + b3) % 2 = 0
<1>1. /\ Two(9) = 512 /\ Two(10) = 1024 /\ Two(11) = 2048 /\ Two(12) = 4096 /\ Two(13) = 8192
      /\ Two(14) = 16384
  BY DEF Two
<1>2. /\ Bit(ParityTable, 0) = 1 /\ Bit(ParityTable, 1) = 0 /\ Bit(ParityTable, 2) = 0
      /\ Bit(ParityTable, 3) = 1 /\ Bit(ParityTable, 4) = 0 /\ Bit(ParityTable, 5) = 1
      /\ Bit(ParityTable, 6) = 1 /\ Bit(ParityTable, 7) = 0 /\ Bit(ParityTable, 8) = 0
      /\ Bit(ParityTable, 9) = 1 /\ Bit(ParityTable, 10) = 1 /\ Bit(ParityTable, 11) = 0
      /\ Bit(ParityTable, 12) = 1 /\ Bit(ParityTable, 13) = 0 /\ Bit(ParityTable, 14) = 0
      /\ Bit(ParityTable, 15) = 1
  BY <1>1, Powers DEF Bit, ParityTable
<1> QED
  BY <1>2

LEMMA Parity ==
  ASSUME NEW x \in Nat
  PROVE  Bit(ParityTable, Folded(x)) = 1 <=> Cardinality({i \in 0..7 : Bit(x, i) = 1}) % 2 = 0
<1>1. PICK b0 \in {0, 1}, b1 \in {0, 1}, b2 \in {0, 1}, b3 \in {0, 1},
           b4 \in {0, 1}, b5 \in {0, 1}, b6 \in {0, 1}, b7 \in {0, 1} :
        /\ b0 = Bit(x, 0) /\ b1 = Bit(x, 1) /\ b2 = Bit(x, 2) /\ b3 = Bit(x, 3)
        /\ b4 = Bit(x, 4) /\ b5 = Bit(x, 5) /\ b6 = Bit(x, 6) /\ b7 = Bit(x, 7)
  BY Bits
<1>2. PICK c0 \in {0, 1}, c1 \in {0, 1}, c2 \in {0, 1}, c3 \in {0, 1} :
        /\ c0 = (b0 + b4) % 2 /\ c1 = (b1 + b5) % 2 /\ c2 = (b2 + b6) % 2 /\ c3 = (b3 + b7) % 2
  OBVIOUS
<1>3. /\ 0 + 4 = 4 /\ 1 + 4 = 5 /\ 2 + 4 = 6 /\ 3 + 4 = 7
  OBVIOUS
<1>4. Over(x, 0) = 1 * c0 /\ Over(x, 1) = 2 * c1 /\ Over(x, 2) = 4 * c2 /\ Over(x, 3) = 8 * c3
  BY <1>1, <1>2, <1>3, Powers DEF Over
<1>5. Folded(x) = c0 + 2 * c1 + 4 * c2 + 8 * c3
  BY <1>4 DEF Folded
<1>6. (c0 + c1 + c2 + c3) % 2 = (b0 + b1 + b2 + b3 + b4 + b5 + b6 + b7) % 2
  BY <1>2
<1>7. BitsTo(x, 7) = {i \in 0..7 : Bit(x, i) = 1}
  BY DEF BitsTo
<1>8. Cardinality(BitsTo(x, 7)) = b0 + b1 + b2 + b3 + b4 + b5 + b6 + b7
  BY <1>1, BitSum
<1>9. Bit(ParityTable, c0 + 2 * c1 + 4 * c2 + 8 * c3) = 1 <=> (c0 + c1 + c2 + c3) % 2 = 0
  BY ParityOf
<1> QED
  BY <1>5, <1>6, <1>7, <1>8, <1>9

LEMMA CommonDescribes ==
  ASSUME NEW w \in Widths, NEW x \in WordsOf(w)
  PROVE  Common(w, x) = Describes(w, x)
<1>1. x \in Nat
  BY TopBit
<1>2. Top(w, x) <=> Signed(w, x) < 0
  BY TopBit
<1>3. When("S", Top(w, x)) = When("S", Signed(w, x) < 0)
  BY <1>2 DEF When
<1>4. When("P", Bit(ParityTable, Folded(x)) = 1)
        = When("P", Cardinality({i \in 0..7 : Bit(x, i) = 1}) % 2 = 0)
  BY <1>1, Parity DEF When
<1> QED
  BY <1>3, <1>4, Zenon DEF Common, Describes

(* Bit 4 of a sum is odd when the lower nibbles carry: of l = 32a + 16b + c. *)
LEMMA NibbleSplit ==
  ASSUME NEW x \in Nat
  PROVE  \E a \in Nat, b \in {0, 1}, c \in 0..15 :
           x = 32 * a + 16 * b + c /\ x % 16 = c /\ Bit(x, 4) = b
<1>1. PICK d \in Nat : d = x \div 16
  OBVIOUS
<1>2. PICK c \in 0..15 : c = x % 16
  OBVIOUS
<1>3. PICK a \in Nat, b \in {0, 1} : a = d \div 2 /\ b = d % 2
  OBVIOUS
<1>4. x = 16 * d + c /\ d = 2 * a + b
  BY <1>1, <1>2, <1>3
<1>5. Bit(x, 4) = b
  BY <1>1, <1>3, Powers DEF Bit
<1> QED
  BY <1>2, <1>4, <1>5

LEMMA NibbleUnique ==
  ASSUME NEW a \in Int, NEW b \in {0, 1}, NEW c \in 0..15, NEW d \in Int, NEW e \in Int,
         NEW f \in 0..15, 32 * a + 16 * b + c = 32 * d + 16 * e + f
  PROVE  (e - b) % 2 = 0 /\ c = f
  OBVIOUS

LEMMA HalfCarryOfSum ==
  ASSUME NEW l \in Nat, NEW r \in Nat, NEW k \in {0, 1}, NEW t \in Int, NEW x \in Nat,
         x = l + r + k - 32 * t
  PROVE  HalfCarry(l, r, x) <=> (l % 16) + (r % 16) + k >= 16
<1>1. PICK a1 \in Nat, b1 \in {0, 1}, c1 \in 0..15 :
        l = 32 * a1 + 16 * b1 + c1 /\ l % 16 = c1 /\ Bit(l, 4) = b1
  BY NibbleSplit
<1>2. PICK a2 \in Nat, b2 \in {0, 1}, c2 \in 0..15 :
        r = 32 * a2 + 16 * b2 + c2 /\ r % 16 = c2 /\ Bit(r, 4) = b2
  BY NibbleSplit
<1>3. PICK a3 \in Nat, b3 \in {0, 1}, c3 \in 0..15 :
        x = 32 * a3 + 16 * b3 + c3 /\ x % 16 = c3 /\ Bit(x, 4) = b3
  BY NibbleSplit
<1>4. PICK h \in {0, 1}, g \in 0..15 : c1 + c2 + k = 16 * h + g /\ (h = 1 <=> c1 + c2 + k >= 16)
  <2>1. CASE c1 + c2 + k >= 16
    <3>1. c1 + c2 + k - 16 \in 0..15 /\ c1 + c2 + k = 16 * 1 + (c1 + c2 + k - 16)
      BY <2>1
    <3> QED
      BY <2>1, <3>1
  <2>2. CASE c1 + c2 + k < 16
    <3>1. c1 + c2 + k \in 0..15 /\ c1 + c2 + k = 16 * 0 + (c1 + c2 + k)
      BY <2>2
    <3> QED
      BY <2>2, <3>1
  <2> QED
    BY <2>1, <2>2
<1>5. 32 * a3 + 16 * b3 + c3 = 32 * (a1 + a2 - t) + 16 * (b1 + b2 + h) + g
  BY <1>1, <1>2, <1>3, <1>4
<1>6. (b1 + b2 + h - b3) % 2 = 0
  <2>1. PICK e \in Int, d \in Int : e = b1 + b2 + h /\ d = a1 + a2 - t
    OBVIOUS
  <2>2. 32 * a3 + 16 * b3 + c3 = 32 * d + 16 * e + g
    BY <1>5, <2>1
  <2>3. (e - b3) % 2 = 0
    BY <2>2, NibbleUnique
  <2> QED
    BY <2>1, <2>3
<1>7. (b1 + b2 + b3) % 2 = 1 <=> h = 1
  BY <1>6
<1> QED
  BY <1>1, <1>2, <1>3, <1>4, <1>7 DEF HalfCarry, Odd

LEMMA HalfCarryOfDifference ==
  ASSUME NEW l \in Nat, NEW r \in Nat, NEW k \in {0, 1}, NEW t \in Int, NEW x \in Nat,
         x = l - r - k + 32 * t
  PROVE  HalfCarry(l, r, x) <=> l % 16 < (r % 16) + k
<1>1. PICK a1 \in Nat, b1 \in {0, 1}, c1 \in 0..15 :
        l = 32 * a1 + 16 * b1 + c1 /\ l % 16 = c1 /\ Bit(l, 4) = b1
  BY NibbleSplit
<1>2. PICK a2 \in Nat, b2 \in {0, 1}, c2 \in 0..15 :
        r = 32 * a2 + 16 * b2 + c2 /\ r % 16 = c2 /\ Bit(r, 4) = b2
  BY NibbleSplit
<1>3. PICK a3 \in Nat, b3 \in {0, 1}, c3 \in 0..15 :
        x = 32 * a3 + 16 * b3 + c3 /\ x % 16 = c3 /\ Bit(x, 4) = b3
  BY NibbleSplit
<1>4. PICK h \in {0, 1}, g \in 0..15 : c1 - c2 - k = g - 16 * h /\ (h = 1 <=> c1 < c2 + k)
  <2>1. CASE c1 < c2 + k
    <3>1. c1 - c2 - k + 16 \in 0..15 /\ c1 - c2 - k = (c1 - c2 - k + 16) - 16 * 1
      BY <2>1
    <3> QED
      BY <2>1, <3>1
  <2>2. CASE c1 >= c2 + k
    <3>1. c1 - c2 - k \in 0..15 /\ c1 - c2 - k = (c1 - c2 - k) - 16 * 0
      BY <2>2
    <3> QED
      BY <2>2, <3>1
  <2> QED
    BY <2>1, <2>2
<1>5. 32 * a3 + 16 * b3 + c3 = 32 * (a1 - a2 + t) + 16 * (b1 - b2 - h) + g
  BY <1>1, <1>2, <1>3, <1>4
<1>6. (b1 - b2 - h - b3) % 2 = 0
  <2>1. PICK e \in Int, d \in Int : e = b1 - b2 - h /\ d = a1 - a2 + t
    OBVIOUS
  <2>2. 32 * a3 + 16 * b3 + c3 = 32 * d + 16 * e + g
    BY <1>5, <2>1
  <2>3. (e - b3) % 2 = 0
    BY <2>2, NibbleUnique
  <2> QED
    BY <2>1, <2>3
<1>7. (b1 + b2 + b3) % 2 = 1 <=> h = 1
  BY <1>6
<1> QED
  BY <1>1, <1>2, <1>3, <1>4, <1>7 DEF HalfCarry, Odd

(* The word of a sum is one of two numbers.                                *)
LEMMA SumWord ==
  ASSUME NEW w \in Widths, NEW n \in Int, -Two(w) <= n, n < 2 * Two(w)
  PROVE  /\ n % Two(w) = IF n < 0 THEN n + Two(w) ELSE IF n >= Two(w) THEN n - Two(w) ELSE n
         /\ n % Two(w) \in WordsOf(w)
<1>1. PICK h \in Nat : Two(w) = 2 * h /\ h > 0
  BY WidthValues
<1>2. PICK d \in Nat : d = Two(w) /\ d > 0
  BY <1>1
<1>3. n % d = IF n < 0 THEN n + d ELSE IF n >= d THEN n - d ELSE n
  BY <1>2
<1> QED
  BY <1>2, <1>3 DEF WordsOf

LEMMA SumRight ==
  ASSUME NEW w \in Widths, NEW l \in WordsOf(w), NEW r \in WordsOf(w), NEW k \in {0, 1}
  PROVE  Added(w, l, r, k) = Sum(w, l, r, k)
<1>1. PICK h \in Nat, q \in Nat : Two(w) = 2 * h /\ HalfWidth(w) = h /\ h = 16 * q /\ q > 0
  BY WidthValues
<1>2. PICK x : x = (l + r + k) % Two(w)
  OBVIOUS
<1>3. l \in Nat /\ r \in Nat /\ l < 2 * h /\ r < 2 * h
  BY <1>1 DEF WordsOf
<1>4. /\ x = IF l + r + k >= 2 * h THEN l + r + k - 2 * h ELSE l + r + k
      /\ x \in WordsOf(w)
  <2>1. PICK n \in Int : n = l + r + k
    BY <1>3
  <2>2. -Two(w) <= n /\ n < 2 * Two(w) /\ ~(n < 0)
    BY <1>1, <1>3, <2>1
  <2>3. /\ n % Two(w) = IF n < 0 THEN n + Two(w) ELSE IF n >= Two(w) THEN n - Two(w) ELSE n
        /\ n % Two(w) \in WordsOf(w)
    BY <2>2, SumWord
  <2>4. x = n % Two(w)
    BY <1>2, <2>1
  <2>5. x = IF n < 0 THEN n + Two(w) ELSE IF n >= Two(w) THEN n - Two(w) ELSE n
    BY <2>3, <2>4
  <2>6. x = IF n >= 2 * h THEN n - 2 * h ELSE n
    BY <1>1, <2>2, <2>5
  <2>7. x \in WordsOf(w)
    BY <2>3, <2>4
  <2>8. x = IF l + r + k >= 2 * h THEN l + r + k - 2 * h ELSE l + r + k
    BY <1>3, <2>1, <2>6
  <2> QED
    BY <2>7, <2>8
<1>5. Common(w, x) = Describes(w, x)
  BY <1>4, CommonDescribes
<1>6. HalfCarry(l, r, x) <=> (l % 16) + (r % 16) + k >= 16
  <2>1. x \in Nat
    BY <1>4, TopBit
  <2>2. PICK t \in Int : x = l + r + k - 32 * t
    <3>1. CASE l + r + k >= 2 * h
      <4>1. x = l + r + k - 32 * q /\ q \in Int
        BY <1>1, <1>3, <1>4, <3>1
      <4> WITNESS q \in Int
      <4> QED
        BY <4>1
    <3>2. CASE l + r + k < 2 * h
      <4>1. x = l + r + k - 32 * 0
        BY <1>3, <1>4, <3>2
      <4> WITNESS 0 \in Int
      <4> QED
        BY <4>1
    <3> QED
      BY <1>1, <1>3, <3>1, <3>2
  <2> QED
    BY <1>3, <2>1, <2>2, HalfCarryOfSum
<1>7. AddOverflow(w, l, r, x) <=> ~Fits(w, Signed(w, l) + Signed(w, r) + k)
  <2>1. /\ Top(w, l) <=> l >= h
        /\ Signed(w, l) = IF l >= h THEN l - 2 * h ELSE l
    BY <1>1, TopBit
  <2>2. /\ Top(w, r) <=> r >= h
        /\ Signed(w, r) = IF r >= h THEN r - 2 * h ELSE r
    BY <1>1, TopBit
  <2>3. /\ Top(w, x) <=> x >= h
        /\ x \in Nat
    BY <1>1, <1>4, TopBit
  <2>4. Top(w, l) \in BOOLEAN /\ Top(w, r) \in BOOLEAN /\ Top(w, x) \in BOOLEAN
    BY DEF Top
  <2>5. AddOverflow(w, l, r, x) <=> ((l >= h <=> r >= h) /\ ~(l >= h <=> x >= h))
    BY <2>1, <2>2, <2>3, <2>4, Zenon DEF AddOverflow
  <2>6. \A n : Fits(w, n) <=> -h <= n /\ n < h
    BY <1>1 DEF Fits, HalfWidth
  <2> QED
    BY <1>3, <1>4, <2>1, <2>2, <2>3, <2>5, <2>6
<1>8. /\ When("A", HalfCarry(l, r, x)) = When("A", (l % 16) + (r % 16) + k >= 16)
      /\ When("O", AddOverflow(w, l, r, x)) = When("O", ~Fits(w, Signed(w, l) + Signed(w, r) + k))
  BY <1>6, <1>7 DEF When
<1>9. Added(w, l, r, k) = Result(x, Common(w, x) \cup When("C", l + r + k >= Two(w))
                                     \cup When("A", HalfCarry(l, r, x)) \cup When("O", AddOverflow(w, l, r, x)))
  BY <1>2, Zenon DEF Added, Word
<1>10. Sum(w, l, r, k) = Result(x, Describes(w, x) \cup When("C", l + r + k >= Two(w))
                         \cup When("A", (l % 16) + (r % 16) + k >= 16)
                         \cup When("O", ~Fits(w, Signed(w, l) + Signed(w, r) + k)))
  BY <1>2, Zenon DEF Sum
<1> QED
  BY <1>5, <1>8, <1>9, <1>10, Zenon

LEMMA DifferenceRight ==
  ASSUME NEW w \in Widths, NEW l \in WordsOf(w), NEW r \in WordsOf(w), NEW k \in {0, 1}
  PROVE  Subtracted(w, l, r, k) = Difference(w, l, r, k)
<1>1. PICK h \in Nat, q \in Nat : Two(w) = 2 * h /\ HalfWidth(w) = h /\ h = 16 * q /\ q > 0
  BY WidthValues
<1>3. l \in Nat /\ r \in Nat /\ l < 2 * h /\ r < 2 * h
  BY <1>1 DEF WordsOf
<1>2. PICK x : x = (l - r - k) % Two(w) /\ x = (l - (r + k)) % Two(w)
  <2>1. l - r - k = l - (r + k)
    BY <1>3
  <2> QED
    BY <2>1
<1>4. /\ x = IF l < r + k THEN l - r - k + 2 * h ELSE l - r - k
      /\ x \in WordsOf(w)
  <2>1. PICK n \in Int : n = l - r - k
    BY <1>3
  <2>2. -Two(w) <= n /\ n < 2 * Two(w) /\ ~(n >= Two(w)) /\ (n < 0 <=> l < r + k)
    BY <1>1, <1>3, <2>1
  <2>3. /\ n % Two(w) = IF n < 0 THEN n + Two(w) ELSE IF n >= Two(w) THEN n - Two(w) ELSE n
        /\ n % Two(w) \in WordsOf(w)
    BY <2>2, SumWord
  <2>4. x = n % Two(w)
    BY <1>2, <2>1
  <2>5. x = IF n < 0 THEN n + Two(w) ELSE IF n >= Two(w) THEN n - Two(w) ELSE n
    BY <2>3, <2>4
  <2>6. x = IF n < 0 THEN n + 2 * h ELSE n
    BY <1>1, <2>2, <2>5
  <2> QED
    BY <2>1, <2>2, <2>3, <2>4, <2>6
<1>5. Common(w, x) = Describes(w, x)
  BY <1>4, CommonDescribes
<1>6. HalfCarry(l, r, x) <=> l % 16 < (r % 16) + k
  <2>1. x \in Nat
    BY <1>4, TopBit
  <2>2. PICK t \in Int : x = l - r - k + 32 * t
    <3>1. CASE l < r + k
      <4>1. x = l - r - k + 32 * q /\ q \in Int
        BY <1>1, <1>3, <1>4, <3>1
      <4> WITNESS q \in Int
      <4> QED
        BY <4>1
    <3>2. CASE l >= r + k
      <4>1. x = l - r - k + 32 * 0
        BY <1>3, <1>4, <3>2
      <4> WITNESS 0 \in Int
      <4> QED
        BY <4>1
    <3> QED
      BY <1>1, <1>3, <3>1, <3>2
  <2> QED
    BY <1>3, <2>1, <2>2, HalfCarryOfDifference
<1>7. SubOverflow(w, l, r, x) <=> ~Fits(w, Signed(w, l) - Signed(w, r) - k)
  <2>1. /\ Top(w, l) <=> l >= h
        /\ Signed(w, l) = IF l >= h THEN l - 2 * h ELSE l
    BY <1>1, TopBit
  <2>2. /\ Top(w, r) <=> r >= h
        /\ Signed(w, r) = IF r >= h THEN r - 2 * h ELSE r
    BY <1>1, TopBit
  <2>3. /\ Top(w, x) <=> x >= h
        /\ x \in Nat
    BY <1>1, <1>4, TopBit
  <2>4. Top(w, l) \in BOOLEAN /\ Top(w, r) \in BOOLEAN /\ Top(w, x) \in BOOLEAN
    BY DEF Top
  <2>5. SubOverflow(w, l, r, x) <=> (~(l >= h <=> r >= h) /\ ~(l >= h <=> x >= h))
    BY <2>1, <2>2, <2>3, <2>4, Zenon DEF SubOverflow
  <2>6. \A n : Fits(w, n) <=> -h <= n /\ n < h
    BY <1>1 DEF Fits, HalfWidth
  <2> QED
    BY <1>3, <1>4, <2>1, <2>2, <2>3, <2>5, <2>6
<1>8. /\ When("A", HalfCarry(l, r, x)) = When("A", l % 16 < (r % 16) + k)
      /\ When("O", SubOverflow(w, l, r, x)) = When("O", ~Fits(w, Signed(w, l) - Signed(w, r) - k))
  BY <1>6, <1>7 DEF When
<1>9. Subtracted(w, l, r, k) = Result(x, Common(w, x) \cup When("C", l < r + k)
                                     \cup When("A", HalfCarry(l, r, x)) \cup When("O", SubOverflow(w, l, r, x)))
  BY <1>2, Zenon DEF Subtracted, Word
<1>10. Difference(w, l, r, k) = Result(x, Describes(w, x) \cup When("C", l < r + k)
                         \cup When("A", l % 16 < (r % 16) + k)
                         \cup When("O", ~Fits(w, Signed(w, l) - Signed(w, r) - k)))
  BY <1>2, Zenon DEF Difference
<1> QED
  BY <1>5, <1>8, <1>9, <1>10, Zenon

SumOps == {"add", "adc", "sub", "sbb", "inc", "dec", "logic"}

(* Addition, subtraction and their flags, for every pair of words of the    *)
(* code and every state of the flags: the word is that of the sum, and each  *)
(* flag says of the numbers what the 8086 says.                              *)
THEOREM SumsAreRight ==
  ASSUME NEW w \in Widths, NEW l \in WordsOf(w), NEW r \in WordsOf(w), NEW f,
         NEW op \in SumOps
  PROVE  Right(op, w, l, r, f, Computed(op, w, l, r, f))
<1>1. CarryOf(f) \in {0, 1}
  BY DEF CarryOf
<1>2. 1 \in WordsOf(w)
  <2>1. PICK h \in Nat, q \in Nat : Two(w) = 2 * h /\ h = 16 * q /\ q > 0
    BY WidthValues
  <2> QED
    BY <2>1 DEF WordsOf
<1>3. CASE op = "add"
  BY <1>3, SumRight DEF Right, Computed, Add
<1>4. CASE op = "adc"
  BY <1>1, <1>4, SumRight DEF Right, Computed, Adc
<1>5. CASE op = "sub"
  BY <1>5, DifferenceRight DEF Right, Computed, Sub
<1>6. CASE op = "sbb"
  BY <1>1, <1>6, DifferenceRight DEF Right, Computed, Sbb
<1>7. CASE op = "inc"
  <2>1. Added(w, l, 1, 0) = Sum(w, l, 1, 0)
    BY <1>2, SumRight
  <2> QED
    BY <1>7, <2>1 DEF Right, Computed, Inc, Add, KeepingCarry, WithCarryOf
<1>8. CASE op = "dec"
  <2>1. Subtracted(w, l, 1, 0) = Difference(w, l, 1, 0)
    BY <1>2, DifferenceRight
  <2> QED
    BY <1>8, <2>1 DEF Right, Computed, Dec, Sub, KeepingCarry, WithCarryOf
<1>9. CASE op = "logic"
  BY <1>9, CommonDescribes DEF Right, Computed, Logic
<1> QED
  BY <1>3, <1>4, <1>5, <1>6, <1>7, <1>8, <1>9 DEF SumOps

-----------------------------------------------------------------------------
(* Products and quotients.                                                 *)

LEMMA ProductBound ==
  ASSUME NEW t \in Nat \ {0}, NEW l \in 0..(t - 1), NEW r \in 0..(t - 1)
  PROVE  l * r \in 0..(t * t - 1)
<1>1. PICK d \in Nat, e \in Nat : t = l + d /\ t = r + e /\ d > 0 /\ e > 0
  <2>1. t - l \in Nat /\ t = l + (t - l) /\ t - l > 0 /\ t - r \in Nat /\ t = r + (t - r) /\ t - r > 0
    OBVIOUS
  <2> QED
    BY <2>1
<1>2. t * t = l * r + l * e + d * t
  <2>1. t * t = l * t + d * t
    BY <1>1
  <2>2. l * t = l * r + l * e
    BY <1>1
  <2> QED
    BY <2>1, <2>2
<1>3. l * r \in Nat /\ l * e \in Nat
  BY <1>1
<1>4. d * t > 0
  <2>1. PICK c \in Nat : d = c + 1
    <3>1. d - 1 \in Nat /\ d = (d - 1) + 1
      BY <1>1
    <3> QED
      BY <3>1
  <2>2. d * t = c * t + t /\ c * t \in Nat
    BY <2>1
  <2> QED
    BY <2>2
<1>5. PICK p \in Nat, u \in Nat, v \in Nat, z \in Int :
        p = l * r /\ u = l * e /\ v = d * t /\ z = t * t /\ v > 0
  BY <1>1, <1>3, <1>4
<1>6. z = p + u + v
  BY <1>2, <1>5
<1>7. p \in 0..(z - 1)
  BY <1>5, <1>6
<1> QED
  BY <1>5, <1>7

LEMMA OneQuotient ==
  ASSUME NEW x \in Nat, NEW y \in Nat \ {0}, NEW q \in Int, NEW b \in Nat, b < y, q * y + b = x
  PROVE  q = x \div y /\ b = x % y
<1>1. PICK a \in Nat, c \in Nat : a = x \div y /\ c = x % y /\ c < y /\ x = a * y + c
  <2>1. x \div y \in Nat /\ x % y \in Nat /\ x % y < y
    OBVIOUS
  <2>2. x = y * (x \div y) + (x % y)
    BY Z3
  <2>3. y * (x \div y) = (x \div y) * y
    BY <2>1
  <2> QED
    BY <2>1, <2>2, <2>3
<1>2. \A i, j \in Int : i < j => \E e \in Nat : j * y = i * y + y + e
  <2> SUFFICES ASSUME NEW i \in Int, NEW j \in Int, i < j PROVE \E e \in Nat : j * y = i * y + y + e
    OBVIOUS
  <2>1. PICK d \in Nat : j = i + 1 + d
    <3>1. j - i - 1 \in Nat /\ j = i + 1 + (j - i - 1)
      OBVIOUS
    <3> QED
      BY <3>1
  <2>2. d * y \in Nat /\ j * y = i * y + y + d * y
    BY <2>1
  <2> QED
    BY <2>2
<1>3. PICK u \in Int, v \in Int : u = q * y /\ v = a * y
  OBVIOUS
<1>4. u + b = x /\ v + c = x
  BY <1>1, <1>3
<1>5. ~(q < a)
  <2> SUFFICES ASSUME q < a PROVE FALSE
    OBVIOUS
  <2>1. PICK e \in Nat : a * y = q * y + y + e
    BY <1>2
  <2> QED
    BY <1>1, <1>3, <1>4, <2>1
<1>6. ~(a < q)
  <2> SUFFICES ASSUME a < q PROVE FALSE
    OBVIOUS
  <2>1. PICK e \in Nat : q * y = a * y + y + e
    BY <1>2
  <2> QED
    BY <1>1, <1>3, <1>4, <2>1
<1>7. q = a
  BY <1>5, <1>6
<1>8. u = v
  BY <1>3, <1>7
<1>9. b = c
  BY <1>4, <1>8
<1> QED
  BY <1>1, <1>7, <1>9

(* The quotient of C is the only one with a remainder of the dividend's sign *)
(* that is smaller than the divisor.                                         *)
LEMMA OnlyQuotient ==
  ASSUME NEW w, NEW x \in Int, NEW y \in Int \ {0}, NEW q \in Int
  PROVE  (\E m \in -Magnitude(y)..Magnitude(y) : Divides(w, x, y, q, m)) <=> q = Quotient(x, y)
<1>1. PICK s \in Nat, t \in Nat \ {0} : s = Magnitude(x) /\ t = Magnitude(y)
  BY DEF Magnitude
<1>2. PICK a \in Nat, c \in Nat : a = s \div t /\ c = s % t /\ c < t /\ s = a * t + c
  <2>1. s \div t \in Nat /\ s % t \in Nat /\ s % t < t
    OBVIOUS
  <2>2. s = t * (s \div t) + (s % t)
    BY Z3
  <2>3. t * (s \div t) = (s \div t) * t
    BY <2>1
  <2> QED
    BY <2>1, <2>2, <2>3
<1>3. \A p \in Int, b \in Nat : b < t /\ p * t + b = s => p = a /\ b = c
  BY <1>2, OneQuotient
<1>4. /\ (x < 0 => x = -s) /\ (~(x < 0) => x = s)
      /\ (y < 0 => y = -t) /\ (~(y < 0) => y = t)
  BY <1>1 DEF Magnitude
<1>5. SameSign(x, y) <=> (x < 0 <=> y < 0)
  BY DEF SameSign
<1>6. Quotient(x, y) = IF x < 0 <=> y < 0 THEN a ELSE -a
  BY <1>1, <1>2, <1>5 DEF Quotient
<1> DEFINE Sign(m) == m = 0 \/ (m < 0 <=> x < 0)
<1>7. \A m : Divides(w, x, y, q, m) <=> q * y + m = x /\ Magnitude(m) < t /\ Sign(m)
  BY <1>1 DEF Divides, SameSign
<1>8. ASSUME NEW m \in Int, Divides(w, x, y, q, m) PROVE q = Quotient(x, y)
  <2>1. q * y + m = x /\ Magnitude(m) < t /\ Sign(m)
    BY <1>7, <1>8
  <2>2. PICK b \in Nat : b = Magnitude(m) /\ (x < 0 => m = -b) /\ (~(x < 0) => m = b)
    BY <2>1 DEF Magnitude
  <2>3. CASE x < 0 /\ y < 0
    <3>1. q * (-t) + (-b) = -s
      BY <1>4, <2>1, <2>2, <2>3
    <3>2. q * (-t) = -(q * t)
      OBVIOUS
    <3>3. q * t + b = s
      BY <3>1, <3>2
    <3>4. q = a
      BY <1>3, <2>1, <2>2, <3>3
    <3> QED
      BY <1>6, <2>3, <3>4
  <2>4. CASE x < 0 /\ ~(y < 0)
    <3>1. q * t + (-b) = -s
      BY <1>4, <2>1, <2>2, <2>4
    <3>2. PICK p \in Int : p = -q
      OBVIOUS
    <3>3. p * t = -(q * t)
      BY <3>2
    <3>4. p * t + b = s
      BY <3>1, <3>3
    <3>5. p = a
      BY <1>3, <2>1, <2>2, <3>4
    <3> QED
      BY <1>6, <2>4, <3>2, <3>5
  <2>5. CASE ~(x < 0) /\ y < 0
    <3>1. q * (-t) + b = s
      BY <1>4, <2>1, <2>2, <2>5
    <3>2. PICK p \in Int : p = -q
      OBVIOUS
    <3>3. p * t = q * (-t)
      BY <3>2
    <3>4. p * t + b = s
      BY <3>1, <3>3
    <3>5. p = a
      BY <1>3, <2>1, <2>2, <3>4
    <3> QED
      BY <1>6, <2>5, <3>2, <3>5
  <2>6. CASE ~(x < 0) /\ ~(y < 0)
    <3>1. q * t + b = s
      BY <1>4, <2>1, <2>2, <2>6
    <3>2. q = a
      BY <1>3, <2>1, <2>2, <3>1
    <3> QED
      BY <1>6, <2>6, <3>2
  <2> QED
    BY <2>3, <2>4, <2>5, <2>6
<1>9. ASSUME q = Quotient(x, y)
      PROVE  \E m \in -t..t : Divides(w, x, y, q, m)
  <2>1. PICK m \in -t..t : /\ (x < 0 => m = -c) /\ (~(x < 0) => m = c)
    <3>1. c \in -t..t /\ -c \in -t..t
      BY <1>2
    <3> QED
      BY <3>1
  <2>2. Magnitude(m) < t /\ Sign(m)
    BY <1>2, <2>1 DEF Magnitude
  <2>3. q * y + m = x
    <3>1. CASE x < 0 /\ y < 0
      <4>1. q = a /\ y = -t /\ m = -c /\ x = -s
        BY <1>4, <1>6, <1>9, <2>1, <3>1
      <4>2. PICK p \in Int : p = a * t /\ a * (-t) = -p
        OBVIOUS
      <4>3. q * y + m = -p + (-c) /\ x = -(p + c)
        BY <1>2, <4>1, <4>2
      <4> QED
        BY <4>3
    <3>2. CASE x < 0 /\ ~(y < 0)
      <4>1. q = -a /\ y = t /\ m = -c /\ x = -s
        BY <1>4, <1>6, <1>9, <2>1, <3>2
      <4>2. (-a) * t = -(a * t)
        OBVIOUS
      <4> QED
        BY <1>2, <4>1, <4>2
    <3>3. CASE ~(x < 0) /\ y < 0
      <4>1. q = -a /\ y = -t /\ m = c /\ x = s
        BY <1>4, <1>6, <1>9, <2>1, <3>3
      <4>2. (-a) * (-t) = a * t
        OBVIOUS
      <4> QED
        BY <1>2, <4>1, <4>2
    <3>4. CASE ~(x < 0) /\ ~(y < 0)
      <4>1. q = a /\ y = t /\ m = c /\ x = s
        BY <1>4, <1>6, <1>9, <2>1, <3>4
      <4> QED
        BY <1>2, <4>1
    <3> QED
      BY <3>1, <3>2, <3>3, <3>4
  <2> QED
    BY <1>7, <2>2, <2>3
<1> HIDE DEF Sign
<1>10. -t..t \subseteq Int
  OBVIOUS
<1> QED
  BY <1>1, <1>8, <1>9, <1>10

(* What an operation gives, of the words l and r.                          *)
THEOREM ProductsAreRight ==
  ASSUME NEW w \in Widths, NEW l \in WordsOf(w), NEW r \in WordsOf(w), NEW f,
         NEW op \in {"mul", "imul"}
  PROVE  Right(op, w, l, r, f, Computed(op, w, l, r, f))
<1>1. PICK t \in Nat \ {0} : t = Two(w) /\ Two(2 * w) = t * t
  BY WidthValues
<1>2. \A p, wide, fits : (wide <=> ~fits) =>
        Product(p, wide, f) = Result(p, (f \ {"C", "O"}) \cup (IF fits THEN {} ELSE {"C", "O"}))
  <2> SUFFICES ASSUME NEW p, NEW wide, NEW fits, wide <=> ~fits
               PROVE  Product(p, wide, f)
                        = Result(p, (f \ {"C", "O"}) \cup (IF fits THEN {} ELSE {"C", "O"}))
    OBVIOUS
  <2>1. CASE fits
    BY <2>1 DEF Product, When
  <2>2. CASE ~fits
    <3>1. (f \ {"C", "O"}) \cup {"C"} \cup {"O"} = (f \ {"C", "O"}) \cup {"C", "O"}
      OBVIOUS
    <3> QED
      BY <2>2, <3>1 DEF Product, When
  <2> QED
    BY <2>1, <2>2
<1>3. CASE op = "mul"
  <2>1. l \in 0..(t - 1) /\ r \in 0..(t - 1)
    BY <1>1 DEF WordsOf
  <2>2. l * r \in 0..(t * t - 1)
    BY <2>1, ProductBound
  <2>3. PICK p \in Nat, d \in Nat : p = l * r /\ d = t * t /\ p < d
    BY <2>1, <2>2
  <2>4. p % d = p
    BY <2>3
  <2>5. p >= Two(w) <=> ~(p < Two(w))
    BY <1>1
  <2>6. Product(p, p >= Two(w), f)
          = Result(p, (f \ {"C", "O"}) \cup (IF p < Two(w) THEN {} ELSE {"C", "O"}))
    BY <1>2, <2>5
  <2>7. Mul(w, l, r, f) = Doubled(w, l * r, l * r < Two(w), f)
    BY <1>1, <2>3, <2>4, <2>6 DEF Mul, Doubled
  <2> QED
    BY <1>3, <2>7 DEF Right, Computed
<1>4. CASE op = "imul"
  <2>1. HalfWidth(w) \in Nat
    BY WidthValues
  <2>2. PICK p \in Int : p = Signed(w, l) * Signed(w, r)
    <3>1. Signed(w, l) \in Int /\ Signed(w, r) \in Int
      <4>1. \A x \in WordsOf(w) : Signed(w, x) \in Int
        <5> SUFFICES ASSUME NEW x \in WordsOf(w) PROVE Signed(w, x) \in Int
          OBVIOUS
        <5>1. x \in Nat /\ Two(w) \in Nat
          BY <1>1, TopBit
        <5> QED
          BY <5>1 DEF Signed
      <4> QED
        BY <4>1
    <3> QED
      BY <3>1
  <2>3. (p < -Two(w - 1) \/ p >= Two(w - 1)) <=> ~Fits(w, p)
    BY <2>1 DEF Fits, HalfWidth
  <2>4. Imul(w, l, r, f) = Product(Word(2 * w, p), p < -Two(w - 1) \/ p >= Two(w - 1), f)
    BY <2>2, Zenon DEF Imul
  <2>5. Product(Word(2 * w, p), p < -Two(w - 1) \/ p >= Two(w - 1), f)
          = Result(Word(2 * w, p), (f \ {"C", "O"}) \cup (IF Fits(w, p) THEN {} ELSE {"C", "O"}))
    BY <1>2, <2>3
  <2>6. Imul(w, l, r, f) = Doubled(w, p, Fits(w, p), f)
    BY <2>4, <2>5, Zenon DEF Doubled, Word
  <2> QED
    BY <1>4, <2>2, <2>6 DEF Right, Computed
<1> QED
  BY <1>3, <1>4

LEMMA SignedRange ==
  ASSUME NEW w \in Widths
  PROVE  /\ \A x \in WordsOf(w) : Signed(w, x) \in Int /\ (Signed(w, x) = 0 => x = 0)
         /\ \A x \in 0..Two(2 * w) - 1 : Signed(2 * w, x) \in Int
<1>1. ASSUME NEW x \in WordsOf(w) PROVE Signed(w, x) \in Int /\ (Signed(w, x) = 0 => x = 0)
  BY TopBit
<1>2. ASSUME NEW x \in 0..Two(2 * w) - 1 PROVE Signed(2 * w, x) \in Int
  <2>1. Two(2 * w) \in Nat
    BY WidthValues
  <2>2. x \in Int
    OBVIOUS
  <2> QED
    BY <2>1, <2>2 DEF Signed
<1> QED
  BY <1>1, <1>2

(* A double word divided by a word: the quotient and the remainder of C, or  *)
(* a divide error exactly when there is no quotient that is a word.          *)
THEOREM DivisionsAreRight ==
  ASSUME NEW w \in Widths, NEW l \in 0..Two(2 * w) - 1, NEW r \in WordsOf(w), NEW f,
         NEW op \in {"div", "idiv"}
  PROVE  Right(op, w, l, r, f, Computed(op, w, l, r, f))
<1>1. PICK t \in Nat \ {0}, h \in Nat : t = Two(w) /\ h = Two(w - 1) /\ Two(2 * w) \in Nat
  <2>1. Two(w) \in Nat \ {0} /\ HalfWidth(w) \in Nat /\ Two(2 * w) \in Nat
    BY WidthValues
  <2> QED
    BY <2>1 DEF HalfWidth
<1> DEFINE Answers(x, y, quotients) ==
      {q \in quotients : y # 0 /\ \E m \in -Magnitude(y)..Magnitude(y) : Divides(w, x, y, q, m)}
<1>2. ASSUME NEW x \in Int, NEW y \in Int, NEW quotients \in SUBSET Int
      PROVE  Answers(x, y, quotients)
               = IF y # 0 /\ Quotient(x, y) \in quotients THEN {Quotient(x, y)} ELSE {}
  <2>1. CASE y = 0
    BY <2>1
  <2>2. CASE y # 0
    <3>1. \A q \in Int :
            (\E m \in -Magnitude(y)..Magnitude(y) : Divides(w, x, y, q, m)) <=> q = Quotient(x, y)
      BY <2>2, OnlyQuotient
    <3> QED
      BY <2>2, <3>1
  <2> QED
    BY <2>1, <2>2
<1>3. ASSUME NEW x \in Int, NEW y \in Int, NEW quotients \in SUBSET Int,
             NEW got, got.flags = f,
             IF y # 0 /\ Quotient(x, y) \in quotients
               THEN /\ ~got.error
                    /\ got.word = (Quotient(x, y) % Two(w)) + Two(w) * ((x - Quotient(x, y) * y) % Two(w))
               ELSE got.error /\ got.word = l
      PROVE  DividesRight(w, l, f, x, y, quotients, got)
  <2> DEFINE answers == Answers(x, y, quotients)
  <2>1. DividesRight(w, l, f, x, y, quotients, got) <=>
          /\ got.flags = f
          /\ IF answers = {} THEN got.error /\ got.word = l
             ELSE /\ ~got.error
                  /\ \E q \in answers : got.word = (q % Two(w)) + Two(w) * ((x - q * y) % Two(w))
    BY Zenon DEF DividesRight
  <2>2. answers = IF y # 0 /\ Quotient(x, y) \in quotients THEN {Quotient(x, y)} ELSE {}
    BY <1>2, Zenon
  <2> HIDE DEF answers
  <2>3. CASE y # 0 /\ Quotient(x, y) \in quotients
    <3>1. answers = {Quotient(x, y)} /\ Quotient(x, y) \in answers /\ answers # {}
      BY <2>2, <2>3
    <3> QED
      BY <1>3, <2>1, <2>3, <3>1, Zenon
  <2>4. CASE ~(y # 0 /\ Quotient(x, y) \in quotients)
    <3>1. answers = {}
      BY <2>2, <2>4
    <3> QED
      BY <1>3, <2>1, <2>4, <3>1, Zenon
  <2> QED
    BY <2>3, <2>4
<1> HIDE DEF Answers
<1>4. /\ DivideError(l, f).flags = f /\ DivideError(l, f).word = l /\ DivideError(l, f).error
      /\ \A q, m : /\ Divided(w, q, m, f).flags = f /\ ~Divided(w, q, m, f).error
                   /\ Divided(w, q, m, f).word = Word(w, q) + Two(w) * Word(w, m)
  BY DEF DivideError, Divided
<1>5. CASE op = "div"
  <2>1. l \in Nat /\ r \in Nat /\ l \in Int /\ r \in Int /\ 0..Two(w) - 1 \in SUBSET Int
    BY <1>1 DEF WordsOf
  <2>2. PICK got : got = Div(w, l, r, f)
    OBVIOUS
  <2>3. CASE r = 0
    <3>1. got = DivideError(l, f)
      BY <2>2, <2>3 DEF Div
    <3>2. DividesRight(w, l, f, l, r, 0..Two(w) - 1, got)
      BY <1>3, <1>4, <2>1, <2>3, <3>1
    <3> QED
      BY <1>5, <2>2, <3>2 DEF Right, Computed
  <2>4. CASE r # 0
    <3>1. PICK q \in Nat, m \in Nat : q = l \div r /\ m = l % r /\ l = q * r + m
      <4>1. l \div r \in Nat /\ l % r \in Nat
        BY <2>1, <2>4
      <4>2. l = r * (l \div r) + (l % r)
        BY <2>1, <2>4, Z3
      <4>3. r * (l \div r) = (l \div r) * r
        BY <2>1, <4>1
      <4> QED
        BY <4>1, <4>2, <4>3
    <3>2. Quotient(l, r) = q
      <4>1. SameSign(l, r) /\ Magnitude(l) = l /\ Magnitude(r) = r
        BY <2>1 DEF SameSign, Magnitude
      <4> QED
        BY <3>1, <4>1 DEF Quotient
    <3>3. l - q * r = m
      <4>1. PICK p \in Int : p = q * r
        BY <2>1
      <4> QED
        BY <2>1, <3>1, <4>1
    <3>4. q \in 0..Two(w) - 1 <=> ~(q >= Two(w))
      BY <1>1
    <3>5. got = IF q >= Two(w) THEN DivideError(l, f) ELSE Divided(w, q, m, f)
      BY <2>2, <2>4, <3>1, Zenon DEF Div
    <3>6. q >= Two(w) => got.flags = f /\ got.word = l /\ got.error
      BY <1>4, <3>5
    <3>7. ~(q >= Two(w)) => got.flags = f /\ ~got.error /\ got.word = (q % Two(w)) + Two(w) * (m % Two(w))
      BY <1>4, <3>5 DEF Word
    <3>8. DividesRight(w, l, f, l, r, 0..Two(w) - 1, got)
      <4> HIDE DEF Answers
      <4>1. CASE q \in 0..Two(w) - 1
        <5>1. got.word = (Quotient(l, r) % Two(w)) + Two(w) * ((l - Quotient(l, r) * r) % Two(w))
          BY <3>2, <3>3, <3>4, <3>7, <4>1
        <5>2. got.flags = f /\ ~got.error /\ Quotient(l, r) \in 0..Two(w) - 1
          BY <3>2, <3>4, <3>7, <4>1
        <5> QED
          BY <1>3, <2>1, <2>4, <5>1, <5>2
      <4>2. CASE ~(q \in 0..Two(w) - 1)
        <5>1. got.word = l /\ got.flags = f /\ got.error /\ ~(Quotient(l, r) \in 0..Two(w) - 1)
          BY <3>2, <3>4, <3>6, <4>2
        <5> QED
          BY <1>3, <2>1, <2>4, <5>1
      <4> QED
        BY <4>1, <4>2
    <3> QED
      BY <1>5, <2>2, <3>8 DEF Right, Computed
  <2> QED
    BY <2>3, <2>4
<1>6. CASE op = "idiv"
  <2>1. PICK x \in Int, y \in Int : x = Signed(2 * w, l) /\ y = Signed(w, r)
    BY SignedRange
  <2>2. PICK got : got = Idiv(w, l, r, f)
    OBVIOUS
  <2>3. PICK q : q = Quotient(x, y)
    OBVIOUS
  <2>4. got = IF y = 0 THEN DivideError(l, f)
              ELSE IF q < -Two(w - 1) \/ q >= Two(w - 1) THEN DivideError(l, f)
              ELSE Divided(w, q, x - q * y, f)
    BY <2>1, <2>2, <2>3, Zenon DEF Idiv
  <2>5. -Two(w - 1)..Two(w - 1) - 1 \in SUBSET Int
    BY <1>1
  <2>6. y # 0 => q \in Int
    <3> SUFFICES ASSUME y # 0 PROVE q \in Int
      OBVIOUS
    <3>1. Magnitude(x) \in Nat /\ Magnitude(y) \in Nat /\ Magnitude(y) # 0
      BY DEF Magnitude
    <3>2. Magnitude(x) \div Magnitude(y) \in Int
      BY <3>1
    <3> QED
      BY <2>3, <3>2 DEF Quotient
  <2>7. y # 0 => (q \in -Two(w - 1)..Two(w - 1) - 1 <=> ~(q < -Two(w - 1) \/ q >= Two(w - 1)))
    BY <1>1, <2>6
  <2>8. CASE y # 0 /\ q \in -Two(w - 1)..Two(w - 1) - 1
    <3>1. got = Divided(w, q, x - q * y, f)
      BY <2>4, <2>7, <2>8
    <3>2. got.flags = f /\ ~got.error /\ got.word = (q % Two(w)) + Two(w) * ((x - q * y) % Two(w))
      BY <1>4, <3>1 DEF Word
    <3>3. DividesRight(w, l, f, x, y, -Two(w - 1)..Two(w - 1) - 1, got)
      BY <1>3, <2>3, <2>5, <2>8, <3>2
    <3> QED
      BY <1>6, <2>1, <2>2, <3>3 DEF Right, Computed
  <2>9. CASE ~(y # 0 /\ q \in -Two(w - 1)..Two(w - 1) - 1)
    <3>1. got = DivideError(l, f)
      BY <2>4, <2>7, <2>9
    <3>2. got.flags = f /\ got.error /\ got.word = l
      BY <1>4, <3>1
    <3>3. DividesRight(w, l, f, x, y, -Two(w - 1)..Two(w - 1) - 1, got)
      BY <1>3, <2>3, <2>5, <2>9, <3>2
    <3> QED
      BY <1>6, <2>1, <2>2, <3>3 DEF Right, Computed
  <2> QED
    BY <2>8, <2>9
<1> QED
  BY <1>5, <1>6

-----------------------------------------------------------------------------
(* The search for the code of an address.                                  *)

Ordered(blocks) == \A i, j \in 1..Len(blocks) : i < j => blocks[i] < blocks[j]

(* Where the search of a part of the table ends: behind what is below ip.   *)
EndsAt(blocks, ip, low, high, k) ==
  /\ k \in low..high
  /\ \A i \in (low + 1)..k : blocks[i] < ip
  /\ k < high => ~(blocks[k + 1] < ip)

LEMMA EndIsOne ==
  ASSUME NEW blocks, NEW ip, NEW low \in Nat, NEW high \in Nat,
         NEW j, NEW k, EndsAt(blocks, ip, low, high, j), EndsAt(blocks, ip, low, high, k)
  PROVE  j = k
<1>1. j \in Nat /\ k \in Nat
  BY DEF EndsAt
<1>2. ~(j < k)
  <2> SUFFICES ASSUME j < k PROVE FALSE
    OBVIOUS
  <2>1. j + 1 \in (low + 1)..k /\ j < high
    BY DEF EndsAt
  <2> QED
    BY <2>1 DEF EndsAt
<1>3. ~(k < j)
  <2> SUFFICES ASSUME k < j PROVE FALSE
    OBVIOUS
  <2>1. k + 1 \in (low + 1)..j /\ k < high
    BY DEF EndsAt
  <2> QED
    BY <2>1 DEF EndsAt
<1> QED
  BY <1>1, <1>2, <1>3

LEMMA EndExists ==
  ASSUME NEW blocks, NEW ip, NEW low \in Nat, NEW high \in Nat, low <= high
  PROVE  \E k \in low..high : EndsAt(blocks, ip, low, high, k)
<1> DEFINE T == {k \in low..high : k < high => ~(blocks[k + 1] < ip)}
<1>1. T \subseteq Nat /\ high \in T
  OBVIOUS
<1>2. PICK k \in T : \A j \in T : k <= j
  <2> HIDE DEF T
  <2> QED
    BY <1>1, LeastOf
<1>3. ASSUME NEW i \in (low + 1)..k PROVE blocks[i] < ip
  <2>1. PICK h \in low..high : h = i - 1 /\ h < k /\ h + 1 = i
    <3>1. i - 1 \in low..high /\ i - 1 < k /\ (i - 1) + 1 = i
      OBVIOUS
    <3> QED
      BY <3>1
  <2>2. h \notin T
    BY <1>2, <2>1
  <2> QED
    BY <2>1, <2>2
<1>4. EndsAt(blocks, ip, low, high, k)
  BY <1>3 DEF EndsAt
<1> QED
  BY <1>4

(* A turn of the search keeps the end.                                      *)
LEMMA TurnKeepsEnd ==
  ASSUME NEW n \in Nat, NEW blocks \in [1..n -> Int], \A i, j \in 1..n : i < j => blocks[i] < blocks[j],
         NEW ip \in Int, NEW low \in 0..n, NEW high \in 0..n, low < high,
         NEW middle, middle = low + (high - low) \div 2, NEW k
  PROVE  /\ middle \in low..(high - 1)
         /\ blocks[middle + 1] < ip /\ EndsAt(blocks, ip, middle + 1, high, k)
              => EndsAt(blocks, ip, low, high, k)
         /\ ~(blocks[middle + 1] < ip) /\ EndsAt(blocks, ip, low, middle, k)
              => EndsAt(blocks, ip, low, high, k)
<1>1. middle \in low..(high - 1)
  <2>1. PICK d \in Nat : d = high - low /\ d > 0
    <3>1. high - low \in Nat /\ high - low > 0
      OBVIOUS
    <3> QED
      BY <3>1
  <2>2. d \div 2 \in 0..(d - 1)
    BY <2>1
  <2> QED
    BY <2>1, <2>2
<1>2. ASSUME blocks[middle + 1] < ip, EndsAt(blocks, ip, middle + 1, high, k)
      PROVE  EndsAt(blocks, ip, low, high, k)
  <2>1. k \in low..high /\ k \in Int /\ middle + 1 \in 1..n /\ middle \in Int
    BY <1>1, <1>2 DEF EndsAt
  <2>2. ASSUME NEW i \in (low + 1)..k PROVE blocks[i] < ip
    <3>1. CASE i <= middle + 1
      <4>1. i \in 1..n /\ (i = middle + 1 \/ i < middle + 1)
        BY <2>1, <3>1
      <4>2. i < middle + 1 => blocks[i] < blocks[middle + 1]
        BY <2>1, <4>1
      <4>3. blocks[i] \in Int /\ blocks[middle + 1] \in Int
        BY <2>1, <4>1
      <4> QED
        BY <1>2, <4>1, <4>2, <4>3
    <3>2. CASE i > middle + 1
      <4>1. i \in ((middle + 1) + 1)..k
        BY <2>1, <3>2
      <4> QED
        BY <1>2, <4>1 DEF EndsAt
    <3> QED
      BY <2>1, <3>1, <3>2
  <2> QED
    BY <1>2, <2>1, <2>2 DEF EndsAt
<1>3. ASSUME ~(blocks[middle + 1] < ip), EndsAt(blocks, ip, low, middle, k)
      PROVE  EndsAt(blocks, ip, low, high, k)
  <2>1. k \in low..high /\ k <= middle /\ middle \in Int
    BY <1>1, <1>3 DEF EndsAt
  <2>2. ~(blocks[k + 1] < ip)
    <3>1. CASE k < middle
      BY <1>3, <3>1 DEF EndsAt
    <3>2. CASE k = middle
      BY <1>3, <3>2
    <3> QED
      BY <2>1, <3>1, <3>2
  <2> QED
    BY <1>3, <2>1, <2>2 DEF EndsAt
<1> QED
  BY <1>1, <1>2, <1>3

(* The function that the search is.                                         *)
Searched(blocks, ip, n, f) ==
  f = [r \in (0..n) \X (0..n) |->
        LET middle == r[1] + (r[2] - r[1]) \div 2
        IN  IF r[1] >= r[2] THEN r[1]
            ELSE IF blocks[middle + 1] < ip THEN f[<<middle + 1, r[2]>>]
            ELSE f[<<r[1], middle>>]]

LEMMA SearchTurn ==
  ASSUME NEW n \in Nat, NEW blocks, NEW ip, NEW f, Searched(blocks, ip, n, f),
         NEW low \in 0..n, NEW high \in 0..n, NEW middle, middle = low + (high - low) \div 2
  PROVE  f[<<low, high>>] =
           IF low >= high THEN low
           ELSE IF blocks[middle + 1] < ip THEN f[<<middle + 1, high>>] ELSE f[<<low, middle>>]
<1>1. <<low, high>> \in (0..n) \X (0..n)
  OBVIOUS
<1>2. <<low, high>>[1] = low /\ <<low, high>>[2] = high
  OBVIOUS
<1> QED
  BY <1>1, <1>2 DEF Searched

LEMMA SearchEnds ==
  ASSUME NEW n \in Nat, NEW blocks \in [1..n -> Int], \A i, j \in 1..n : i < j => blocks[i] < blocks[j],
         NEW ip \in Int, NEW f, Searched(blocks, ip, n, f)
  PROVE  EndsAt(blocks, ip, 0, n, f[<<0, n>>])
<1> DEFINE Ends(low, high) == EndsAt(blocks, ip, low, high, f[<<low, high>>])
<1> DEFINE T == {d \in Nat : \A low, high \in 0..n : low <= high /\ high - low <= d => Ends(low, high)}
<1>1. ASSUME NEW low \in 0..n, NEW high \in 0..n, low = high PROVE Ends(low, high)
  <2>1. PICK middle : middle = low + (high - low) \div 2
    OBVIOUS
  <2>2. f[<<low, high>>] =
          IF low >= high THEN low
          ELSE IF blocks[middle + 1] < ip THEN f[<<middle + 1, high>>] ELSE f[<<low, middle>>]
    BY <2>1, SearchTurn
  <2>3. f[<<low, high>>] = low
    BY <1>1, <2>2
  <2> QED
    BY <1>1, <2>3 DEF EndsAt
<1> HIDE DEF Ends
<1>2. 0 \in T
  BY <1>1
<1>3. ASSUME NEW d \in Nat, d \in T PROVE d + 1 \in T
  <2> SUFFICES ASSUME NEW low \in 0..n, NEW high \in 0..n, low <= high, high - low <= d + 1
               PROVE  Ends(low, high)
    OBVIOUS
  <2>1. CASE low = high
    BY <1>1, <2>1
  <2>2. CASE low # high
    <3>1. PICK middle : middle = low + (high - low) \div 2
      OBVIOUS
    <3>2. low < high
      BY <2>2
    <3>3. middle \in low..(high - 1)
      BY <3>1, <3>2, TurnKeepsEnd
    <3>4. /\ middle \in 0..n /\ middle + 1 \in 0..n /\ middle + 1 <= high /\ high - (middle + 1) <= d
          /\ low <= middle /\ middle - low <= d
      BY <3>3
    <3>5. Ends(middle + 1, high) /\ Ends(low, middle)
      <4>1. \A l, h \in 0..n : l <= h /\ h - l <= d => Ends(l, h)
        BY <1>3
      <4>2. PICK m \in 0..n : m = middle + 1 /\ m <= high /\ high - m <= d
        BY <3>4
      <4>3. Ends(m, high)
        BY <4>1, <4>2
      <4>4. Ends(low, middle)
        BY <3>4, <4>1
      <4> QED
        BY <4>2, <4>3, <4>4
    <3>6. f[<<low, high>>] = IF blocks[middle + 1] < ip THEN f[<<middle + 1, high>>] ELSE f[<<low, middle>>]
      <4>1. f[<<low, high>>] =
              IF low >= high THEN low
              ELSE IF blocks[middle + 1] < ip THEN f[<<middle + 1, high>>] ELSE f[<<low, middle>>]
        BY <3>1, SearchTurn
      <4>2. ~(low >= high)
        BY <3>2
      <4> QED
        BY <4>1, <4>2
    <3>7. CASE blocks[middle + 1] < ip
      <4>1. EndsAt(blocks, ip, middle + 1, high, f[<<low, high>>])
        BY <3>5, <3>6, <3>7 DEF Ends
      <4>2. EndsAt(blocks, ip, low, high, f[<<low, high>>])
        BY <3>1, <3>2, <3>7, <4>1, TurnKeepsEnd
      <4> QED
        BY <4>2 DEF Ends
    <3>8. CASE ~(blocks[middle + 1] < ip)
      <4>1. EndsAt(blocks, ip, low, middle, f[<<low, high>>])
        BY <3>5, <3>6, <3>8 DEF Ends
      <4>2. EndsAt(blocks, ip, low, high, f[<<low, high>>])
        BY <3>1, <3>2, <3>8, <4>1, TurnKeepsEnd
      <4> QED
        BY <4>2 DEF Ends
    <3> QED
      BY <3>7, <3>8
  <2> QED
    BY <2>1, <2>2
<1>4. Nat \subseteq T
  <2> HIDE DEF T
  <2> QED
    BY <1>2, <1>3, AllNumbers
<1>5. Ends(0, n)
  <2>1. n \in T /\ 0 \in 0..n /\ n \in 0..n /\ 0 <= n /\ n - 0 <= n
    <3> HIDE DEF T
    <3> QED
      BY <1>4
  <2> QED
    BY <2>1
<1> QED
  BY <1>5 DEF Ends

LEMMA SearchExists ==
  ASSUME NEW n \in Nat, NEW blocks \in [1..n -> Int], \A i, j \in 1..n : i < j => blocks[i] < blocks[j],
         NEW ip \in Int
  PROVE  \E f : Searched(blocks, ip, n, f)
<1> DEFINE At(low, high) == IF low >= high THEN low ELSE CHOOSE k \in low..high : EndsAt(blocks, ip, low, high, k)
<1>1. PICK f : f = [r \in (0..n) \X (0..n) |-> At(r[1], r[2])]
  OBVIOUS
<1>2. \A low, high \in 0..n : f[<<low, high>>] = At(low, high)
  <2> SUFFICES ASSUME NEW low \in 0..n, NEW high \in 0..n PROVE f[<<low, high>>] = At(low, high)
    OBVIOUS
  <2>1. <<low, high>> \in (0..n) \X (0..n) /\ <<low, high>>[1] = low /\ <<low, high>>[2] = high
    OBVIOUS
  <2> HIDE DEF At
  <2> QED
    BY <1>1, <2>1
<1>3. ASSUME NEW low \in 0..n, NEW high \in 0..n, low <= high
      PROVE  EndsAt(blocks, ip, low, high, At(low, high))
  <2>1. CASE low = high
    BY <2>1 DEF EndsAt
  <2>2. CASE low # high
    <3>1. \E k \in low..high : EndsAt(blocks, ip, low, high, k)
      <4>1. low \in Nat /\ high \in Nat
        OBVIOUS
      <4> QED
        BY <1>3, <4>1, EndExists
    <3>2. At(low, high) = CHOOSE k \in low..high : EndsAt(blocks, ip, low, high, k)
      BY <1>3, <2>2
    <3> HIDE DEF At
    <3> QED
      BY <3>1, <3>2
  <2> QED
    BY <2>1, <2>2
<1>4. \A low, high \in 0..n : low >= high => At(low, high) = low
  OBVIOUS
<1> HIDE DEF At
<1>5. ASSUME NEW low \in 0..n, NEW high \in 0..n, NEW middle, middle = low + (high - low) \div 2
      PROVE  f[<<low, high>>] =
               IF low >= high THEN low
               ELSE IF blocks[middle + 1] < ip THEN f[<<middle + 1, high>>] ELSE f[<<low, middle>>]
  <2>1. CASE low >= high
    BY <1>2, <1>4, <2>1
  <2>2. CASE low < high
    <3>1. middle \in low..(high - 1)
      BY <1>5, <2>2, TurnKeepsEnd
    <3>2. middle \in 0..n /\ middle + 1 \in 0..n /\ middle + 1 <= high /\ low <= middle /\ low <= high
      BY <2>2, <3>1
    <3>3. EndsAt(blocks, ip, low, high, At(low, high))
      BY <1>3, <3>2
    <3>4. EndsAt(blocks, ip, middle + 1, high, At(middle + 1, high))
      BY <1>3, <3>2
    <3>5. EndsAt(blocks, ip, low, middle, At(low, middle))
      BY <1>3, <3>2
    <3>6. blocks[middle + 1] < ip => At(low, high) = At(middle + 1, high)
      <4> SUFFICES ASSUME blocks[middle + 1] < ip PROVE At(low, high) = At(middle + 1, high)
        OBVIOUS
      <4>1. PICK k : k = At(middle + 1, high)
        OBVIOUS
      <4>2. EndsAt(blocks, ip, middle + 1, high, k)
        BY <3>4, <4>1
      <4>3. EndsAt(blocks, ip, low, high, k)
        BY <1>5, <2>2, <4>2, TurnKeepsEnd
      <4>4. low \in Nat /\ high \in Nat
        OBVIOUS
      <4>5. At(low, high) = k
        BY <3>3, <4>3, <4>4, EndIsOne
      <4> QED
        BY <4>1, <4>5
    <3>7. ~(blocks[middle + 1] < ip) => At(low, high) = At(low, middle)
      <4> SUFFICES ASSUME ~(blocks[middle + 1] < ip) PROVE At(low, high) = At(low, middle)
        OBVIOUS
      <4>1. EndsAt(blocks, ip, low, high, At(low, middle))
        BY <1>5, <2>2, <3>5, TurnKeepsEnd
      <4> QED
        BY <3>3, <4>1, EndIsOne
    <3>8. /\ f[<<low, high>>] = At(low, high) /\ f[<<middle + 1, high>>] = At(middle + 1, high)
          /\ f[<<low, middle>>] = At(low, middle)
      BY <1>2, <3>2
    <3> QED
      BY <2>2, <3>6, <3>7, <3>8
  <2> QED
    BY <2>1, <2>2
<1>6. PICK g : g = [r \in (0..n) \X (0..n) |->
        LET middle == r[1] + (r[2] - r[1]) \div 2
        IN  IF r[1] >= r[2] THEN r[1]
            ELSE IF blocks[middle + 1] < ip THEN f[<<middle + 1, r[2]>>]
            ELSE f[<<r[1], middle>>]]
  OBVIOUS
<1>7. \A r \in (0..n) \X (0..n) : g[r] = f[r]
  <2> SUFFICES ASSUME NEW low \in 0..n, NEW high \in 0..n PROVE g[<<low, high>>] = f[<<low, high>>]
    OBVIOUS
  <2>1. PICK middle : middle = low + (high - low) \div 2
    OBVIOUS
  <2>2. f[<<low, high>>] =
               IF low >= high THEN low
               ELSE IF blocks[middle + 1] < ip THEN f[<<middle + 1, high>>] ELSE f[<<low, middle>>]
    BY <1>5, <2>1
  <2>3. <<low, high>> \in (0..n) \X (0..n) /\ <<low, high>>[1] = low /\ <<low, high>>[2] = high
    OBVIOUS
  <2> QED
    BY <1>6, <2>1, <2>2, <2>3
<1>8. f = g
  BY <1>1, <1>6, <1>7
<1> QED
  BY <1>6, <1>8 DEF Searched

(* In a table whose addresses ascend, of any length, the search finds the   *)
(* block at an address, and no block only where there is none.              *)
THEOREM BlocksAreFound ==
  ASSUME NEW blocks \in Seq(Int), Ordered(blocks), NEW ip \in Int
  PROVE  /\ FindBlock(blocks, ip) \in 0..Len(blocks)
         /\ BlockFound(blocks, ip, FindBlock(blocks, ip))
<1>1. PICK n \in Nat : n = Len(blocks) /\ blocks \in [1..n -> Int] /\ DOMAIN blocks = 1..n
  OBVIOUS
<1>2. \A i, j \in 1..n : i < j => blocks[i] < blocks[j]
  BY <1>1 DEF Ordered
<1>3. PICK f : f = CHOOSE g : Searched(blocks, ip, Len(blocks), g)
  OBVIOUS
<1>4. Searched(blocks, ip, n, f)
  <2>1. \E g : Searched(blocks, ip, n, g)
    BY <1>1, <1>2, SearchExists
  <2> QED
    BY <1>1, <1>3, <2>1
<1>5. PICK low : low = f[<<0, Len(blocks)>>]
  OBVIOUS
<1>6. FindBlock(blocks, ip) = IF low < n /\ blocks[low + 1] = ip THEN low + 1 ELSE NoBlock
  <2>1. FindBlock(blocks, ip) = IF low < Len(blocks) /\ blocks[low + 1] = ip THEN low + 1 ELSE NoBlock
    BY <1>3, <1>5 DEF FindBlock, Searched
  <2> QED
    BY <1>1, <2>1
<1>7. low \in 0..n /\ (\A i \in 1..low : blocks[i] < ip) /\ (low < n => ~(blocks[low + 1] < ip))
  <2>1. EndsAt(blocks, ip, 0, n, f[<<0, n>>])
    BY <1>1, <1>2, <1>4, SearchEnds
  <2>2. EndsAt(blocks, ip, 0, n, low)
    BY <1>1, <1>5, <2>1
  <2>3. 0 + 1 = 1
    OBVIOUS
  <2> QED
    BY <2>2, <2>3 DEF EndsAt
<1>8. CASE low < n /\ blocks[low + 1] = ip
  BY <1>1, <1>6, <1>7, <1>8 DEF BlockFound, NoBlock
<1>9. CASE ~(low < n /\ blocks[low + 1] = ip)
  <2> SUFFICES ASSUME NEW k \in 1..n PROVE blocks[k] # ip
    BY <1>1, <1>6, <1>9 DEF BlockFound, NoBlock
  <2>1. blocks[k] \in Int
    BY <1>1
  <2>2. CASE k <= low
    BY <1>7, <2>1, <2>2
  <2>3. CASE k = low + 1
    BY <1>7, <1>9, <2>3
  <2>4. CASE k > low + 1
    <3>1. low + 1 \in 1..n /\ low + 1 < k
      BY <1>7, <2>4
    <3>2. blocks[low + 1] < blocks[k] /\ ~(blocks[low + 1] < ip) /\ blocks[low + 1] \in Int
      BY <1>1, <1>2, <1>7, <3>1
    <3> QED
      BY <2>1, <3>2
  <2> QED
    BY <1>7, <2>2, <2>3, <2>4
<1> QED
  BY <1>8, <1>9

----------------------------------------------------------------------------
LEMMA FlagsOf ==
  ASSUME NEW x, NEW w, NEW c \in BOOLEAN, NEW a \in BOOLEAN, NEW o \in BOOLEAN
  PROVE  /\ "C" \in Describes(w, x) \cup When("C", c) \cup When("A", a) \cup When("O", o) <=> c
         /\ "A" \in Describes(w, x) \cup When("C", c) \cup When("A", a) \cup When("O", o) <=> a
  BY DEF Describes, When

LEMMA ResultParts == \A x, fs : Result(x, fs).word = x /\ Result(x, fs).flags = fs
  BY DEF Result

BytesAdd(l, r, b) ==
  /\ b.word = (l + r) % 256
  /\ "C" \in b.flags <=> l + r >= 256
  /\ "A" \in b.flags <=> (l % 16) + (r % 16) >= 16
LEMMA SumOfBytes == \A l \in 0..255, r \in 0..255 : \A f : BytesAdd(l, r, Add(8, l, r, f))
<1> SUFFICES ASSUME NEW l \in 0..255, NEW r \in 0..255, NEW f PROVE BytesAdd(l, r, Add(8, l, r, f))
  OBVIOUS
<1>0. PICK b : b = Add(8, l, r, f)
  OBVIOUS
<1>1. Two(8) = 256 /\ 8 \in Widths
  BY Powers DEF Widths
<1>2. l \in WordsOf(8) /\ r \in WordsOf(8) /\ 0 \in {0, 1}
  BY <1>1 DEF WordsOf
<1>3. b = Sum(8, l, r, 0)
  BY <1>0, <1>1, <1>2, SumRight DEF Add
<1>4. PICK x : x = (l + r + 0) % Two(8)
  OBVIOUS
<1>5. PICK fs : fs = Describes(8, x) \cup When("C", l + r + 0 >= Two(8)) \cup When("A", (l % 16) + (r % 16) + 0 >= 16)
                        \cup When("O", ~Fits(8, Signed(8, l) + Signed(8, r) + 0))
  OBVIOUS
<1>6. b = Result(x, fs)
  BY <1>3, <1>4, <1>5, Zenon DEF Sum
<1>8. b.word = x /\ b.flags = fs
  BY <1>6, ResultParts
<1>11. b.flags = Describes(8, x) \cup When("C", l + r + 0 >= Two(8)) \cup When("A", (l % 16) + (r % 16) + 0 >= 16)
                        \cup When("O", ~Fits(8, Signed(8, l) + Signed(8, r) + 0))
  BY <1>5, <1>8, Zenon
<1>9. "C" \in b.flags <=> l + r + 0 >= Two(8)
  BY <1>11 DEF Describes, When
<1>10. "A" \in b.flags <=> (l % 16) + (r % 16) + 0 >= 16
  BY <1>11 DEF Describes, When
<1>7. x = (l + r) % 256
  BY <1>1, <1>4
<1>12. BytesAdd(l, r, b)
  BY <1>1, <1>7, <1>8, <1>9, <1>10 DEF BytesAdd
<1> QED
  BY <1>0, <1>12

BytesSubtract(l, r, b) ==
  /\ b.word = (l - r) % 256
  /\ "C" \in b.flags <=> l < r
  /\ "A" \in b.flags <=> l % 16 < r % 16
LEMMA DifferenceOfBytes == \A l \in 0..255, r \in 0..255 : \A f : BytesSubtract(l, r, Sub(8, l, r, f))
<1> SUFFICES ASSUME NEW l \in 0..255, NEW r \in 0..255, NEW f PROVE BytesSubtract(l, r, Sub(8, l, r, f))
  OBVIOUS
<1>0. PICK b : b = Sub(8, l, r, f)
  OBVIOUS
<1>1. Two(8) = 256 /\ 8 \in Widths
  BY Powers DEF Widths
<1>2. l \in WordsOf(8) /\ r \in WordsOf(8) /\ 0 \in {0, 1}
  BY <1>1 DEF WordsOf
<1>3. b = Difference(8, l, r, 0)
  BY <1>0, <1>1, <1>2, DifferenceRight DEF Sub
<1>4. PICK x : x = (l - r - 0) % Two(8)
  OBVIOUS
<1>5. PICK fs : fs = Describes(8, x) \cup When("C", l < r + 0) \cup When("A", l % 16 < (r % 16) + 0)
                        \cup When("O", ~Fits(8, Signed(8, l) - Signed(8, r) - 0))
  OBVIOUS
<1>6. b = Result(x, fs)
  BY <1>3, <1>4, <1>5, Zenon DEF Difference
<1>8. b.word = x /\ b.flags = fs
  BY <1>6, ResultParts
<1>11. b.flags = Describes(8, x) \cup When("C", l < r + 0) \cup When("A", l % 16 < (r % 16) + 0)
                        \cup When("O", ~Fits(8, Signed(8, l) - Signed(8, r) - 0))
  BY <1>5, <1>8, Zenon
<1>9. "C" \in b.flags <=> l < r + 0
  BY <1>11 DEF Describes, When
<1>10. "A" \in b.flags <=> l % 16 < (r % 16) + 0
  BY <1>11 DEF Describes, When
<1>7. x = (l - r) % 256
  BY <1>1, <1>4
<1>12. BytesSubtract(l, r, b)
  BY <1>1, <1>7, <1>8, <1>9, <1>10 DEF BytesSubtract
<1> QED
  BY <1>0, <1>12

(* A decimal number in a byte is two digits.                                *)
LEMMA TwoDigits ==
  ASSUME NEW n \in 0..99
  PROVE  \E t \in 0..9, u \in 0..9 : n = 10 * t + u /\ Packed(n) = 16 * t + u /\ Unpacked(n) = 256 * t + u
<1>1. n \div 10 \in 0..9 /\ n % 10 \in 0..9 /\ n = 10 * (n \div 10) + (n % 10)
  OBVIOUS
<1> QED
  BY <1>1 DEF Packed, Unpacked

LEMMA PackedDigits ==
  ASSUME NEW t \in 0..9, NEW u \in 0..9
  PROVE  Packed(10 * t + u) = 16 * t + u
<1>1. (10 * t + u) \div 10 = t /\ (10 * t + u) % 10 = u
  OBVIOUS
<1> QED
  BY <1>1 DEF Packed

HalfDigit(al, f) == IF al % 16 > 9 \/ "A" \in f THEN 6 ELSE 0
FullDigit(al, f) == IF al > 153 \/ "C" \in f THEN 96 ELSE 0
AdjustedBy(al, sign, half, full, got) ==
  got.word = (al + sign * (half + full)) % 256 /\ ("C" \in got.flags <=> full # 0)
LEMMA AdjustedParts ==
  \A al \in 0..255, sign \in {1, -1} :
    \A f : AdjustedBy(al, sign, HalfDigit(al, f), FullDigit(al, f), Adjusted(al, f, sign))
<1> SUFFICES ASSUME NEW al \in 0..255, NEW sign \in {1, -1}, NEW f
             PROVE  AdjustedBy(al, sign, HalfDigit(al, f), FullDigit(al, f), Adjusted(al, f, sign))
  OBVIOUS
<1>7. PICK half \in {0, 6}, full \in {0, 96} : half = HalfDigit(al, f) /\ full = FullDigit(al, f)
  BY DEF HalfDigit, FullDigit
<1>8. PICK got : got = Adjusted(al, f, sign)
  OBVIOUS
<1>1. LowHalf(al) = al /\ al - al = 0
  BY DEF LowHalf
<1>2. PICK x : x = LowHalf(al + sign * (half + full))
  OBVIOUS
<1>3. got = Result(al - al + x, (f \ {"C", "P", "A", "Z", "S"}) \cup Common(8, x)
                            \cup When("A", half # 0) \cup When("C", full # 0))
  BY <1>1, <1>2, <1>7, <1>8 DEF Adjusted, Needed, HalfDigit, FullDigit
<1>4. x \in Int /\ x = (al + sign * (half + full)) % 256
  BY <1>2 DEF LowHalf
<1>5. got.word = x
  BY <1>1, <1>3, <1>4 DEF Result
<1>6. "C" \in got.flags <=> full # 0
  BY <1>3 DEF Result, Common, When
<1>9. AdjustedBy(al, sign, half, full, got)
  BY <1>4, <1>5, <1>6 DEF AdjustedBy
<1> QED
  BY <1>7, <1>8, <1>9

(* Two digits and two digits, added and subtracted as the code does.        *)
DigitsAdd(a, b, c, d, s, al, half, full) ==
  /\ a \in 0..9 /\ b \in 0..9 /\ c \in 0..9 /\ d \in 0..9 /\ s \in Int
  /\ s = 10 * a + b + (10 * c + d)
  /\ al = (16 * a + b + (16 * c + d)) % 256
  /\ half = IF al % 16 > 9 \/ b + d >= 16 THEN 6 ELSE 0
  /\ full = IF al > 153 \/ 16 * a + b + (16 * c + d) >= 256 THEN 96 ELSE 0
AddedTo(s, al, half, full) ==
  (al + (half + full)) % 256 = Packed(s % 100) /\ (full # 0 <=> s >= 100)
LEMMA DigitsAdded ==
  \A a, b, c, d, s, al, half, full :
    DigitsAdd(a, b, c, d, s, al, half, full) => AddedTo(s, al, half, full)
<1> SUFFICES ASSUME NEW a, NEW b, NEW c, NEW d, NEW s, NEW al, NEW half, NEW full,
                    DigitsAdd(a, b, c, d, s, al, half, full)
             PROVE  AddedTo(s, al, half, full)
  OBVIOUS
<1> a \in 0..9 /\ b \in 0..9 /\ c \in 0..9 /\ d \in 0..9 /\ s \in Int
  BY DEF DigitsAdd
<1>15. /\ al = (16 * a + b + (16 * c + d)) % 256
       /\ half = IF al % 16 > 9 \/ b + d >= 16 THEN 6 ELSE 0
       /\ full = IF al > 153 \/ 16 * a + b + (16 * c + d) >= 256 THEN 96 ELSE 0
  BY DEF DigitsAdd
<1>16. s = 10 * a + b + (10 * c + d)
  BY DEF DigitsAdd
<1>1. PICK e \in 0..18, g \in 0..18 : e = a + c /\ g = b + d
  OBVIOUS
<1>2. s = 10 * e + g /\ 16 * a + b + (16 * c + d) = 16 * e + g
  BY <1>1, <1>16
<1>3. PICK h \in {0, 1}, u \in 0..9 : g = 10 * h + u
  <2>1. CASE g <= 9
    <3>1. g \in 0..9 /\ g = 10 * 0 + g
      BY <2>1
    <3> QED
      BY <3>1
  <2>2. CASE g > 9
    <3>1. g - 10 \in 0..9 /\ g = 10 * 1 + (g - 10)
      BY <2>2
    <3> QED
      BY <3>1
  <2> QED
    BY <2>1, <2>2
<1>4. PICK t \in 0..9, k \in {0, 1} : e + h = 10 * k + t
  <2>1. CASE e + h <= 9
    <3>1. e + h \in 0..9 /\ e + h = 10 * 0 + (e + h)
      BY <2>1
    <3> QED
      BY <3>1
  <2>2. CASE e + h > 9
    <3>1. e + h - 10 \in 0..9 /\ e + h = 10 * 1 + (e + h - 10)
      BY <2>2
    <3> QED
      BY <3>1
  <2> QED
    BY <2>1, <2>2
<1>5. s = 100 * k + 10 * t + u
  BY <1>2, <1>3, <1>4
<1>6. s % 100 = 10 * t + u /\ (s >= 100 <=> k = 1)
  BY <1>5
<1>7. Packed(s % 100) = 16 * t + u
  BY <1>6, PackedDigits
<1>8. al = (16 * e + g) % 256 /\ (half = IF al % 16 > 9 \/ g >= 16 THEN 6 ELSE 0)
      /\ (full = IF al > 153 \/ 16 * e + g >= 256 THEN 96 ELSE 0)
  BY <1>1, <1>2, <1>15
<1>9. PICK n \in 0..306 : n = 16 * e + g
  OBVIOUS
<1>10. al = IF n >= 256 THEN n - 256 ELSE n
  BY <1>8, <1>9
<1>11. al % 16 = IF g >= 16 THEN g - 16 ELSE g
  BY <1>8
<1>12. half = 6 * h
  BY <1>3, <1>8, <1>11
<1>13. full = 96 * k
  BY <1>3, <1>4, <1>8, <1>9, <1>10
<1>14. (al + (half + full)) % 256 = 16 * t + u
  BY <1>3, <1>4, <1>9, <1>10, <1>12, <1>13
<1>17. AddedTo(s, al, half, full)
  BY <1>6, <1>7, <1>13, <1>14 DEF AddedTo
<1> QED
  BY <1>17

DigitsSubtract(a, b, c, d, s, al, half, full) ==
  /\ a \in 0..9 /\ b \in 0..9 /\ c \in 0..9 /\ d \in 0..9 /\ s \in Int
  /\ s = 10 * a + b - (10 * c + d)
  /\ al = (16 * a + b - (16 * c + d)) % 256
  /\ half = IF al % 16 > 9 \/ b < d THEN 6 ELSE 0
  /\ full = IF al > 153 \/ 16 * a + b < 16 * c + d THEN 96 ELSE 0
SubtractedTo(s, al, half, full) ==
  (al + -1 * (half + full)) % 256 = Packed(s % 100) /\ (full # 0 <=> s < 0)
LEMMA DigitsSubtracted ==
  \A a, b, c, d, s, al, half, full :
    DigitsSubtract(a, b, c, d, s, al, half, full) => SubtractedTo(s, al, half, full)
<1> SUFFICES ASSUME NEW a, NEW b, NEW c, NEW d, NEW s, NEW al, NEW half, NEW full,
                    DigitsSubtract(a, b, c, d, s, al, half, full)
             PROVE  SubtractedTo(s, al, half, full)
  OBVIOUS
<1> a \in 0..9 /\ b \in 0..9 /\ c \in 0..9 /\ d \in 0..9 /\ s \in Int
  BY DEF DigitsSubtract
<1>15. /\ al = (16 * a + b - (16 * c + d)) % 256
       /\ half = IF al % 16 > 9 \/ b < d THEN 6 ELSE 0
       /\ full = IF al > 153 \/ 16 * a + b < 16 * c + d THEN 96 ELSE 0
  BY DEF DigitsSubtract
<1>16. s = 10 * a + b - (10 * c + d)
  BY DEF DigitsSubtract
<1>1. PICK e \in -9..9, g \in -9..9 : e = a - c /\ g = b - d
  OBVIOUS
<1>2. s = 10 * e + g /\ 16 * a + b - (16 * c + d) = 16 * e + g
  BY <1>1, <1>16
<1>3. PICK h \in {0, 1}, u \in 0..9 : g = u - 10 * h
  <2>1. CASE g >= 0
    <3>1. g \in 0..9 /\ g = g - 10 * 0
      BY <2>1
    <3> QED
      BY <3>1
  <2>2. CASE g < 0
    <3>1. g + 10 \in 0..9 /\ g = (g + 10) - 10 * 1
      BY <2>2
    <3> QED
      BY <3>1
  <2> QED
    BY <2>1, <2>2
<1>4. PICK t \in 0..9, k \in {0, 1} : e - h = t - 10 * k
  <2>1. CASE e - h >= 0
    <3>1. e - h \in 0..9 /\ e - h = (e - h) - 10 * 0
      BY <2>1
    <3> QED
      BY <3>1
  <2>2. CASE e - h < 0
    <3>1. e - h + 10 \in 0..9 /\ e - h = (e - h + 10) - 10 * 1
      BY <2>2
    <3> QED
      BY <3>1
  <2> QED
    BY <2>1, <2>2
<1>5. s = 10 * t + u - 100 * k
  BY <1>2, <1>3, <1>4
<1>6. s % 100 = 10 * t + u /\ (s < 0 <=> k = 1)
  BY <1>5
<1>7. Packed(s % 100) = 16 * t + u
  BY <1>6, PackedDigits
<1>8. al = (16 * e + g) % 256 /\ (half = IF al % 16 > 9 \/ g < 0 THEN 6 ELSE 0)
      /\ (full = IF al > 153 \/ 16 * e + g < 0 THEN 96 ELSE 0)
  BY <1>1, <1>2, <1>15
<1>9. PICK n \in -153..153 : n = 16 * e + g
  OBVIOUS
<1>10. al = IF n < 0 THEN n + 256 ELSE n
  BY <1>8, <1>9
<1>11. al % 16 = IF g < 0 THEN g + 16 ELSE g
  BY <1>8
<1>12. half = 6 * h
  BY <1>3, <1>8, <1>11
<1>13. full = 96 * k
  BY <1>3, <1>4, <1>8, <1>9, <1>10
<1>14. (al + -1 * (half + full)) % 256 = 16 * t + u
  BY <1>3, <1>4, <1>9, <1>10, <1>12, <1>13
<1>17. SubtractedTo(s, al, half, full)
  BY <1>6, <1>7, <1>13, <1>14 DEF SubtractedTo
<1> QED
  BY <1>17

LEMMA PackedFits == \A n \in 0..99 : Packed(n) \in 0..255
<1> SUFFICES ASSUME NEW n \in 0..99 PROVE Packed(n) \in 0..255
  OBVIOUS
<1> QED
  BY TwoDigits

DecimalOps == {"daa", "das", "aaa", "aas", "aam", "aad"}
Digits(op) == IF op \in {"daa", "das", "aad"} THEN 0..99 ELSE 0..9

(* Decimal arithmetic, of two digits in a byte and of a digit in each byte: *)
(* adding or subtracting as binary numbers and adjusting gives the digits   *)
(* and the carry of the decimal sum or difference, for all of them.         *)
THEOREM DecimalsAreRight ==
  ASSUME NEW op \in DecimalOps, NEW l \in Digits(op), NEW r \in Digits(op), NEW f
  PROVE  Right(op, 8, l, r, f, Computed(op, 8, l, r, f))
<1>1. ASSUME NEW n \in 0..99
      PROVE  \E t \in 0..9, u \in 0..9 : n = 10 * t + u /\ Packed(n) = 16 * t + u /\ Unpacked(n) = 256 * t + u
  BY TwoDigits
<1>2. CASE op = "daa"
  <2>1. l \in 0..99 /\ r \in 0..99
    BY <1>2 DEF Digits
  <2>2. PICK a \in 0..9, b \in 0..9 : l = 10 * a + b /\ Packed(l) = 16 * a + b
    BY <2>1, TwoDigits
  <2>3. PICK c \in 0..9, d \in 0..9 : r = 10 * c + d /\ Packed(r) = 16 * c + d
    BY <2>1, TwoDigits
  <2>4. PICK x \in 0..255, y \in 0..255 : x = 16 * a + b /\ y = 16 * c + d
    <3>1. 16 * a + b \in 0..255 /\ 16 * c + d \in 0..255
      OBVIOUS
    <3> QED
      BY <3>1
  <2>5. PICK before : before = Add(8, x, y, f)
    OBVIOUS
  <2>6. BytesAdd(x, y, before)
    BY <2>5, SumOfBytes
  <2>7. PICK al \in 0..255 : al = before.word /\ al = (x + y) % 256
    <3>1. (x + y) % 256 \in 0..255
      OBVIOUS
    <3> QED
      BY <2>6, <3>1 DEF BytesAdd
  <2>8. PICK got : got = Adjusted(al, before.flags, 1)
    OBVIOUS
  <2>9. PICK half \in {0, 6}, full \in {0, 96} : half = HalfDigit(al, before.flags) /\ full = FullDigit(al, before.flags)
    BY DEF HalfDigit, FullDigit
  <2>18. AdjustedBy(al, 1, HalfDigit(al, before.flags), FullDigit(al, before.flags), Adjusted(al, before.flags, 1))
    BY AdjustedParts
  <2>10. got.word = (al + 1 * (half + full)) % 256 /\ ("C" \in got.flags <=> full # 0)
    BY <2>8, <2>9, <2>18 DEF AdjustedBy
  <2>11. x % 16 = b /\ y % 16 = d
    BY <2>4
  <2>13. PICK s \in Int : s = 10 * a + b + (10 * c + d)
    OBVIOUS
  <2>12. DigitsAdd(a, b, c, d, s, al, half, full)
    <3>1. al = (16 * a + b + (16 * c + d)) % 256
      BY <2>4, <2>7
    <3>2. half = IF al % 16 > 9 \/ b + d >= 16 THEN 6 ELSE 0
      BY <2>6, <2>9, <2>11 DEF BytesAdd, HalfDigit
    <3>3. "C" \in before.flags <=> x + y >= 256
      BY <2>6 DEF BytesAdd
    <3>4. full = IF al > 153 \/ "C" \in before.flags THEN 96 ELSE 0
      BY <2>9 DEF FullDigit
    <3>5. full = IF al > 153 \/ 16 * a + b + (16 * c + d) >= 256 THEN 96 ELSE 0
      BY <2>4, <3>3, <3>4
    <3> QED
      BY <2>13, <3>1, <3>2, <3>5 DEF DigitsAdd
  <2>19. AddedTo(s, al, half, full)
    BY <2>12, DigitsAdded
  <2>14. (al + (half + full)) % 256 = Packed(s % 100) /\ (full # 0 <=> s >= 100)
    BY <2>19 DEF AddedTo
  <2>15. l + r = s /\ 1 * (half + full) = half + full
    BY <2>2, <2>3, <2>9, <2>13
  <2>16. got.word = Packed((l + r) % 100) /\ (Carries(got) <=> l + r >= 100)
    BY <2>10, <2>14, <2>15 DEF Carries
  <2>17. Computed(op, 8, l, r, f) = got
    <3>1. Before(op, Packed(l), Packed(r), f) = before
      BY <1>2, <2>2, <2>3, <2>4, <2>5 DEF Before
    <3> QED
      BY <1>2, <2>7, <2>8, <3>1 DEF Computed, Daa
  <2> QED
    BY <1>2, <2>16, <2>17 DEF Right
<1>3. CASE op = "das"
  <2>1. l \in 0..99 /\ r \in 0..99
    BY <1>3 DEF Digits
  <2>2. PICK a \in 0..9, b \in 0..9 : l = 10 * a + b /\ Packed(l) = 16 * a + b
    BY <2>1, TwoDigits
  <2>3. PICK c \in 0..9, d \in 0..9 : r = 10 * c + d /\ Packed(r) = 16 * c + d
    BY <2>1, TwoDigits
  <2>4. PICK x \in 0..255, y \in 0..255 : x = 16 * a + b /\ y = 16 * c + d
    <3>1. 16 * a + b \in 0..255 /\ 16 * c + d \in 0..255
      OBVIOUS
    <3> QED
      BY <3>1
  <2>5. PICK before : before = Sub(8, x, y, f)
    OBVIOUS
  <2>6. BytesSubtract(x, y, before)
    BY <2>5, DifferenceOfBytes
  <2>7. PICK al \in 0..255 : al = before.word /\ al = (x - y) % 256
    <3>1. (x - y) % 256 \in 0..255
      OBVIOUS
    <3> QED
      BY <2>6, <3>1 DEF BytesSubtract
  <2>8. PICK got : got = Adjusted(al, before.flags, -1)
    OBVIOUS
  <2>9. PICK half \in {0, 6}, full \in {0, 96} : half = HalfDigit(al, before.flags) /\ full = FullDigit(al, before.flags)
    BY DEF HalfDigit, FullDigit
  <2>18. AdjustedBy(al, -1, HalfDigit(al, before.flags), FullDigit(al, before.flags), Adjusted(al, before.flags, -1))
    BY AdjustedParts
  <2>10. got.word = (al + -1 * (half + full)) % 256 /\ ("C" \in got.flags <=> full # 0)
    BY <2>8, <2>9, <2>18 DEF AdjustedBy
  <2>11. x % 16 = b /\ y % 16 = d
    BY <2>4
  <2>13. PICK s \in Int : s = 10 * a + b - (10 * c + d)
    OBVIOUS
  <2>12. DigitsSubtract(a, b, c, d, s, al, half, full)
    <3>1. al = (16 * a + b - (16 * c + d)) % 256
      BY <2>4, <2>7
    <3>2. half = IF al % 16 > 9 \/ b < d THEN 6 ELSE 0
      BY <2>6, <2>9, <2>11 DEF BytesSubtract, HalfDigit
    <3>3. "C" \in before.flags <=> x < y
      BY <2>6 DEF BytesSubtract
    <3>4. full = IF al > 153 \/ "C" \in before.flags THEN 96 ELSE 0
      BY <2>9 DEF FullDigit
    <3>5. full = IF al > 153 \/ 16 * a + b < 16 * c + d THEN 96 ELSE 0
      BY <2>4, <3>3, <3>4
    <3> QED
      BY <2>13, <3>1, <3>2, <3>5 DEF DigitsSubtract
  <2>19. SubtractedTo(s, al, half, full)
    BY <2>12, DigitsSubtracted
  <2>14. (al + -1 * (half + full)) % 256 = Packed(s % 100) /\ (full # 0 <=> s < 0)
    BY <2>19 DEF SubtractedTo
  <2>15. l - r = s /\ (s < 0 <=> l < r)
    BY <2>2, <2>3, <2>13
  <2>16. got.word = Packed((l - r) % 100) /\ (Carries(got) <=> l < r)
    BY <2>10, <2>14, <2>15 DEF Carries
  <2>17. Computed(op, 8, l, r, f) = got
    <3>1. Before(op, Packed(l), Packed(r), f) = before
      BY <1>3, <2>2, <2>3, <2>4, <2>5 DEF Before
    <3> QED
      BY <1>3, <2>7, <2>8, <3>1 DEF Computed, Das
  <2> QED
    BY <1>3, <2>16, <2>17 DEF Right
<1>4. CASE op = "aaa"
  <2>1. l \in 0..9 /\ r \in 0..9 /\ l \in 0..255 /\ r \in 0..255
    BY <1>4 DEF Digits
  <2>2. PICK before : before = Add(8, l, r, f)
    OBVIOUS
  <2>13. BytesAdd(l, r, before)
    BY <2>1, <2>2, SumOfBytes
  <2>3. /\ before.word = (l + r) % 256
        /\ "A" \in before.flags <=> (l % 16) + (r % 16) >= 16
    BY <2>13 DEF BytesAdd
  <2>4. PICK x \in 0..18 : x = l + r /\ x = before.word /\ (Needed(before.word, before.flags) <=> x > 9)
    BY <2>1, <2>3 DEF Needed
  <2>5. PICK got : got = Aaa(x, before.flags)
    OBVIOUS
  <2>6. Computed(op, 8, l, r, f) = got
    <3>1. Before(op, l, r, f) = before
      BY <1>4, <2>2 DEF Before
    <3> QED
      BY <1>4, <2>4, <2>5, <3>1 DEF Computed
  <2>7. Two(16) = 65536
    BY Powers
  <2>8. CASE x > 9
    <3>1. Word(16, x + 262) = x + 262
      BY <2>7 DEF Word
    <3>2. (x + 262) % 256 = x + 6 /\ (x + 262) % 16 = x - 10
      BY <2>8
    <3>3. got = Result(x + 262 - ((x + 262) % 256) + ((x + 262) % 16), before.flags \cup {"A", "C"})
      BY <2>4, <2>5, <2>8, <3>1 DEF Aaa
    <3>4. got.word = x + 262 - ((x + 262) % 256) + ((x + 262) % 16) /\ "C" \in got.flags
      BY <3>3, ResultParts
    <3>7. x \div 10 = 1 /\ x % 10 = x - 10
      BY <2>8
    <3>5. Unpacked(x) = 256 + (x - 10)
      BY <3>7 DEF Unpacked
    <3>8. x + 262 - (x + 6) + (x - 10) = 256 + (x - 10)
      OBVIOUS
    <3>6. got.word = Unpacked(x)
      BY <3>2, <3>4, <3>5, <3>8
    <3> QED
      BY <1>4, <2>4, <2>6, <2>8, <3>4, <3>6 DEF Right, Carries
  <2>9. CASE ~(x > 9)
    <3>1. x % 256 = x /\ x % 16 = x
      BY <2>9
    <3>2. got = Result(x - (x % 256) + (x % 16), before.flags \ {"A", "C"})
      BY <2>4, <2>5, <2>9 DEF Aaa
    <3>3. got.word = x - (x % 256) + (x % 16) /\ "C" \notin got.flags
      BY <3>2, ResultParts
    <3>7. x \div 10 = 0 /\ x % 10 = x
      BY <2>9
    <3>4. Unpacked(x) = x
      BY <3>7 DEF Unpacked
    <3>8. x - x + x = x
      OBVIOUS
    <3>5. got.word = Unpacked(x)
      BY <3>1, <3>3, <3>4, <3>8
    <3> QED
      BY <1>4, <2>4, <2>6, <2>9, <3>3, <3>5 DEF Right, Carries
  <2> QED
    BY <2>8, <2>9
<1>5. CASE op = "aas"
  <2>1. l \in 0..9 /\ r \in 0..9 /\ l \in 0..255 /\ r \in 0..255
    BY <1>5 DEF Digits
  <2>2. PICK before : before = Sub(8, l, r, f)
    OBVIOUS
  <2>13. BytesSubtract(l, r, before)
    BY <2>1, <2>2, DifferenceOfBytes
  <2>3. /\ before.word = (l - r) % 256
        /\ "A" \in before.flags <=> l % 16 < r % 16
    BY <2>13 DEF BytesSubtract
  <2>4. PICK n \in -9..9 : n = l - r /\ (n < 0 <=> l < r)
    BY <2>1
  <2>5. PICK x \in 0..255 : /\ x = before.word /\ x = (IF n < 0 THEN n + 256 ELSE n)
                            /\ Needed(x, before.flags) <=> n < 0
    BY <2>1, <2>3, <2>4 DEF Needed
  <2>6. PICK got : got = Aas(x, before.flags)
    OBVIOUS
  <2>7. Computed(op, 8, l, r, f) = got
    <3>1. Before(op, l, r, f) = before
      BY <1>5, <2>2 DEF Before
    <3> QED
      BY <1>5, <2>5, <2>6, <3>1 DEF Computed
  <2>8. Two(16) = 65536
    BY Powers
  <2>9. CASE n < 0
    <3>8. x - 262 = n - 6
      BY <2>5, <2>9
    <3>9. (n - 6) % 65536 = n + 65530
      BY <2>9
    <3>1. Word(16, x - 262) = n + 65530
      BY <2>8, <3>8, <3>9 DEF Word
    <3>2. (n + 65530) % 256 = n + 250 /\ (n + 65530) % 16 = n + 10
      BY <2>9
    <3>13. PICK z : z = Word(16, x - 262)
      OBVIOUS
    <3>14. got = Result(z - (z % 256) + (z % 16), before.flags \cup {"A", "C"})
      BY <2>5, <2>6, <2>9, <3>13 DEF Aas
    <3>15. z = n + 65530
      BY <3>1, <3>13
    <3>16. got.word = z - (z % 256) + (z % 16) /\ "C" \in got.flags
      BY <3>14, ResultParts
    <3>10. n + 65530 - (n + 250) + (n + 10) = 65280 + (n + 10)
      OBVIOUS
    <3>17. PICK y \in Int, v \in Int : y = z % 256 /\ v = z % 16
      BY <3>15
    <3>18. y = n + 250 /\ v = n + 10
      BY <3>2, <3>15, <3>17
    <3>19. got.word = z - y + v
      BY <3>16, <3>17
    <3>5. got.word = 65280 + (n + 10)
      BY <3>15, <3>18, <3>19
    <3>22. PICK m \in -9..9 : m = -1
      OBVIOUS
    <3>23. ASSUME NEW k \in -9..9, k < 0 PROVE k % 256 = k + 256
      BY <3>23
    <3>25. m \in -9..9 /\ m < 0 /\ m + 256 = 255
      BY <3>22
    <3>26. m % 256 = m + 256
      BY <3>23, <3>25
    <3>20. m % 256 = 255
      BY <3>25, <3>26
    <3>21. n % 10 = n + 10
      BY <2>9
    <3>11. (l - r) % 10 = n + 10
      BY <2>4, <3>21
    <3>12. (IF l < r THEN -1 ELSE 0) % 256 = 255
      BY <2>4, <2>9, <3>20, <3>22
    <3>7. got.word = 256 * ((IF l < r THEN -1 ELSE 0) % 256) + ((l - r) % 10)
      BY <3>5, <3>11, <3>12
    <3> QED
      BY <1>5, <2>4, <2>7, <2>9, <3>16, <3>7 DEF Right, Carries
  <2>10. CASE ~(n < 0)
    <3>1. x % 256 = n /\ x % 16 = n
      BY <2>5, <2>10
    <3>2. got = Result(x - (x % 256) + (x % 16), before.flags \ {"A", "C"})
      BY <2>5, <2>6, <2>10 DEF Aas
    <3>3. got.word = x - (x % 256) + (x % 16) /\ "C" \notin got.flags
      BY <3>2, ResultParts
    <3>4. 0 % 256 = 0 /\ n % 10 = n
      BY <2>10
    <3>6. (l - r) % 10 = n
      BY <2>4, <3>4
    <3>7. (IF l < r THEN -1 ELSE 0) % 256 = 0
      BY <2>4, <2>10, <3>4
    <3>8. x = n /\ x - n + n = 256 * 0 + n
      BY <2>5, <2>10
    <3>5. got.word = 256 * ((IF l < r THEN -1 ELSE 0) % 256) + ((l - r) % 10)
      BY <3>1, <3>3, <3>6, <3>7, <3>8
    <3> QED
      BY <1>5, <2>4, <2>7, <2>10, <3>3, <3>5 DEF Right, Carries
  <2> QED
    BY <2>9, <2>10
<1>6. CASE op = "aam"
  <2>1. l \in 0..9 /\ r \in 0..9
    BY <1>6 DEF Digits
  <2>2. PICK p \in 0..81 : p = l * r
    <3>1. l * r \in Nat /\ l * r <= 9 * r
      BY <2>1
    <3> QED
      BY <2>1, <3>1
  <2>3. Mul(8, l, r, f).word = p
    BY <2>2, ResultParts DEF Mul, Product
  <2>4. LowHalf(p) = p
    BY DEF LowHalf
  <2>5. Computed(op, 8, l, r, f) = Aam(p, f)
    BY <1>6, <2>3 DEF Computed
  <2>6. Aam(p, f).word = Unpacked(p)
    BY <2>4, ResultParts DEF Aam, Unpacked
  <2> QED
    BY <1>6, <2>2, <2>5, <2>6 DEF Right
<1>7. CASE op = "aad"
  <2>1. l \in 0..99
    BY <1>7 DEF Digits
  <2>2. PICK t \in 0..9, u \in 0..9 : l = 10 * t + u /\ Unpacked(l) = 256 * t + u
    BY <2>1, TwoDigits
  <2>3. PICK ax \in Nat : ax = 256 * t + u /\ ax \div 256 = t /\ LowHalf(ax) = u
    BY DEF LowHalf
  <2>4. LowHalf(u + 10 * t) = l
    BY <2>2 DEF LowHalf
  <2>5. Computed(op, 8, l, r, f) = Aad(ax, f)
    BY <1>7, <2>2, <2>3 DEF Computed
  <2>6. Aad(ax, f).word = l
    BY <2>3, <2>4, ResultParts DEF Aad
  <2> QED
    BY <1>7, <2>5, <2>6 DEF Right
<1> QED
  BY <1>2, <1>3, <1>4, <1>5, <1>6, <1>7 DEF DecimalOps

-----------------------------------------------------------------------------
(* Calls and returns, over the memory above.                                *)
Call == INSTANCE Control

LEMMA SameMemory ==
  /\ Call!WordSize = WordSize /\ Call!MemorySize = MemorySize
  /\ \A mem, a : Call!Read8(mem, a) = Read8(mem, a)
  /\ \A s, o : Call!Linear(s, o) = Linear(s, o)
  /\ \A mem, s, o : Call!Read16Seg(mem, s, o) = Read16Seg(mem, s, o)
  /\ \A mem, s, o, w : Call!Write16Seg(mem, s, o, w) = Write16Seg(mem, s, o, w)
<1>1. Call!WordSize = WordSize /\ Call!MemorySize = MemorySize
  BY DEF Call!WordSize, Call!MemorySize, WordSize, MemorySize
<1>2. \A a : Call!Wrapped(a) = Wrapped(a)
  BY DEF Call!Wrapped, Wrapped
<1>3. \A s, o : Call!Linear(s, o) = Linear(s, o)
  BY <1>2 DEF Call!Linear, Linear
<1>4. \A o : Call!NextOffset(o) = NextOffset(o)
  BY <1>1 DEF Call!NextOffset, NextOffset
<1>5. \A mem, a : Call!Read8(mem, a) = Read8(mem, a)
  <2>1. \A a : Call!IsExtended(a) = IsExtended(a) /\ Call!IsWindow(a) = IsWindow(a)
    BY <1>1 DEF Call!IsExtended, Call!IsWindow, IsExtended, IsWindow
  <2>2. \A page, x : Call!ReadPage(page, x) = ReadPage(page, x)
    BY DEF Call!ReadPage, ReadPage, Call!Absent, Absent
  <2> QED
    BY <1>2, <2>1, <2>2 DEF Call!Read8, Read8, Call!Floating, Floating
<1>6. \A mem, a, v : Call!Write8(mem, a, v) = Write8(mem, a, v)
  <2>1. \A a : Call!IsExtended(a) = IsExtended(a) /\ Call!IsWindow(a) = IsWindow(a)
    BY <1>1 DEF Call!IsExtended, Call!IsWindow, IsExtended, IsWindow
  <2>2. \A mem : Call!Stopped(mem) = Stopped(mem)
    BY DEF Call!Stopped, Stopped
  <2>3. \A mem, n, x, v : Call!WritePage(mem, n, x, v) = WritePage(mem, n, x, v)
    <3>1. Call!Absent = Absent /\ Call!ZeroPage = ZeroPage
      BY DEF Call!Absent, Absent, Call!ZeroPage, ZeroPage
    <3> QED
      BY <2>2, <3>1 DEF Call!WritePage, WritePage
  <2> QED
    BY <1>2, <2>1, <2>2, <2>3, ZenonT(30) DEF Call!Write8, Write8
<1>7. \A w : Call!LowByte(w) = LowByte(w) /\ Call!HighByte(w) = HighByte(w)
  BY DEF Call!LowByte, Call!HighByte, LowByte, HighByte
<1>8. \A mem, s, o : Call!Read16Seg(mem, s, o) = Read16Seg(mem, s, o)
  BY <1>3, <1>4, <1>5 DEF Call!Read16Seg, Read16Seg
<1>9. \A mem, s, o, w : Call!Write16Seg(mem, s, o, w) = Write16Seg(mem, s, o, w)
  BY <1>3, <1>4, <1>6, <1>7, Zenon DEF Call!Write16Seg, Write16Seg
<1> QED
  BY <1>1, <1>3, <1>5, <1>8, <1>9

(* A word at the k-th byte below a stack pointer, and the bytes of it.      *)
WordValue == 0..(WordSize - 1)
Below(segment, sp, k) == Linear(segment, (sp - k) % WordSize)

LEMMA OffsetSums ==
  ASSUME NEW sp \in Int, NEW i \in Int, NEW j \in Int
  PROVE  /\ (sp - i) % WordSize \in WordValue
         /\ (((sp - i) % WordSize) + j) % WordSize = (sp - (i - j)) % WordSize
<1>1. PICK x \in Int, y \in Int : x = sp - i /\ y = sp - (i - j) /\ y = x + j
  OBVIOUS
<1>2. x % WordSize \in WordValue
  BY Sizes, ModRange DEF WordValue
<1>3. ((x % WordSize) + j) % WordSize = (x + j) % WordSize
  <2>1. WordSize \in Nat /\ WordSize > 0
    BY Sizes
  <2> QED
    BY <2>1, ModShift, Zenon
<1> QED
  BY <1>1, <1>2, <1>3

LEMMA BelowDiffer ==
  ASSUME NEW segment \in Nat, NEW sp \in Int, NEW i \in 1..WordSize, NEW j \in 1..WordSize
  PROVE  /\ Below(segment, sp, i) \in Address
         /\ i # j => Below(segment, sp, i) # Below(segment, sp, j)
<1>1. i \in Int /\ j \in Int /\ i - j < WordSize /\ 0 - WordSize < i - j
  BY Sizes
<1>2. PICK o \in WordValue, p \in WordValue :
        o = (sp - i) % WordSize /\ p = (sp - j) % WordSize /\ p = (o + (i - j)) % WordSize
  <2>1. i - j \in Int /\ i - (i - j) = j
    BY <1>1
  <2>2. (sp - i) % WordSize \in WordValue /\ (sp - j) % WordSize \in WordValue
    BY <1>1, OffsetSums, Zenon
  <2>3. (((sp - i) % WordSize) + (i - j)) % WordSize = (sp - (i - (i - j))) % WordSize
    BY <1>1, <2>1, OffsetSums, Zenon
  <2> QED
    BY <2>1, <2>2, <2>3
<1>3. i # j => o # p
  BY <1>1, <1>2, Sizes, StepMoves DEF WordValue
<1>4. PICK base \in Nat : base = segment * Paragraph
  BY Sizes
<1>5. Below(segment, sp, i) = (base + o) % AddressSpace /\ Below(segment, sp, j) = (base + p) % AddressSpace
  BY <1>2, <1>4 DEF Below, Linear, Wrapped
<1>6. PICK a \in Address : a = (base + o) % AddressSpace
  BY <1>4, Sizes, ModRange DEF WordValue, Address
<1>7. PICK k \in Int : k = p - o /\ k < AddressSpace /\ 0 - AddressSpace < k
  BY Sizes DEF WordValue
<1>8. (base + p) % AddressSpace = (a + k) % AddressSpace
  <2>1. base + p = (base + o) + k
    BY <1>4, <1>7, Sizes DEF WordValue
  <2>2. base + o \in Int
    BY <1>4, Sizes DEF WordValue
  <2> QED
    BY <1>6, <1>7, <2>1, <2>2, Sizes, ModShift
<1>9. o # p => (a + k) % AddressSpace # a
  <2>1. o # p => k # 0
    BY <1>7, Sizes DEF WordValue
  <2>2. a \in Nat /\ a < AddressSpace /\ AddressSpace \in Nat
    BY Sizes DEF Address
  <2> QED
    BY <1>7, <2>1, <2>2, StepMoves
<1> QED
  BY <1>3, <1>5, <1>6, <1>8, <1>9

\* Two bytes are written, or the program stops.
LEMMA PairWritten ==
  ASSUME NEW mem \in MemRecord, NEW p \in Address, NEW q \in Address, p # q,
         NEW v \in ByteValue, NEW w \in ByteValue,
         NEW new, new = Write8(Write8(mem, p, v), q, w), ~new.stopped
  PROVE  /\ new \in MemRecord /\ ~mem.stopped
         /\ \A a \in Address : Read8(new, a) = IF a = p THEN v ELSE IF a = q THEN w ELSE Read8(mem, a)
<1>1. p = Wrapped(p) /\ q = Wrapped(q) /\ p \in Int /\ q \in Int
  BY WrappedAddress, Sizes DEF Address
<1>2. PICK mid : mid = Write8(mem, p, v)
  OBVIOUS
<1>3. mid \in MemRecord /\ (Stores(mem, mid, p, v) \/ Refuses(mem, mid))
  BY <1>1, <1>2, Write8Effect
<1>4. new \in MemRecord /\ (Stores(mid, new, q, w) \/ Refuses(mid, new))
  BY <1>1, <1>2, <1>3, Write8Effect
<1>5. Stores(mid, new, q, w) /\ ~mid.stopped
  BY <1>4 DEF Stores, Refuses
<1>6. Stores(mem, mid, p, v)
  BY <1>3, <1>5 DEF Refuses
<1> QED
  BY <1>4, <1>5, <1>6 DEF Stores

-----------------------------------------------------------------------------
(* The stack of a program, seen from a stack pointer at which it was empty. *)
Cpus == [cs : WordValue, ip : WordValue, ss : WordValue, sp : WordValue, flags : {2, 3, 6, 7},
         memory : MemRecord]

\* The word that was pushed behind i others.
Holds(base, mem, i, word) == Read16Seg(mem, base.ss, (base.sp - 2 * (i + 1)) % WordSize) = word
Pushed(base, cpu, n) ==
  /\ cpu \in Cpus /\ cpu.ss = base.ss /\ cpu.flags = base.flags
  /\ cpu.sp = (base.sp - 2 * n) % WordSize
  /\ \A a \in Address : (\A k \in 1..2 * n : a # Below(base.ss, base.sp, k))
                          => Read8(cpu.memory, a) = Read8(base.memory, a)
KeepsWords(base, old, mem, n) ==
  \A i \in 0..n - 1 : \A word : Holds(base, old, i, word) => Holds(base, mem, i, word)

LEMMA WordAt ==
  ASSUME NEW base \in Cpus, NEW n \in Nat, NEW mem, NEW word
  PROVE  /\ Read16Seg(mem, base.ss, (base.sp - 2 * (n + 1)) % WordSize)
              = Read8(mem, Below(base.ss, base.sp, 2 * n + 2))
                  + ByteSize * Read8(mem, Below(base.ss, base.sp, 2 * n + 1))
         /\ Write16Seg(mem, base.ss, (base.sp - 2 * (n + 1)) % WordSize, word)
              = Write8(Write8(mem, Below(base.ss, base.sp, 2 * n + 2), LowByte(word)),
                       Below(base.ss, base.sp, 2 * n + 1), HighByte(word))
<1>1. base.sp \in Int
  BY Sizes DEF Cpus, WordValue
<1>2. PICK o : o = (base.sp - 2 * (n + 1)) % WordSize
  OBVIOUS
<1>3. NextOffset(o) = (base.sp - (2 * n + 1)) % WordSize
  <2>1. 2 * (n + 1) \in Int /\ 2 * (n + 1) - 1 = 2 * n + 1
    OBVIOUS
  <2> QED
    BY <1>1, <1>2, <2>1, OffsetSums DEF NextOffset
<1>4. 2 * (n + 1) = 2 * n + 2
  OBVIOUS
<1> QED
  BY <1>2, <1>3, <1>4 DEF Read16Seg, Write16Seg, Below

LEMMA PushHolds ==
  ASSUME NEW base \in Cpus, NEW n \in Nat, 2 * n + 2 <= WordSize, NEW cpu, Pushed(base, cpu, n),
         NEW word \in WordValue, NEW new, new = Call!Push(cpu, word), ~new.memory.stopped
  PROVE  /\ Pushed(base, new, n + 1) /\ new.cs = cpu.cs /\ new.ip = cpu.ip
         /\ ~cpu.memory.stopped
         /\ Holds(base, new.memory, n, word)
         /\ KeepsWords(base, cpu.memory, new.memory, n)
<1>1. PICK sp : sp = (cpu.sp - 2) % WordSize
  OBVIOUS
<1>2. sp = (base.sp - 2 * (n + 1)) % WordSize /\ sp \in WordValue
  <2>1. base.sp \in Int /\ 2 * n \in Int /\ 2 * n - (0 - 2) = 2 * (n + 1) /\ 0 - 2 \in Int
    BY Sizes DEF Cpus, WordValue
  <2>2. cpu.sp = (base.sp - 2 * n) % WordSize
    BY DEF Pushed
  <2>3. cpu.sp \in Int
    BY Sizes DEF Pushed, Cpus, WordValue
  <2>4. cpu.sp - 2 = cpu.sp + (0 - 2)
    BY <2>3
  <2> QED
    BY <1>1, <2>1, <2>2, <2>4, OffsetSums
<1>3. PICK p \in Address, q \in Address :
        p = Below(base.ss, base.sp, 2 * n + 2) /\ q = Below(base.ss, base.sp, 2 * n + 1) /\ p # q
  <2>1. 2 * n + 2 \in 1..WordSize /\ 2 * n + 1 \in 1..WordSize /\ 2 * n + 2 # 2 * n + 1
    BY Sizes
  <2>2. base.ss \in Nat /\ base.sp \in Int
    BY Sizes DEF Cpus, WordValue
  <2>3. /\ Below(base.ss, base.sp, 2 * n + 2) \in Address /\ Below(base.ss, base.sp, 2 * n + 1) \in Address
        /\ Below(base.ss, base.sp, 2 * n + 2) # Below(base.ss, base.sp, 2 * n + 1)
    BY <2>1, <2>2, BelowDiffer, Zenon
  <2> QED
    BY <2>3
<1>4. PICK mem \in MemRecord : mem = cpu.memory
  BY DEF Pushed, Cpus
<1>5. PICK after : after = Write16Seg(mem, base.ss, sp, word)
  OBVIOUS
<1>6. new = [cpu EXCEPT !.sp = sp, !.memory = after]
  BY <1>1, <1>4, <1>5, SameMemory DEF Call!Push, Pushed
<1>7. /\ new.memory = after /\ new.sp = sp /\ new.cs = cpu.cs /\ new.ip = cpu.ip
      /\ new.ss = cpu.ss /\ new.flags = cpu.flags
  BY <1>6 DEF Pushed, Cpus
<1>8. after = Write8(Write8(mem, p, LowByte(word)), q, HighByte(word))
  BY <1>2, <1>3, <1>5, WordAt
<1>9. LowByte(word) \in ByteValue /\ HighByte(word) \in ByteValue
  BY WordBytes DEF WordValue
<1>10. /\ after \in MemRecord /\ ~mem.stopped
       /\ \A a \in Address : Read8(after, a) = IF a = p THEN LowByte(word)
                                             ELSE IF a = q THEN HighByte(word) ELSE Read8(mem, a)
  BY <1>3, <1>7, <1>8, <1>9, PairWritten
<1>11. new \in Cpus
  BY <1>2, <1>6, <1>10 DEF Pushed, Cpus
<1>12. Pushed(base, new, n + 1)
  <2>1. ASSUME NEW a \in Address, \A k \in 1..2 * (n + 1) : a # Below(base.ss, base.sp, k)
        PROVE  Read8(after, a) = Read8(base.memory, a)
    <3>1. 2 * n + 2 \in 1..2 * (n + 1) /\ 2 * n + 1 \in 1..2 * (n + 1)
            /\ \A k \in 1..2 * n : k \in 1..2 * (n + 1)
      OBVIOUS
    <3>2. a # p /\ a # q
      BY <1>3, <2>1, <3>1
    <3>3. Read8(mem, a) = Read8(base.memory, a)
      BY <1>4, <2>1, <3>1 DEF Pushed
    <3> QED
      BY <1>10, <3>2, <3>3
  <2> QED
    BY <1>2, <1>7, <1>11, <2>1 DEF Pushed
<1>13. Holds(base, after, n, word)
  <2>1. LowByte(word) + ByteSize * HighByte(word) = word
    <3>1. word \in Nat /\ ByteSize \in Nat /\ ByteSize > 0
      BY Sizes DEF WordValue
    <3> QED
      BY <3>1, ModParts DEF LowByte, HighByte
  <2> QED
    BY <1>3, <1>10, <2>1, WordAt DEF Holds
<1>14. KeepsWords(base, mem, after, n)
  <2> SUFFICES ASSUME NEW i \in 0..n - 1, NEW w, Holds(base, mem, i, w)
               PROVE  Holds(base, after, i, w)
    BY DEF KeepsWords
  <2>1. i \in Nat /\ 2 * i + 2 \in 1..WordSize /\ 2 * i + 1 \in 1..WordSize
          /\ 2 * n + 2 \in 1..WordSize /\ 2 * n + 1 \in 1..WordSize
          /\ 2 * i + 2 < 2 * n + 1 /\ 2 * i + 1 < 2 * n + 1
    BY Sizes
  <2>2. base.ss \in Nat /\ base.sp \in Int
    BY Sizes DEF Cpus, WordValue
  <2>3. \A k \in {2 * i + 2, 2 * i + 1} :
          Below(base.ss, base.sp, k) \in Address /\ Below(base.ss, base.sp, k) \notin {p, q}
    <3> SUFFICES ASSUME NEW k \in {2 * i + 2, 2 * i + 1}
                 PROVE  Below(base.ss, base.sp, k) \in Address /\ Below(base.ss, base.sp, k) \notin {p, q}
      OBVIOUS
    <3>1. k \in 1..WordSize /\ k # 2 * n + 2 /\ k # 2 * n + 1
      BY <2>1
    <3>2. /\ Below(base.ss, base.sp, k) \in Address
          /\ Below(base.ss, base.sp, k) # Below(base.ss, base.sp, 2 * n + 2)
          /\ Below(base.ss, base.sp, k) # Below(base.ss, base.sp, 2 * n + 1)
      BY <2>1, <2>2, <3>1, BelowDiffer, Zenon
    <3> QED
      BY <1>3, <3>2
  <2>4. \A k \in {2 * i + 2, 2 * i + 1} :
          Read8(after, Below(base.ss, base.sp, k)) = Read8(mem, Below(base.ss, base.sp, k))
    BY <1>10, <2>3
  <2> QED
    BY <2>1, <2>4, WordAt DEF Holds
<1> QED
  BY <1>4, <1>7, <1>10, <1>12, <1>13, <1>14

\* A program that was stopped by a push stays stopped.
LEMMA StopStays ==
  ASSUME NEW cpu \in Cpus, NEW word \in WordValue, NEW new, new = Call!Push(cpu, word)
  PROVE  new \in Cpus /\ (cpu.memory.stopped => new.memory.stopped)
<1>1. PICK sp : sp = (cpu.sp - 2) % WordSize
  OBVIOUS
<1>2. sp \in WordValue /\ NextOffset(sp) \in WordValue
  <2>1. \A x \in Int : x % WordSize \in WordValue
    BY Sizes, ModRange DEF WordValue
  <2>2. cpu.sp \in Int
    BY Sizes DEF Cpus, WordValue
  <2>3. sp \in WordValue
    BY <1>1, <2>1, <2>2
  <2>4. sp + 1 \in Int
    BY <2>3, Sizes DEF WordValue
  <2> QED
    BY <2>1, <2>3, <2>4 DEF NextOffset
<1>3. \A o \in WordValue : Linear(cpu.ss, o) \in Address
  <2>1. \A o \in WordValue : cpu.ss * Paragraph + o \in Int
    BY Sizes DEF Cpus, WordValue
  <2> QED
    BY <2>1, WrappedAddress DEF Linear
<1>4. PICK p \in Address, q \in Address : p = Linear(cpu.ss, sp) /\ q = Linear(cpu.ss, NextOffset(sp))
  BY <1>2, <1>3
<1>5. p \in Int /\ q \in Int
  BY Sizes DEF Address
<1>6. PICK mid, after : /\ mid = Write8(cpu.memory, p, LowByte(word))
                        /\ after = Write8(mid, q, HighByte(word))
  OBVIOUS
<1>7. LowByte(word) \in ByteValue /\ HighByte(word) \in ByteValue /\ cpu.memory \in MemRecord
  BY WordBytes DEF WordValue, Cpus
<1>8. mid \in MemRecord /\ (cpu.memory.stopped => mid.stopped)
  BY <1>5, <1>6, <1>7, Write8Effect DEF Stores, Refuses
<1>9. after \in MemRecord /\ (mid.stopped => after.stopped)
  BY <1>5, <1>6, <1>7, <1>8, Write8Effect DEF Stores, Refuses
<1>10. after = Write16Seg(cpu.memory, cpu.ss, sp, word)
  BY <1>4, <1>6 DEF Write16Seg
<1>11. new = [cpu EXCEPT !.sp = sp, !.memory = after]
  BY <1>1, <1>10, SameMemory DEF Call!Push
<1> QED
  BY <1>2, <1>8, <1>9, <1>11 DEF Cpus

-----------------------------------------------------------------------------
(* A call pushes its frame, and a return finds it there.                    *)
AllCalls == {"near", "far", "int", "flags"} \X WordValue \X WordValue \X WordValue
WordsPushed(call) == CASE call[1] \in {"near", "flags"} -> 1 [] call[1] = "far" -> 2 [] call[1] = "int" -> 3

Framed(base, mem, n, caller, call) ==
  CASE call[1] = "near" -> Holds(base, mem, n, call[2])
    [] call[1] = "flags" -> Holds(base, mem, n, caller.flags)
    [] call[1] = "far" -> Holds(base, mem, n, caller.cs) /\ Holds(base, mem, n + 1, call[2])
    [] call[1] = "int" -> /\ Holds(base, mem, n, caller.flags) /\ Holds(base, mem, n + 1, caller.cs)
                          /\ Holds(base, mem, n + 2, call[2])
Stays(call) == call[1] \in {"near", "flags"}

LEMMA PoppedAsPushed ==
  ASSUME ByteSize >= 4, NEW flags \in {2, 3, 6, 7}
  PROVE  /\ Call!WithFixed(flags) = flags /\ Call!PoppedFlags(flags) = flags
         /\ flags \in WordValue
<1>1. WordSize \in Nat /\ WordSize >= 16
  BY Sizes DEF WordSize
<1> QED
  BY <1>1 DEF Call!WithFixed, Call!PoppedFlags, WordValue

LEMMA WordsStay ==
  ASSUME NEW base, NEW n \in Nat, NEW old, NEW mem, NEW new,
         KeepsWords(base, old, mem, n), KeepsWords(base, mem, new, n + 1)
  PROVE  KeepsWords(base, old, new, n)
  BY DEF KeepsWords

LEMMA EnterStops ==
  ASSUME ByteSize >= 4, NEW caller \in Cpus, NEW call \in AllCalls, NEW new, new = Call!Enter(caller, call)
  PROVE  new \in Cpus /\ (caller.memory.stopped => new.memory.stopped)
<1>1. /\ call[1] \in {"near", "far", "int", "flags"} /\ call[2] \in WordValue
      /\ call[3] \in WordValue /\ call[4] \in WordValue
      /\ caller.cs \in WordValue /\ caller.flags \in WordValue
      /\ Call!WithFixed(caller.flags) = caller.flags
  BY PoppedAsPushed DEF AllCalls, Cpus
<1>2. ASSUME NEW cpu \in Cpus, NEW word \in WordValue
      PROVE  /\ Call!Push(cpu, word) \in Cpus
             /\ cpu.memory.stopped => Call!Push(cpu, word).memory.stopped
  BY StopStays
<1>3. CASE call[1] = "near"
  <2>1. new = [Call!Push(caller, call[2]) EXCEPT !.ip = call[4]]
    BY <1>3 DEF Call!Enter, Call!CallNear, Call!PushNear
  <2> QED
    BY <1>1, <1>2, <2>1 DEF Cpus
<1>4. CASE call[1] = "flags"
  BY <1>1, <1>2, <1>4 DEF Call!Enter, Call!PushFlags
<1>5. CASE call[1] = "far"
  <2>1. PICK a \in Cpus : a = Call!Push(caller, caller.cs) /\ (caller.memory.stopped => a.memory.stopped)
    BY <1>1, <1>2
  <2>2. PICK b \in Cpus : b = Call!Push(a, call[2]) /\ (a.memory.stopped => b.memory.stopped)
    BY <1>1, <1>2
  <2>3. new = [b EXCEPT !.cs = call[3], !.ip = call[4]]
    BY <1>5, <2>1, <2>2 DEF Call!Enter, Call!CallFar, Call!PushFar
  <2> QED
    BY <1>1, <2>1, <2>2, <2>3 DEF Cpus
<1>6. CASE call[1] = "int"
  <2>1. PICK f \in Cpus : f = Call!Push(caller, caller.flags) /\ (caller.memory.stopped => f.memory.stopped)
    BY <1>1, <1>2
  <2>2. PICK a \in Cpus : a = Call!Push(f, caller.cs) /\ (f.memory.stopped => a.memory.stopped)
    BY <1>1, <1>2
  <2>3. PICK b \in Cpus : b = Call!Push(a, call[2]) /\ (a.memory.stopped => b.memory.stopped)
    BY <1>1, <1>2
  <2>4. new = [b EXCEPT !.cs = call[3], !.ip = call[4]]
    BY <1>1, <1>6, <2>1, <2>2, <2>3 DEF Call!Enter, Call!Interrupt, Call!PushFlags, Call!PushFar
  <2> QED
    BY <1>1, <2>1, <2>2, <2>3, <2>4 DEF Cpus
<1> QED
  BY <1>1, <1>3, <1>4, <1>5, <1>6

LEMMA EnterFrames ==
  ASSUME ByteSize >= 4, NEW base \in Cpus, NEW n \in 0..3, NEW caller, Pushed(base, caller, n),
         NEW call \in AllCalls, NEW new, new = Call!Enter(caller, call), ~new.memory.stopped
  PROVE  /\ Pushed(base, new, n + WordsPushed(call))
         /\ Framed(base, new.memory, n, caller, call)
         /\ ~caller.memory.stopped
         /\ KeepsWords(base, caller.memory, new.memory, n)
         /\ Stays(call) => new.cs = caller.cs
         /\ new.ip = IF call[1] = "flags" THEN caller.ip ELSE call[4]
<1>0. WordSize \in Nat /\ WordSize >= 16
  BY Sizes DEF WordSize
<1>1. /\ call[1] \in {"near", "far", "int", "flags"}
      /\ call[2] \in WordValue /\ call[3] \in WordValue /\ call[4] \in WordValue
  BY DEF AllCalls
<1>2. caller.cs \in WordValue /\ caller.flags \in {2, 3, 6, 7}
  BY DEF Pushed, Cpus
<1>3. Call!WithFixed(caller.flags) = caller.flags /\ caller.flags \in WordValue
  BY <1>2, PoppedAsPushed
<1>4. ASSUME NEW m \in 0..5, NEW cpu, Pushed(base, cpu, m), NEW word \in WordValue,
             ~Call!Push(cpu, word).memory.stopped
      PROVE  /\ Pushed(base, Call!Push(cpu, word), m + 1)
             /\ Call!Push(cpu, word).cs = cpu.cs /\ Call!Push(cpu, word).ip = cpu.ip
             /\ ~cpu.memory.stopped
             /\ Holds(base, Call!Push(cpu, word).memory, m, word)
             /\ KeepsWords(base, cpu.memory, Call!Push(cpu, word).memory, m)
  <2>1. m \in Nat /\ 2 * m + 2 <= WordSize
    BY <1>0
  <2> QED
    BY <1>4, <2>1, PushHolds
<1>5. caller \in Cpus
  BY DEF Pushed
<1>6. ASSUME NEW m \in Nat, NEW cpu, Pushed(base, cpu, m), NEW ip \in WordValue,
             NEW jumped, jumped = [cpu EXCEPT !.ip = ip]
      PROVE  /\ Pushed(base, jumped, m) /\ jumped.memory = cpu.memory
             /\ jumped.cs = cpu.cs /\ jumped.ip = ip
  <2>1. /\ jumped \in Cpus /\ jumped.memory = cpu.memory /\ jumped.ss = cpu.ss
        /\ jumped.flags = cpu.flags /\ jumped.sp = cpu.sp /\ jumped.cs = cpu.cs /\ jumped.ip = ip
    BY <1>6 DEF Pushed, Cpus
  <2> QED
    BY <1>6, <2>1 DEF Pushed
<1>7. CASE call[1] = "near"
  <2>1. PICK a : a = Call!Push(caller, call[2])
    OBVIOUS
  <2>2. new = [a EXCEPT !.ip = call[4]]
    BY <1>7, <2>1 DEF Call!Enter, Call!CallNear, Call!PushNear
  <2>3. new.memory = a.memory
    BY <2>2
  <2>4. /\ Pushed(base, a, n + 1) /\ a.cs = caller.cs /\ ~caller.memory.stopped
        /\ Holds(base, a.memory, n, call[2]) /\ KeepsWords(base, caller.memory, a.memory, n)
    BY <1>1, <1>4, <2>1, <2>3
  <2>5. Pushed(base, new, n + 1) /\ new.cs = caller.cs /\ new.ip = call[4]
    BY <1>1, <1>6, <2>2, <2>4
  <2> QED
    BY <1>7, <2>3, <2>4, <2>5 DEF WordsPushed, Framed, Stays
<1>8. CASE call[1] = "flags"
  <2>1. new = Call!Push(caller, caller.flags)
    BY <1>3, <1>8 DEF Call!Enter, Call!PushFlags
  <2>2. /\ Pushed(base, new, n + 1) /\ new.cs = caller.cs /\ new.ip = caller.ip
        /\ ~caller.memory.stopped
        /\ Holds(base, new.memory, n, caller.flags) /\ KeepsWords(base, caller.memory, new.memory, n)
    BY <1>3, <1>4, <2>1
  <2> QED
    BY <1>8, <2>2 DEF WordsPushed, Framed, Stays
<1>9. CASE call[1] = "far"
  <2>1. PICK a, b : a = Call!Push(caller, caller.cs) /\ b = Call!Push(a, call[2])
    OBVIOUS
  <2>2. new = [b EXCEPT !.cs = call[3], !.ip = call[4]]
    BY <1>9, <2>1 DEF Call!Enter, Call!CallFar, Call!PushFar
  <2>3. new.memory = b.memory
    BY <2>2
  <2>4. /\ Pushed(base, a, n + 1) /\ a.cs = caller.cs /\ ~caller.memory.stopped
        /\ Holds(base, a.memory, n, caller.cs) /\ KeepsWords(base, caller.memory, a.memory, n)
        /\ Pushed(base, b, n + 2) /\ Holds(base, b.memory, n + 1, call[2])
        /\ KeepsWords(base, a.memory, b.memory, n + 1)
    <3>1. ~b.memory.stopped
      BY <2>3
    <3>2. ~a.memory.stopped
      <4>1. a \in Cpus
        BY <1>2, <1>5, <2>1, StopStays
      <4> QED
        BY <1>1, <2>1, <3>1, <4>1, StopStays
    <3>3. /\ Pushed(base, a, n + 1) /\ a.cs = caller.cs /\ ~caller.memory.stopped
          /\ Holds(base, a.memory, n, caller.cs) /\ KeepsWords(base, caller.memory, a.memory, n)
      BY <1>2, <1>4, <2>1, <3>2
    <3>4. PICK m \in 0..5 : m = n + 1 /\ m + 1 = n + 2
      OBVIOUS
    <3>5. Pushed(base, a, m) /\ ~Call!Push(a, call[2]).memory.stopped
      BY <2>1, <3>1, <3>3, <3>4
    <3>6. /\ Pushed(base, b, m + 1) /\ Holds(base, b.memory, m, call[2])
          /\ KeepsWords(base, a.memory, b.memory, m)
      BY <1>1, <1>4, <2>1, <3>5
    <3> QED
      BY <3>3, <3>4, <3>6
  <2>5. Holds(base, b.memory, n, caller.cs) /\ KeepsWords(base, caller.memory, b.memory, n)
    <3>1. KeepsWords(base, caller.memory, b.memory, n)
      BY <2>4, WordsStay
    <3>2. n \in 0..(n + 1) - 1
      OBVIOUS
    <3> QED
      BY <2>4, <3>1, <3>2 DEF KeepsWords
  <2>6. Pushed(base, new, n + 2) /\ new.cs = call[3] /\ new.ip = call[4]
    <3>1. /\ new \in Cpus /\ new.memory = b.memory /\ new.ss = b.ss /\ new.flags = b.flags
          /\ new.sp = b.sp /\ new.cs = call[3] /\ new.ip = call[4]
      BY <1>1, <2>2, <2>4 DEF Pushed, Cpus
    <3> QED
      BY <2>4, <3>1 DEF Pushed
  <2> QED
    BY <1>9, <2>3, <2>4, <2>5, <2>6 DEF WordsPushed, Framed, Stays
<1>10. CASE call[1] = "int"
  <2>1. PICK f, a, b : /\ f = Call!Push(caller, caller.flags)
                       /\ a = Call!Push(f, caller.cs) /\ b = Call!Push(a, call[2])
    OBVIOUS
  <2>2. new = [b EXCEPT !.cs = call[3], !.ip = call[4]]
    BY <1>3, <1>10, <2>1 DEF Call!Enter, Call!Interrupt, Call!PushFlags, Call!PushFar
  <2>3. new.memory = b.memory
    BY <2>2
  <2>4. /\ Pushed(base, f, n + 1) /\ ~caller.memory.stopped
        /\ Holds(base, f.memory, n, caller.flags) /\ KeepsWords(base, caller.memory, f.memory, n)
        /\ Holds(base, a.memory, n + 1, caller.cs) /\ KeepsWords(base, f.memory, a.memory, n + 1)
        /\ Pushed(base, b, n + 3) /\ Holds(base, b.memory, n + 2, call[2])
        /\ KeepsWords(base, a.memory, b.memory, n + 2)
    <3>1. ~b.memory.stopped
      BY <2>3
    <3>2. ~a.memory.stopped /\ ~f.memory.stopped
      <4>1. f \in Cpus
        BY <1>3, <1>5, <2>1, StopStays
      <4>2. a \in Cpus /\ (f.memory.stopped => a.memory.stopped)
        BY <1>2, <2>1, <4>1, StopStays
      <4>3. a.memory.stopped => b.memory.stopped
        BY <1>1, <2>1, <4>2, StopStays
      <4> QED
        BY <3>1, <4>2, <4>3
    <3>3. /\ Pushed(base, f, n + 1) /\ f.cs = caller.cs /\ ~caller.memory.stopped
          /\ Holds(base, f.memory, n, caller.flags) /\ KeepsWords(base, caller.memory, f.memory, n)
      BY <1>3, <1>4, <2>1, <3>2
    <3>4. /\ n + 1 \in 0..5 /\ n + 2 \in 0..5 /\ n + 1 + 1 = n + 2 /\ n + 2 + 1 = n + 3
      OBVIOUS
    <3>5. /\ Pushed(base, a, n + 1 + 1) /\ Holds(base, a.memory, n + 1, caller.cs)
          /\ KeepsWords(base, f.memory, a.memory, n + 1)
      BY <1>2, <1>4, <2>1, <3>2, <3>3, <3>4
    <3>6. /\ Pushed(base, b, n + 2 + 1) /\ Holds(base, b.memory, n + 2, call[2])
          /\ KeepsWords(base, a.memory, b.memory, n + 2)
      BY <1>1, <1>4, <2>1, <3>1, <3>4, <3>5
    <3> QED
      BY <3>3, <3>4, <3>5, <3>6
  <2>5. Holds(base, b.memory, n, caller.flags) /\ Holds(base, b.memory, n + 1, caller.cs)
    BY <2>4 DEF KeepsWords
  <2>6. KeepsWords(base, caller.memory, b.memory, n)
    BY <2>4 DEF KeepsWords
  <2>7. Pushed(base, new, n + 3) /\ new.cs = call[3] /\ new.ip = call[4]
    <3>1. /\ new \in Cpus /\ new.memory = b.memory /\ new.ss = b.ss /\ new.flags = b.flags
          /\ new.sp = b.sp /\ new.cs = call[3] /\ new.ip = call[4]
      BY <1>1, <2>2, <2>4 DEF Pushed, Cpus
    <3> QED
      BY <2>4, <3>1 DEF Pushed
  <2> QED
    BY <1>10, <2>3, <2>4, <2>5, <2>6, <2>7 DEF WordsPushed, Framed, Stays
<1> QED
  BY <1>1, <1>7, <1>8, <1>9, <1>10

LEMMA LeaveFinds ==
  ASSUME ByteSize >= 4, NEW base \in Cpus, NEW n \in 0..3, NEW call \in AllCalls, NEW caller \in Cpus,
         caller.flags = base.flags, NEW cpu \in Cpus, cpu.ss = base.ss, cpu.flags = base.flags,
         cpu.sp = (base.sp - 2 * (n + WordsPushed(call))) % WordSize,
         Stays(call) => cpu.cs = caller.cs,
         Framed(base, cpu.memory, n, caller, call),
         NEW new, new = Call!Leave(cpu, call)
  PROVE  /\ new \in Cpus /\ new.memory = cpu.memory /\ new.ss = base.ss
         /\ new.sp = (base.sp - 2 * n) % WordSize
         /\ new.cs = caller.cs /\ new.flags = base.flags
         /\ new.ip = IF call[1] = "flags" THEN cpu.ip ELSE call[2]
<1>1. /\ call[1] \in {"near", "far", "int", "flags"}
      /\ call[2] \in WordValue /\ call[3] \in WordValue /\ call[4] \in WordValue
  BY DEF AllCalls
<1>2. base.sp \in Int /\ WordSize \in Nat /\ WordSize > 0
  BY Sizes DEF Cpus, WordValue
<1>3. ASSUME NEW m \in Nat, cpu.sp = (base.sp - 2 * m) % WordSize
      PROVE  /\ \A j \in 0..m : (cpu.sp + 2 * j) % WordSize = (base.sp - 2 * (m - j)) % WordSize
             /\ \A i \in 0..m - 1 : \A word :
                  Holds(base, cpu.memory, i, word) => Call!Peek(cpu, 2 * (m - 1 - i)) = word
  <2>1. ASSUME NEW j \in 0..m
        PROVE  (cpu.sp + 2 * j) % WordSize = (base.sp - 2 * (m - j)) % WordSize
    <3>1. 2 * m \in Int /\ 2 * j \in Int /\ 2 * m - 2 * j = 2 * (m - j)
      OBVIOUS
    <3>2. (((base.sp - 2 * m) % WordSize) + 2 * j) % WordSize = (base.sp - (2 * m - 2 * j)) % WordSize
      BY <1>2, <3>1, OffsetSums, Zenon
    <3> QED
      BY <1>3, <3>1, <3>2
  <2>2. ASSUME NEW i \in 0..m - 1, NEW word, Holds(base, cpu.memory, i, word)
        PROVE  Call!Peek(cpu, 2 * (m - 1 - i)) = word
    <3>1. PICK j \in 0..m : j = m - 1 - i /\ m - j = i + 1
      OBVIOUS
    <3>2. (cpu.sp + 2 * j) % WordSize = (base.sp - 2 * (i + 1)) % WordSize
      BY <2>1, <3>1
    <3>3. Call!Peek(cpu, 2 * j) = Read16Seg(cpu.memory, base.ss, (cpu.sp + 2 * j) % WordSize)
      BY SameMemory DEF Call!Peek
    <3> QED
      BY <2>2, <3>1, <3>2, <3>3 DEF Holds
  <2> QED
    BY <2>1, <2>2
<1>4. \A k : (base.sp - 2 * n) % WordSize \in WordValue
  BY <1>2, Sizes, ModRange DEF WordValue
<1>5. base.flags \in {2, 3, 6, 7} /\ caller.cs \in WordValue /\ cpu.cs \in WordValue
  BY DEF Cpus
<1>6. Call!PoppedFlags(base.flags) = base.flags
  BY <1>5, PoppedAsPushed
<1>7. CASE call[1] = "near"
  <2>1. cpu.sp = (base.sp - 2 * (n + 1)) % WordSize /\ Holds(base, cpu.memory, n, call[2])
    BY <1>7 DEF WordsPushed, Framed
  <2>2. Call!Peek(cpu, 0) = call[2] /\ (cpu.sp + 2) % WordSize = (base.sp - 2 * n) % WordSize
    <3>1. PICK m \in Nat : m = n + 1 /\ n \in 0..m - 1 /\ 2 * (m - 1 - n) = 0 /\ 1 \in 0..m /\ m - 1 = n
      OBVIOUS
    <3>2. (cpu.sp + 2 * 1) % WordSize = (base.sp - 2 * (m - 1)) % WordSize
      BY <1>3, <2>1, <3>1
    <3>3. Call!Peek(cpu, 2 * (m - 1 - n)) = call[2]
      BY <1>3, <2>1, <3>1
    <3> QED
      BY <3>1, <3>2, <3>3
  <2>3. new = [cpu EXCEPT !.ip = call[2], !.sp = (base.sp - 2 * n) % WordSize]
    <3>1. 2 + 0 = 2
      OBVIOUS
    <3> QED
      BY <1>7, <2>2, <3>1, SameMemory DEF Call!Leave, Call!ReturnNear, Call!Released
  <2> QED
    BY <1>1, <1>4, <1>7, <2>3 DEF Cpus, Stays
<1>8. CASE call[1] = "flags"
  <2>1. cpu.sp = (base.sp - 2 * (n + 1)) % WordSize /\ Holds(base, cpu.memory, n, base.flags)
    BY <1>8 DEF WordsPushed, Framed
  <2>2. Call!Peek(cpu, 0) = base.flags /\ (cpu.sp + 2) % WordSize = (base.sp - 2 * n) % WordSize
    <3>1. PICK m \in Nat : m = n + 1 /\ n \in 0..m - 1 /\ 2 * (m - 1 - n) = 0 /\ 1 \in 0..m /\ m - 1 = n
      OBVIOUS
    <3>2. (cpu.sp + 2 * 1) % WordSize = (base.sp - 2 * (m - 1)) % WordSize
      BY <1>3, <2>1, <3>1
    <3>3. Call!Peek(cpu, 2 * (m - 1 - n)) = base.flags
      BY <1>3, <2>1, <3>1
    <3> QED
      BY <3>1, <3>2, <3>3
  <2>3. new = [cpu EXCEPT !.flags = base.flags, !.sp = (base.sp - 2 * n) % WordSize]
    BY <1>6, <1>8, <2>2, SameMemory DEF Call!Leave, Call!PopFlags, Call!Released
  <2> QED
    BY <1>1, <1>4, <1>5, <1>8, <2>3 DEF Cpus, Stays
<1>9. CASE call[1] = "far"
  <2>1. /\ cpu.sp = (base.sp - 2 * (n + 2)) % WordSize
        /\ Holds(base, cpu.memory, n, caller.cs) /\ Holds(base, cpu.memory, n + 1, call[2])
    BY <1>9 DEF WordsPushed, Framed
  <2>2. /\ Call!Peek(cpu, 0) = call[2] /\ Call!Peek(cpu, 2) = caller.cs
        /\ (cpu.sp + 4) % WordSize = (base.sp - 2 * n) % WordSize
    <3>1. PICK m \in Nat : /\ m = n + 2 /\ n \in 0..m - 1 /\ n + 1 \in 0..m - 1 /\ 2 \in 0..m /\ m - 2 = n
                           /\ 2 * 2 = 4 /\ 2 * (m - 1 - n) = 2 /\ 2 * (m - 1 - (n + 1)) = 0
      OBVIOUS
    <3>2. (cpu.sp + 2 * 2) % WordSize = (base.sp - 2 * (m - 2)) % WordSize
      BY <1>3, <2>1, <3>1
    <3>3. /\ Call!Peek(cpu, 2 * (m - 1 - n)) = caller.cs
          /\ Call!Peek(cpu, 2 * (m - 1 - (n + 1))) = call[2]
      BY <1>3, <2>1, <3>1
    <3> QED
      BY <3>1, <3>2, <3>3, Zenon
  <2>3. new = [cpu EXCEPT !.ip = call[2], !.cs = caller.cs, !.sp = (base.sp - 2 * n) % WordSize]
    <3>1. 4 + 0 = 4
      OBVIOUS
    <3> QED
      BY <1>9, <2>2, <3>1, SameMemory DEF Call!Leave, Call!ReturnFar, Call!Released
  <2> QED
    BY <1>1, <1>4, <1>5, <1>9, <2>3 DEF Cpus
<1>10. CASE call[1] = "int"
  <2>1. /\ cpu.sp = (base.sp - 2 * (n + 3)) % WordSize
        /\ Holds(base, cpu.memory, n, base.flags) /\ Holds(base, cpu.memory, n + 1, caller.cs)
        /\ Holds(base, cpu.memory, n + 2, call[2])
    BY <1>10 DEF WordsPushed, Framed
  <2>2. /\ Call!Peek(cpu, 0) = call[2] /\ Call!Peek(cpu, 2) = caller.cs /\ Call!Peek(cpu, 4) = base.flags
        /\ (cpu.sp + 6) % WordSize = (base.sp - 2 * n) % WordSize
    <3>1. PICK m \in Nat :
            /\ m = n + 3 /\ n \in 0..m - 1 /\ n + 1 \in 0..m - 1 /\ n + 2 \in 0..m - 1
            /\ 3 \in 0..m /\ m - 3 = n
            /\ 2 * 3 = 6 /\ 2 * (m - 1 - n) = 4 /\ 2 * (m - 1 - (n + 1)) = 2 /\ 2 * (m - 1 - (n + 2)) = 0
      OBVIOUS
    <3>2. (cpu.sp + 2 * 3) % WordSize = (base.sp - 2 * (m - 3)) % WordSize
      BY <1>3, <2>1, <3>1
    <3>3. /\ Call!Peek(cpu, 2 * (m - 1 - n)) = base.flags
          /\ Call!Peek(cpu, 2 * (m - 1 - (n + 1))) = caller.cs
          /\ Call!Peek(cpu, 2 * (m - 1 - (n + 2))) = call[2]
      BY <1>3, <2>1, <3>1
    <3> QED
      BY <3>1, <3>2, <3>3, Zenon
  <2>3. new = [cpu EXCEPT !.ip = call[2], !.cs = caller.cs, !.flags = base.flags,
                          !.sp = (base.sp - 2 * n) % WordSize]
    BY <1>6, <1>10, <2>2, SameMemory DEF Call!Leave, Call!Iret, Call!Released
  <2> QED
    BY <1>1, <1>4, <1>5, <1>10, <2>3 DEF Cpus
<1> QED
  BY <1>1, <1>7, <1>8, <1>9, <1>10

(* A call inside another one: each return goes where its call said, with    *)
(* segment, flags and stack pointer as they were, wherever in its segment   *)
(* and in memory the stack lies, unless there is no memory for it; and no   *)
(* byte changes but those of the two frames.                                *)
THEOREM CallsReturn ==
  ASSUME ByteSize >= 4, NEW cpu \in Cpus, NEW call \in AllCalls, NEW inner \in AllCalls,
         ~Call!Enter(Call!Enter(cpu, call), inner).memory.stopped
  PROVE  Call!ReturnsRight(cpu, call, inner, Call!CallAndReturn(cpu, call, inner))
<1>1. PICK outside, within, back, got :
        /\ outside = Call!Enter(cpu, call) /\ within = Call!Enter(outside, inner)
        /\ back = Call!Leave(within, inner) /\ got = Call!Leave(back, call)
  OBVIOUS
<1>2. PICK m \in 1..3, k \in 1..3 : m = WordsPushed(call) /\ k = WordsPushed(inner)
  BY DEF WordsPushed, AllCalls
<1>3. Pushed(cpu, cpu, 0)
  <2>1. cpu.sp \in Int /\ WordSize \in Nat /\ cpu.sp < WordSize /\ cpu.sp \in Nat
    BY Sizes DEF Cpus, WordValue
  <2>2. (cpu.sp - 2 * 0) % WordSize = cpu.sp
    <3>1. cpu.sp - 2 * 0 = cpu.sp
      BY <2>1
    <3> QED
      BY <2>1, <3>1, ModSmall
  <2> QED
    BY <2>2 DEF Pushed
<1>4. outside \in Cpus /\ ~outside.memory.stopped
  <2>1. outside \in Cpus
    BY <1>1, EnterStops
  <2> QED
    BY <1>1, <2>1, EnterStops
<1>5. /\ Pushed(cpu, outside, m) /\ Framed(cpu, outside.memory, 0, cpu, call)
      /\ Stays(call) => outside.cs = cpu.cs
      /\ outside.ip = IF call[1] = "flags" THEN cpu.ip ELSE call[4]
  <2>1. 0 \in 0..3 /\ 0 + m = m
    OBVIOUS
  <2> QED
    BY <1>1, <1>2, <1>3, <1>4, <2>1, EnterFrames
<1>6. /\ Pushed(cpu, within, m + k) /\ Framed(cpu, within.memory, m, outside, inner)
      /\ KeepsWords(cpu, outside.memory, within.memory, m)
      /\ Stays(inner) => within.cs = outside.cs
      /\ within.ip = IF inner[1] = "flags" THEN outside.ip ELSE inner[4]
  <2>1. m \in 0..3
    OBVIOUS
  <2> QED
    BY <1>1, <1>2, <1>5, <2>1, EnterFrames
<1>7. Framed(cpu, within.memory, 0, cpu, call)
  <2>1. \A i \in 0..m - 1 : \A word :
          Holds(cpu, outside.memory, i, word) => Holds(cpu, within.memory, i, word)
    BY <1>6 DEF KeepsWords
  <2>2. /\ 0 \in 0..m - 1
        /\ call[1] = "far" => 0 + 1 \in 0..m - 1
        /\ call[1] = "int" => 0 + 1 \in 0..m - 1 /\ 0 + 2 \in 0..m - 1
    <3>1. /\ call[1] = "far" => m = 2
          /\ call[1] = "int" => m = 3
      BY <1>2 DEF WordsPushed
    <3> QED
      BY <3>1
  <2> QED
    <3>1. call[1] \in {"near", "flags", "far", "int"}
      BY DEF AllCalls
    <3>2. CASE call[1] = "near"
      BY <1>5, <2>1, <2>2, <3>2 DEF Framed
    <3>3. CASE call[1] = "flags"
      BY <1>5, <2>1, <2>2, <3>3 DEF Framed
    <3>4. CASE call[1] = "far"
      BY <1>5, <2>1, <2>2, <3>4 DEF Framed
    <3>5. CASE call[1] = "int"
      BY <1>5, <2>1, <2>2, <3>5 DEF Framed
    <3> QED
      BY <3>1, <3>2, <3>3, <3>4, <3>5
<1>8. /\ back \in Cpus /\ back.memory = within.memory /\ back.ss = cpu.ss
      /\ back.sp = (cpu.sp - 2 * m) % WordSize
      /\ back.cs = outside.cs /\ back.flags = cpu.flags
      /\ back.ip = IF inner[1] = "flags" THEN within.ip ELSE inner[2]
  <2>1. m \in 0..3
    OBVIOUS
  <2>2. /\ within \in Cpus /\ within.ss = cpu.ss /\ within.flags = cpu.flags
        /\ within.sp = (cpu.sp - 2 * (m + k)) % WordSize /\ outside.flags = cpu.flags
    BY <1>5, <1>6 DEF Pushed
  <2> QED
    BY <1>1, <1>2, <1>4, <1>6, <2>1, <2>2, LeaveFinds
<1>9. /\ got.memory = within.memory /\ got.ss = cpu.ss /\ got.sp = (cpu.sp - 2 * 0) % WordSize
      /\ got.cs = cpu.cs /\ got.flags = cpu.flags
      /\ got.ip = IF call[1] = "flags" THEN back.ip ELSE call[2]
  <2>1. 0 \in 0..3 /\ 0 + m = m
    OBVIOUS
  <2>2. Stays(call) => back.cs = cpu.cs
    BY <1>5, <1>8
  <2>3. Framed(cpu, back.memory, 0, cpu, call)
    BY <1>7, <1>8
  <2> QED
    BY <1>1, <1>2, <1>8, <2>1, <2>2, <2>3, LeaveFinds
<1>10. got.sp = cpu.sp
  BY <1>3, <1>9 DEF Pushed
<1>11. ASSUME NEW a \in 0..MemorySize - 1,
              a \notin {Linear(cpu.ss, (cpu.sp - j) % WordSize) : j \in 1..2 * (m + k)}
       PROVE  Read8(got.memory, a) = Read8(cpu.memory, a)
  <2>1. a \in Address
    BY Sizes DEF Address
  <2>2. \A j \in 1..2 * (m + k) : a # Below(cpu.ss, cpu.sp, j)
    BY <1>11 DEF Below
  <2> QED
    BY <1>6, <1>9, <2>1, <2>2 DEF Pushed
<1>12. Call!Depth(call[1]) + Call!Depth(inner[1]) = 2 * (m + k)
  BY <1>2 DEF Call!Depth, WordsPushed, AllCalls
<1>13. Call!CallAndReturn(cpu, call, inner) = got
  BY <1>1 DEF Call!CallAndReturn
<1>14. got.ip = IF call[1] = "flags" THEN (IF inner[1] = "flags" THEN cpu.ip ELSE inner[2]) ELSE call[2]
  BY <1>5, <1>6, <1>8, <1>9
<1>15. ~got.memory.stopped
  BY <1>1, <1>9
<1> DEFINE Written == {Linear(cpu.ss, (cpu.sp - j) % WordSize) : j \in 1..2 * (m + k)}
<1>16. {Call!Linear(cpu.ss, (cpu.sp - j) % Call!WordSize)
          : j \in 1..(Call!Depth(call[1]) + Call!Depth(inner[1]))} = Written
  BY <1>12, SameMemory
<1>17. \A a \in 0..MemorySize - 1 : a \notin Written => Read8(got.memory, a) = Read8(cpu.memory, a)
  BY <1>11
<1> QED
  BY <1>9, <1>10, <1>13, <1>14, <1>15, <1>16, <1>17, SameMemory, Zenon DEF Call!ReturnsRight
=============================================================================
