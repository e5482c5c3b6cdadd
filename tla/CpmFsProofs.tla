---------------------------- MODULE CpmFsProofs ----------------------------
(***************************************************************************)
(* For every geometry of an image, and whatever fails or is killed: no two *)
(* files get one block, files a tool is not called for stay as they are,   *)
(* nobody reads another file's data, and what cpmcp does not complain      *)
(* about is on the image.                                                  *)
(***************************************************************************)
EXTENDS CpmFs, WellFoundedInduction, TLAPS

------------------------------------------------------------------------------
(* The inductive invariant.                                                 *)

Cells == {Zero, Junk} \cup (Names \X Nat)
Directory == [Slots -> EntryType]
Numbers == 0..MaxLen \div Lx
FileType == [ino : Slots, name : Names, pos : 0..MaxLen, count : Nat, eof : BOOLEAN,
             extent : {-1} \cup Slots, extentno : {-1} \cup Numbers]

FsTyped ==
    /\ image \in [dir : Directory, data : [Blocks -> [Offsets -> Cells]]]
    /\ dir \in Directory
    /\ alv \subseteq Blocks /\ dirty \in BOOLEAN /\ lost \in BOOLEAN
    /\ tool \in {"none", "cp", "text", "rm", "attr"} /\ sync \in {-1} \cup DirBlocks
    /\ touched \subseteq Names /\ runs \in 0..Sessions /\ bad \in 0..Faults /\ kills \in 0..Faults
    /\ bad + kills <= Faults
    /\ file # NoFile => file \in FileType
    /\ DOMAIN copied = Names

\* Which of its steps a tool is at.
FsControl ==
    /\ file # NoFile => Copying /\ sync = -1 /\ dirty /\ file.name \in touched
    /\ sync # -1 => tool # "none"
    /\ lost /\ tool # "none" => bad > 0

\* The part of its file an entry holds.
Part(e) == e.ext \div Extents

\* No two pointers to one block, nor two entries for one part of a file.
Sound(d) ==
    /\ Apart(d)
    /\ \A s, t \in Live(d) : d[s].name = d[t].name /\ Part(d[s]) = Part(d[t]) => s = t

\* Every entry of d is in e, but for the attributes.
Like(e, f) == /\ e.name = f.name /\ e.ext = f.ext /\ e.blkcnt = f.blkcnt /\ e.lrc = f.lrc
              /\ e.ptr = f.ptr
Within(d, e) == \A s \in Slots : d[s].name # Free => Like(d[s], e[s])

\* cpmcp only adds to the directory, the others only take away: so any mixture of
\* the one in memory and the one on the image is sound.
Kin ==
    /\ Copying => Within(image.dir, dir)
    /\ tool \in {"rm", "attr"} => Within(dir, image.dir)
    /\ Copying /\ sync = -1 => \A s \in Live(image.dir) : image.dir[s].name \notin touched

\* The entries of files the tool was not called for are the same in both.
Steady ==
    tool # "none" => \A s \in Slots :
        \/ image.dir[s].name \notin touched \cup {Free}
        \/ dir[s].name \notin touched \cup {Free}
        => image.dir[s] = dir[s]

\* cpmSync has written the blocks before the next.
Synced == \A s \in Slots : s \div DirPerBlock < sync => image.dir[s] = dir[s]

\* The place in its file of a cell in an entry's block, and where the file ends
\* if this is its last entry.
Place(e, i, o) == Part(e) * Phys + i * Blk + o
EndOf(e) == e.ext * Lx + (IF e.blkcnt # 0 THEN (e.blkcnt - 1) * Rec ELSE 0)
                       + (IF e.lrc # 0 THEN e.lrc ELSE Rec)

\* What can be read through a directory is zero or the file's own.
OwnFile(d, data, n) ==
    \A s \in FileExtents(d, n), i \in 0..Pointers - 1, o \in Offsets :
        /\ d[s].ptr[i] # 0
        /\ \/ Place(d[s], i, o) < EndOf(d[s])
           \/ \E t \in FileExtents(d, n) : d[t].ext > d[s].ext
        => data[d[s].ptr[i]][o] \in {Zero, <<n, Place(d[s], i, o)>>}
Own(d, data) == \A n \in Names : OwnFile(d, data, n)
OwnCells == bad = 0 => Own(image.dir, image.data) /\ Own(dir, image.data)

\* The entries of the file n when pos cells of it are written: one for each part
\* begun, with a pointer for each block begun.
Parts(d, n, pos) ==
    /\ \A s \in FileExtents(d, n) :
          /\ Part(d[s]) = 0 \/ Part(d[s]) * Phys < pos
          /\ \A i \in 0..Pointers - 1 : d[s].ptr[i] # 0 <=> Part(d[s]) * Phys + i * Blk < pos
    /\ \A k \in Nat : k = 0 \/ k * Phys < pos => \E s \in FileExtents(d, n) : Part(d[s]) = k

\* What the last of them says of the length.
LastEntry(d, n, pos, number) ==
    \A s \in FileExtents(d, n) :
        pos <= (Part(d[s]) + 1) * Phys =>
            IF pos = 0 THEN d[s].ext = 0 /\ d[s].blkcnt = 0 /\ d[s].lrc = 0
            ELSE /\ d[s].ext = number
                 /\ d[s].blkcnt = (((pos - 1) % Lx) \div Rec) + 1 /\ d[s].lrc = pos % Rec

\* The extent number it has is that of the last cell or the one before.
NumberRight(pos, number) ==
    pos > 0 => /\ number \in Nat /\ number \div Extents = (pos - 1) \div Phys
               /\ number * Lx < pos /\ pos <= (number + 2) * Lx

Written(d, data, n, pos) ==
    \A s \in FileExtents(d, n), i \in 0..Pointers - 1, o \in Offsets :
        Place(d[s], i, o) < pos => data[d[s].ptr[i]][o] = <<n, Place(d[s], i, o)>>

\* cpmFile and the locals of cpmWrite, between two pieces.
FileRight(f) ==
    /\ f.pos + f.count <= MaxLen /\ f.count <= Buf + 1
    /\ dir[f.ino].name = f.name
    /\ Parts(dir, f.name, f.pos)
    /\ LastEntry(dir, f.name, f.pos, f.extentno)
    /\ NumberRight(f.pos, f.extentno)
    /\ f.extent # -1 => /\ dir[f.extent].name = f.name
                        /\ Part(dir[f.extent]) * Phys < f.pos
                        /\ f.pos < (Part(dir[f.extent]) + 1) * Phys
                        /\ f.pos + f.count <= (f.extentno + 2) * Lx
    /\ ~lost => Written(dir, image.data, f.name, f.pos)

\* What cpmcp has copied is there, in memory until it ends and then on the image.
CopiedRight ==
    ~lost => \A n \in Names : copied[n] # NoFile =>
        IF tool = "none"
        THEN OnImage(n) = Recognised(n, copied[n].len, copied[n].number)
        ELSE /\ Contents(dir, image.data, n) = Recognised(n, copied[n].len, copied[n].number)
             /\ FileExtents(dir, n) # {} /\ (file # NoFile => file.name # n)
             /\ Copying /\ dirty /\ n \in touched

FsInv ==
    /\ FsTyped
    /\ FsControl
    /\ Sound(image.dir) /\ Sound(dir)
    /\ AlvExact
    /\ Kin
    /\ Steady
    /\ Synced
    /\ OwnCells
    /\ file # NoFile => FileRight(file)
    /\ CopiedRight

------------------------------------------------------------------------------
(* Numbers: records, sectors, blocks and extents in cells.                  *)

\* Division with remainder.
LEMMA Division ==
  \A n \in Nat, k \in Nat \ {0} : /\ n = k * (n \div k) + (n % k)
                                  /\ n % k \in 0..(k - 1)
                                  /\ n \div k \in Nat
  OBVIOUS

\* Quotient and remainder are the only ones.
LEMMA DivisionIs ==
  ASSUME NEW den \in Nat \ {0}, NEW quo \in Nat, NEW rem \in 0..(den - 1), NEW num \in Nat,
         num = den * quo + rem
  PROVE  num \div den = quo /\ num % den = rem
<1> DEFINE d == num \div den
           m == num % den
<1>1. num = den * d + m /\ m \in 0..(den - 1) /\ d \in Nat
  BY Division
<1> HIDE DEF d, m
<1>2. ASSUME quo + 1 <= d PROVE FALSE
  <2>1. den * (quo + 1) <= den * d
    BY <1>1, <1>2
  <2> QED BY <1>1, <2>1
<1>3. ASSUME d + 1 <= quo PROVE FALSE
  <2>1. den * (d + 1) <= den * quo
    BY <1>1, <1>3
  <2> QED BY <1>1, <2>1
<1>4. d = quo
  BY <1>1, <1>2, <1>3
<1>5. m = rem
  BY <1>1, <1>4
<1> QED BY <1>4, <1>5 DEF d, m

\* A multiple is its divisor times the quotient.
LEMMA Multiple ==
  ASSUME NEW n \in Nat \ {0}, NEW k \in Nat \ {0}, n % k = 0
  PROVE  n = k * (n \div k) /\ n \div k \in Nat \ {0}
<1>1. n = k * (n \div k) + (n % k) /\ n \div k \in Nat
  BY Division
<1> QED BY <1>1

\* Products keep the order.
LEMMA TimesLeq ==
  ASSUME NEW k \in Nat, NEW a \in Int, NEW b \in Int, a <= b
  PROVE  a * k <= b * k /\ k * a <= k * b /\ a * k \in Int /\ b * k \in Int
  OBVIOUS

\* The sizes of an image.
LEMMA Sizes ==
  /\ Phys \in Nat \ {0} /\ Extents \in Nat \ {0} /\ Phys = Extents * Lx
  /\ Phys = Pointers * Blk
  /\ {MaxDir, DirPerBlock, DiskSize, Pointers, Blk, Sec, Rec, Lx, Buf} \subseteq Nat \ {0}
  /\ MaxLen \in Nat /\ Faults \in Nat /\ Sessions \in Nat
  /\ Buf <= Lx /\ Lx % Rec = 0 /\ Blk % Sec = 0
<1>1. /\ {MaxDir, DirPerBlock, DiskSize, Pointers, Blk, Sec, Rec, Lx, Buf} \subseteq Nat \ {0}
      /\ MaxLen \in Nat /\ Faults \in Nat /\ Sessions \in Nat
      /\ Lx % Rec = 0 /\ Lx % Buf = 0 /\ Phys % Lx = 0 /\ Phys = Pointers * Blk
      /\ Blk % Sec = 0
  BY CpmFsSizes DEF Phys
<1>2. Phys \in Nat \ {0}
  BY <1>1
<1> HIDE DEF Phys
<1>3. Phys = Lx * (Phys \div Lx) /\ Phys \div Lx \in Nat \ {0}
  BY <1>1, <1>2, Multiple
<1>4. Phys = Extents * Lx /\ Extents \in Nat \ {0}
  BY <1>1, <1>3 DEF Extents
<1>5. Lx = Buf * (Lx \div Buf) /\ Lx \div Buf \in Nat \ {0}
  BY <1>1, Multiple
<1>6. Buf * 1 <= Buf * (Lx \div Buf)
  BY <1>1, <1>5, TimesLeq
<1> QED BY <1>1, <1>2, <1>4, <1>5, <1>6

\* The directory lies on the image, and begins it.
LEMMA DirectoryFits == DirBlocks \subseteq Blocks /\ 0 \in DirBlocks /\ 0 \notin DataBlocks
<1> DEFINE a == MaxDir + DirPerBlock - 1
           c == a \div DirPerBlock
<1>1. /\ DirPerBlock \in Nat \ {0} /\ MaxDir \in Nat \ {0} /\ DiskSize \in Nat
      /\ MaxDir <= DirPerBlock * DiskSize /\ a \in Nat
  BY CpmFsSizes
<1>2. a = DirPerBlock * c + (a % DirPerBlock) /\ c \in Nat
      /\ a % DirPerBlock \in 0..(DirPerBlock - 1)
  <2>1. a \in Int /\ DirPerBlock \in Nat \ {0}
    BY <1>1
  <2> HIDE DEF a
  <2> QED BY <1>1, <2>1, Division
<1>3. c >= 1
  <2> SUFFICES ASSUME c = 0 PROVE FALSE
    BY <1>2
  <2> QED BY <1>1, <1>2
<1>4. c <= DiskSize
  <2> SUFFICES ASSUME DiskSize + 1 <= c PROVE FALSE
    BY <1>1, <1>2
  <2>1. DirPerBlock * (DiskSize + 1) <= DirPerBlock * c
    BY <1>1, <1>2, TimesLeq
  <2>2. DirPerBlock * (DiskSize + 1) = DirPerBlock * DiskSize + DirPerBlock
    BY <1>1
  <2>3. DirPerBlock * DiskSize \in Int /\ DirPerBlock * c \in Int
    BY <1>1, <1>2
  <2> HIDE DEF c
  <2> QED BY <1>1, <1>2, <2>1, <2>2, <2>3
<1>5. DirBlocks = 0..c - 1
  BY DEF DirBlocks, Ceil
<1> QED BY <1>1, <1>2, <1>3, <1>4, <1>5 DEF Blocks, DataBlocks

\* Every entry is in a block of the directory.
LEMMA SlotInBlock ==
  ASSUME NEW s \in Slots
  PROVE  s \div DirPerBlock \in DirBlocks /\ s \div DirPerBlock \in Nat
<1> DEFINE a == MaxDir + DirPerBlock - 1
           c == a \div DirPerBlock
           q == s \div DirPerBlock
<1>1. DirPerBlock \in Nat \ {0} /\ MaxDir \in Nat \ {0} /\ a \in Nat /\ s \in Nat /\ s < MaxDir
  BY CpmFsSizes DEF Slots
<1>2. a = MaxDir + DirPerBlock - 1
  OBVIOUS
<1> HIDE DEF a
<1>3. a = DirPerBlock * c + (a % DirPerBlock) /\ c \in Nat
      /\ a % DirPerBlock \in 0..(DirPerBlock - 1)
  BY <1>1, Division
<1>4. s = DirPerBlock * q + (s % DirPerBlock) /\ q \in Nat
      /\ s % DirPerBlock \in 0..(DirPerBlock - 1)
  BY <1>1, Division
<1>5. DirBlocks = 0..c - 1
  BY DEF DirBlocks, Ceil, a
<1> HIDE DEF c, q
<1>6. ASSUME c <= q PROVE FALSE
  <2>1. DirPerBlock * c <= DirPerBlock * q /\ DirPerBlock * c \in Int /\ DirPerBlock * q \in Int
    BY <1>1, <1>3, <1>4, <1>6, TimesLeq
  <2> QED BY <1>1, <1>2, <1>3, <1>4, <2>1
<1>7. q \in Nat /\ q \in 0..c - 1
  BY <1>3, <1>4, <1>6
<1> QED BY <1>5, <1>7 DEF q

\* The least of two numbers.
LEMMA MinOfTwo ==
  ASSUME NEW a \in Int, NEW b \in Int
  PROVE  Min({a, b}) = IF a <= b THEN a ELSE b
  BY DEF Min

\* A set of numbers has a least one.
LEMMA LeastIsIn ==
  ASSUME NEW S \in SUBSET Nat, S # {}
  PROVE  Min(S) \in S /\ \A x \in S : Min(S) <= x
<1> DEFINE R == {ss \in Nat \X Nat : ss[1] < ss[2]}
<1>1. IsWellFoundedOn(R, Nat)
  BY NatLessThanWellFounded DEF OpToRel
<1>2. \E x \in S : \A y \in S : ~(<<y, x>> \in R)
  BY <1>1, WFMin
<1>3. \E x \in S : \A y \in S : x <= y
  <2>1. PICK x \in S : \A y \in S : ~(<<y, x>> \in R)
    BY <1>2
  <2>2. ASSUME NEW y \in S PROVE x <= y
    <3>1. x \in Nat /\ y \in Nat
      OBVIOUS
    <3>2. ASSUME y < x PROVE <<y, x>> \in R
      BY <3>1, <3>2
    <3>3. <<y, x>> \notin R
      BY <2>1
    <3> HIDE DEF R
    <3> QED BY <3>1, <3>2, <3>3
  <2> QED BY <2>2
<1> QED BY <1>3 DEF Min

\* Dividing twice is dividing by the product.
LEMMA DivideTwice ==
  ASSUME NEW n \in Nat, NEW a \in Nat \ {0}, NEW b \in Nat \ {0}
  PROVE  (n \div a) \div b = n \div (b * a)
<1> DEFINE x == n \div a
           r == n % a
           y == x \div b
           s == x % b
<1>1. n = a * x + r /\ x \in Nat /\ r \in 0..(a - 1)
  BY Division
<1>2. x = b * y + s /\ y \in Nat /\ s \in 0..(b - 1)
  <2> HIDE DEF x
  <2> QED BY <1>1, Division
<1> HIDE DEF x, r, y, s
<1>3. a * x = (b * a) * y + a * s
  BY <1>1, <1>2
<1>4. a * s <= a * (b - 1) /\ a * (b - 1) = b * a - a /\ a * s \in Nat
  BY <1>2, TimesLeq
<1>5. b * a \in Nat \ {0} /\ a * s + r \in 0..(b * a - 1)
  BY <1>1, <1>4
<1>6. n = (b * a) * y + (a * s + r)
  BY <1>1, <1>2, <1>3, <1>4
<1>7. n \div (b * a) = y
  <2> DEFINE ba == b * a
             m == a * s + r
  <2>1. ba \in Nat \ {0} /\ m \in 0..(ba - 1) /\ n = ba * y + m /\ y \in Nat
    BY <1>2, <1>5, <1>6
  <2> HIDE DEF ba, m
  <2>2. n \div ba = y
    BY <2>1, DivisionIs
  <2> QED BY <2>2 DEF ba
<1> QED BY <1>7 DEF x, y

\* A place in a file: in which part it is, behind which pointer, and where in
\* the block.
LEMMA PlaceIs ==
  ASSUME NEW k \in Nat, NEW i \in 0..Pointers - 1, NEW o \in Offsets, NEW p,
         p = k * Phys + i * Blk + o
  PROVE  /\ p \in Nat /\ k * Phys <= p /\ p < (k + 1) * Phys
         /\ i * Blk + o \in 0..(Phys - 1) /\ i * Blk \in Nat /\ k * Phys \in Nat
         /\ p \div Phys = k /\ (p % Phys) \div Blk = i /\ p % Blk = o
<1>1. /\ Phys \in Nat \ {0} /\ Phys = Pointers * Blk /\ Blk \in Nat \ {0}
      /\ Pointers \in Nat \ {0} /\ o \in 0..(Blk - 1)
  BY Sizes DEF Offsets
<1>2. i * Blk <= (Pointers - 1) * Blk /\ i * Blk \in Nat
  BY <1>1, TimesLeq
<1>3. (Pointers - 1) * Blk = Phys - Blk
  BY <1>1
<1>4. i * Blk + o \in 0..(Phys - 1)
  BY <1>1, <1>2, <1>3
<1>5. k * Phys \in Nat /\ (k + 1) * Phys = k * Phys + Phys
  BY <1>1
<1>6. p = Phys * k + (i * Blk + o) /\ p \in Nat
  BY <1>1, <1>4, <1>5
<1>7. p \div Phys = k /\ p % Phys = i * Blk + o
  <2> DEFINE m == i * Blk + o
  <2>1. m \in 0..(Phys - 1) /\ p = Phys * k + m
    BY <1>4, <1>6
  <2> HIDE DEF m
  <2>2. p \div Phys = k /\ p % Phys = m
    BY <1>1, <1>6, <2>1, DivisionIs
  <2> QED BY <2>2 DEF m
<1>8. (i * Blk + o) \div Blk = i /\ (i * Blk + o) % Blk = o
  BY <1>1, DivisionIs
<1>9. p % Blk = o
  <2>1. k * Phys = Blk * (k * Pointers) /\ k * Pointers \in Nat
    BY <1>1
  <2> DEFINE q == k * Pointers + i
  <2>2. Blk * (k * Pointers + i) = Blk * (k * Pointers) + Blk * i
    BY <1>1, <2>1
  <2>3. p = Blk * q + o /\ q \in Nat
    BY <1>1, <1>2, <2>1, <2>2
  <2>4. Blk \in Nat \ {0} /\ o \in 0..(Blk - 1) /\ p \in Nat
    BY <1>1, <1>6
  <2> HIDE DEF q
  <2>5. p \div Blk = q /\ p % Blk = o
    BY <2>3, <2>4, DivisionIs
  <2> QED BY <2>5
<1>10. k * Phys <= p /\ p < (k + 1) * Phys
  BY <1>1, <1>4, <1>5, <1>6
<1>11. (p % Phys) \div Blk = i
  BY <1>7, <1>8
<1> QED BY <1>2, <1>4, <1>5, <1>6, <1>7, <1>9, <1>10, <1>11

\* Every number is such a place.
LEMMA PlaceFound ==
  ASSUME NEW p \in Nat
  PROVE  /\ p \div Phys \in Nat /\ (p % Phys) \div Blk \in 0..Pointers - 1 /\ p % Blk \in Offsets
         /\ p = (p \div Phys) * Phys + ((p % Phys) \div Blk) * Blk + (p % Blk)
         /\ (p \div Lx) \div Extents = p \div Phys
<1> DEFINE k == p \div Phys
           m == p % Phys
           i == m \div Blk
           o == m % Blk
<1>1. /\ Phys \in Nat \ {0} /\ Phys = Pointers * Blk /\ Blk \in Nat \ {0}
      /\ Pointers \in Nat \ {0}
  BY Sizes
<1>2. p = Phys * k + m /\ m \in 0..(Phys - 1) /\ k \in Nat
  BY <1>1, Division
<1>3. m = Blk * i + o /\ i \in Nat /\ o \in 0..(Blk - 1)
  <2>1. m \in Nat
    BY <1>1, <1>2
  <2> HIDE DEF m
  <2> QED BY <1>1, <2>1, Division
<1> HIDE DEF k, m, i, o
<1>4. i \in 0..Pointers - 1
  <2> SUFFICES ASSUME Pointers <= i PROVE FALSE
    BY <1>1, <1>3
  <2>1. Blk * Pointers <= Blk * i
    BY <1>1, <1>3, TimesLeq
  <2> QED BY <1>1, <1>2, <1>3, <2>1
<1>5. p = k * Phys + i * Blk + o
  BY <1>1, <1>2, <1>3
<1>6. p % Blk = o
  BY <1>2, <1>3, <1>4, <1>5, PlaceIs DEF Offsets
<1>7. (p \div Lx) \div Extents = k
  BY Sizes, DivideTwice DEF k
<1> QED BY <1>2, <1>3, <1>4, <1>5, <1>6, <1>7 DEF k, m, i, Offsets

\* The records and bytes an entry counts say where the file ends in its extent.
LEMMA RecordsRight ==
  ASSUME NEW pos \in Nat \ {0}
  PROVE  LET b == (((pos - 1) % Lx) \div Rec) + 1
         IN  /\ b \in 1..Lx \div Rec /\ pos % Rec \in 0..(Rec - 1)
             /\ (b - 1) * Rec + (IF pos % Rec # 0 THEN pos % Rec ELSE Rec) = ((pos - 1) % Lx) + 1
<1> DEFINE q == (pos - 1) \div Lx
           m == (pos - 1) % Lx
           R == Lx \div Rec
           x == m \div Rec
           y == m % Rec
<1>1. Lx \in Nat \ {0} /\ Rec \in Nat \ {0} /\ Lx % Rec = 0
  BY Sizes
<1>2. Lx = Rec * R /\ R \in Nat \ {0}
  BY <1>1, Multiple
<1>3. pos - 1 = Lx * q + m /\ m \in 0..(Lx - 1) /\ q \in Nat
  <2>1. pos - 1 \in Nat
    OBVIOUS
  <2> QED BY <1>1, <2>1, Division, Zenon
<1>4. m = Rec * x + y /\ y \in 0..(Rec - 1) /\ x \in Nat
  <2>1. m \in Nat
    BY <1>1, <1>3
  <2> HIDE DEF m
  <2> QED BY <1>1, <2>1, Division
<1> HIDE DEF q, m, R, x, y
<1>5. x < R
  <2> SUFFICES ASSUME R <= x PROVE FALSE
    BY <1>2, <1>4
  <2>1. Rec * R <= Rec * x
    BY <1>1, <1>2, <1>4, TimesLeq
  <2> QED BY <1>2, <1>3, <1>4, <2>1, <1>1
<1>6. Lx * q = Rec * (R * q) /\ R * q \in Nat
  BY <1>1, <1>2, <1>3
<1>7. Rec * (R * q + x) = Rec * (R * q) + Rec * x /\ R * q + x \in Nat
  BY <1>1, <1>4, <1>6
<1>8. CASE y + 1 < Rec
  <2> DEFINE z == R * q + x
  <2>1. pos = Rec * z + (y + 1) /\ y + 1 \in 0..(Rec - 1) /\ z \in Nat
    BY <1>1, <1>3, <1>4, <1>6, <1>7, <1>8
  <2> HIDE DEF z
  <2>2. pos % Rec = y + 1
    <3> DEFINE r == y + 1
    <3>1. pos = Rec * z + r /\ r \in 0..(Rec - 1) /\ Rec \in Nat \ {0} /\ pos \in Nat
      BY <1>1, <2>1
    <3> HIDE DEF r
    <3>2. pos \div Rec = z /\ pos % Rec = r
      BY <2>1, <3>1, DivisionIs
    <3> QED BY <3>2 DEF r
  <2>3. x * Rec + (y + 1) = m + 1
    BY <1>1, <1>4
  <2> QED BY <1>1, <1>4, <1>5, <2>2, <2>3 DEF m, x, R
<1>9. CASE y + 1 = Rec
  <2> DEFINE z == R * q + x + 1
  <2>1. Rec * (R * q + x + 1) = Rec * (R * q + x) + Rec
    BY <1>1, <1>7
  <2>2. pos = Rec * z + 0 /\ 0 \in 0..(Rec - 1) /\ z \in Nat
    <3>1. z \in Nat
      BY <1>4, <1>7
    <3>2. pos = Rec * (R * q) + Rec * x + Rec
      <4>1. Rec * x \in Nat /\ Rec * (R * q) \in Nat
        BY <1>1, <1>4, <1>6
      <4>2. pos - 1 = Rec * (R * q) + m /\ m = Rec * x + y /\ y = Rec - 1
        BY <1>1, <1>3, <1>4, <1>6, <1>9
      <4> QED BY <1>1, <1>4, <4>1, <4>2
    <3>3. pos = Rec * z
      BY <1>7, <2>1, <3>2
    <3> HIDE DEF z
    <3> QED BY <3>1, <3>3, <1>1
  <2> HIDE DEF z
  <2>3. pos % Rec = 0
    BY <1>1, <2>2, DivisionIs
  <2>4. x * Rec + Rec = m + 1
    BY <1>1, <1>4, <1>9
  <2> QED BY <1>1, <1>4, <1>5, <2>3, <2>4 DEF m, x, R
<1> QED BY <1>1, <1>4, <1>8, <1>9

\* The piece written lies in one block, hence in one part of the file.
LEMMA PieceRight ==
  ASSUME file.pos \in Nat, file.count \in Nat \ {0}
  PROVE  LET k == file.pos \div Phys
             end == file.pos + Piece
         IN  /\ InBlock \in Offsets /\ Pointer \in 0..Pointers - 1 /\ k \in Nat
             /\ Piece \in 1..file.count /\ InBlock + Piece <= Blk
             /\ file.pos = k * Phys + Pointer * Blk + InBlock
             /\ k * Phys \in Nat /\ Pointer * Blk \in Nat
             /\ end <= (k + 1) * Phys /\ (end - 1) \div Phys = k
             /\ end % Phys = 0 <=> end = (k + 1) * Phys
             /\ (file.pos \div Lx) \div Extents = k
<1> DEFINE pos == file.pos
           k == pos \div Phys
           end == pos + Piece
           kp == k * Phys
           ib == Pointer * Blk
<1>1. /\ k \in Nat /\ Pointer \in 0..Pointers - 1 /\ InBlock \in Offsets
      /\ pos = k * Phys + Pointer * Blk + InBlock /\ (pos \div Lx) \div Extents = k
  BY PlaceFound DEF Pointer, InBlock
<1>2. Blk \in Nat \ {0} /\ Phys \in Nat \ {0} /\ InBlock \in 0..(Blk - 1)
  BY <1>1, Sizes DEF Offsets
<1>3. Piece = IF file.count <= Blk - InBlock THEN file.count ELSE Blk - InBlock
  BY <1>2, MinOfTwo DEF Piece
<1>4. Piece \in 1..file.count /\ InBlock + Piece <= Blk
  BY <1>2, <1>3
<1>5. /\ InBlock + Piece - 1 \in Offsets
      /\ end - 1 = k * Phys + Pointer * Blk + (InBlock + Piece - 1)
  BY <1>1, <1>2, <1>4, Sizes, TimesLeq DEF Offsets
<1>6. /\ kp <= end - 1 /\ end - 1 < (k + 1) * Phys /\ (end - 1) \div Phys = k
      /\ ib \in Nat /\ kp \in Nat
  <2> DEFINE o == InBlock + Piece - 1
             p == end - 1
  <2>1. o \in Offsets /\ p = k * Phys + Pointer * Blk + o
    BY <1>5
  <2> HIDE DEF o, p, k
  <2> QED BY <1>1, <2>1, PlaceIs DEF p
<1>7. (k + 1) * Phys = kp + Phys
  BY <1>1, <1>2
<1> HIDE DEF k, kp, ib
<1>8. end % Phys = 0 => end = (k + 1) * Phys
  <2> SUFFICES ASSUME end % Phys = 0, end # (k + 1) * Phys PROVE FALSE
    OBVIOUS
  <2> DEFINE m == end - kp
  <2>1. m \in 1..(Phys - 1) /\ end \in Nat
    BY <1>1, <1>2, <1>4, <1>6, <1>7
  <2>2. end = Phys * k + m
    BY <1>1, <1>2, <1>4, <1>6 DEF kp
  <2> HIDE DEF m, end
  <2>3. Phys \in Nat \ {0} /\ k \in Nat /\ m \in 0..(Phys - 1)
    BY <1>1, <1>2, <2>1
  <2>4. end \div Phys = k /\ end % Phys = m
    BY <2>1, <2>2, <2>3, DivisionIs
  <2> QED BY <2>1, <2>4
<1>9. end <= (k + 1) * Phys
  BY <1>1, <1>2, <1>4, <1>6, <1>7
<1>10. end = (k + 1) * Phys => end % Phys = 0
  <2> SUFFICES ASSUME end = (k + 1) * Phys PROVE end % Phys = 0
    OBVIOUS
  <2> DEFINE j == k + 1
             m == end % Phys
             x == end \div Phys
  <2>1. j \in Nat /\ end = Phys * j /\ end \in Nat /\ Phys \in Nat \ {0}
    BY <1>1, <1>2, <1>4
  <2> HIDE DEF j, end
  <2>2. end = Phys * x + m /\ m \in 0..(Phys - 1) /\ x \in Nat
    BY <2>1, Division
  <2> HIDE DEF x, m
  <2>3. Phys * (j - x) = m
    BY <2>1, <2>2
  <2>4. j - x <= 0
    <3> SUFFICES ASSUME 1 <= j - x PROVE FALSE
      BY <2>1, <2>2
    <3>1. Phys * 1 <= Phys * (j - x)
      BY <2>1, <2>2, TimesLeq
    <3> QED BY <2>1, <2>2, <2>3, <3>1
  <2>5. Phys * (j - x) <= Phys * 0
    BY <2>1, <2>2, <2>4, TimesLeq
  <2>6. m = 0
    BY <2>1, <2>2, <2>3, <2>5
  <2> QED BY <2>6 DEF m
<1> QED BY <1>1, <1>4, <1>6, <1>8, <1>9, <1>10 DEF k, kp, ib

\* Other places of a file are not in the piece.
LEMMA PieceApart ==
  ASSUME file.pos \in Nat, file.count \in Nat \ {0},
         NEW j \in Nat, NEW i \in 0..Pointers - 1, NEW o \in Offsets,
         j # file.pos \div Phys \/ i # Pointer
  PROVE  j * Phys + i * Blk + o < file.pos + Piece <=> j * Phys + i * Blk + o < file.pos
<1> DEFINE p == j * Phys + i * Blk + o
           k == file.pos \div Phys
<1>1. p \in Nat /\ p \div Phys = j /\ (p % Phys) \div Blk = i
  BY PlaceIs
<1>2. /\ InBlock \in Offsets /\ Pointer \in 0..Pointers - 1 /\ k \in Nat
      /\ Piece \in 1..file.count /\ InBlock + Piece <= Blk
      /\ file.pos = k * Phys + Pointer * Blk + InBlock
      /\ k * Phys \in Nat /\ Pointer * Blk \in Nat
  BY PieceRight
<1> HIDE DEF p, k
<1>3. ASSUME file.pos <= p, p < file.pos + Piece PROVE FALSE
  <2> DEFINE y == p - file.pos
           x == InBlock + y
  <2>a. y \in Nat /\ p = file.pos + y /\ y < Piece
    BY <1>1, <1>2, <1>3
  <2>b. InBlock \in Nat /\ Blk \in Nat
    BY <1>2, Sizes DEF Offsets
  <2> HIDE DEF y
  <2>c. x \in Nat /\ x < Blk
    BY <1>2, <2>a, <2>b
  <2>d. p = k * Phys + Pointer * Blk + x
    BY <1>2, <2>a, <2>b
  <2>1. x \in Offsets /\ p = k * Phys + Pointer * Blk + x
    BY <2>b, <2>c, <2>d DEF Offsets
  <2> HIDE DEF x
  <2>2. p \div Phys = k /\ (p % Phys) \div Blk = Pointer
    BY <1>2, <2>1, PlaceIs
  <2> QED BY <1>1, <2>2 DEF k
<1>4. file.pos < file.pos + Piece /\ Piece \in Nat
  BY <1>2
<1>5. p < file.pos + Piece <=> p < file.pos
  BY <1>1, <1>3, <1>4
<1> QED BY <1>5 DEF p

------------------------------------------------------------------------------
(* Entries, and what is read through them.                                  *)

\* What an entry of a directory may hold.
LEMMA EntryIs ==
  ASSUME NEW d \in Directory, NEW s \in Slots
  PROVE  /\ d[s].name \in Names \cup {Free} /\ d[s].ext \in Numbers
         /\ d[s].blkcnt \in Nat /\ d[s].lrc \in 0..(Rec - 1) /\ d[s].ext \in Nat
         /\ Part(d[s]) \in Nat
         /\ \A i \in 0..Pointers - 1 : d[s].ptr[i] \in {0} \cup DataBlocks
         /\ Named(d, s) \subseteq DataBlocks
<1>1. d[s] \in EntryType
  BY DEF Directory
<1>2. Numbers \subseteq Nat /\ 0..Lx \div Rec \subseteq Nat
  BY DEF Numbers
<1>3. Part(d[s]) \in Nat
  BY <1>1, <1>2, Sizes, Division DEF Part, EntryType, Numbers
<1> QED BY <1>1, <1>2, <1>3 DEF EntryType, Numbers, Named

\* The entry that gives a file its length.
LEMMA HighestIn ==
  ASSUME NEW d \in Directory, NEW n, FileExtents(d, n) # {}
  PROVE  /\ Highest(d, n) \in FileExtents(d, n)
         /\ \A t \in FileExtents(d, n) : d[t].ext <= d[Highest(d, n)].ext
<1> DEFINE F == FileExtents(d, n)
           top == MaxLen \div Lx
           S == {top - d[s].ext : s \in F}
<1>1. F \subseteq Slots
  BY DEF FileExtents
<1>2. top \in Nat
  BY Sizes, Division
<1>3. \A s \in F : d[s].ext \in 0..top
  BY <1>1, EntryIs DEF Numbers
<1> HIDE DEF F, top
<1>4. S \subseteq Nat /\ S # {}
  BY <1>2, <1>3 DEF F
<1>5. Min(S) \in S /\ \A x \in S : Min(S) <= x
  BY <1>4, LeastIsIn
<1>6. PICK s \in F : Min(S) = top - d[s].ext
  BY <1>5
<1>7. ASSUME NEW t \in F PROVE d[t].ext <= d[s].ext
  <2>1. top - d[s].ext <= top - d[t].ext
    BY <1>5, <1>6
  <2> QED BY <1>2, <1>3, <2>1
<1> QED BY <1>7 DEF Highest, F

\* A length is a number.
LEMMA SizeIs ==
  ASSUME NEW d \in Directory, NEW n, FileExtents(d, n) # {}
  PROVE  SizeOf(d, n) = EndOf(d[Highest(d, n)]) /\ SizeOf(d, n) \in Nat
<1> DEFINE s == Highest(d, n)
<1>1. s \in Slots
  BY HighestIn DEF FileExtents
<1> HIDE DEF s
<1>2. d[s].ext \in Nat /\ d[s].blkcnt \in Nat /\ d[s].lrc \in Nat
  BY <1>1, EntryIs
<1>3. Lx \in Nat /\ Rec \in Nat
  BY Sizes
<1>4. d[s].ext * Lx \in Nat
  BY <1>2, <1>3
<1>5. (IF d[s].blkcnt # 0 THEN (d[s].blkcnt - 1) * Rec ELSE 0) \in Nat
  BY <1>2, <1>3
<1>6. EndOf(d[s]) \in Nat
  BY <1>2, <1>3, <1>4, <1>5 DEF EndOf
<1>7. SizeOf(d, n) = EndOf(d[s])
  BY DEF SizeOf, EndOf, s
<1> QED BY <1>6, <1>7 DEF s

\* The least of some slots is one of them.
LEMMA LeastSlot ==
  ASSUME NEW S \in SUBSET Slots, S # {}
  PROVE  Min(S) \in S
  BY LeastIsIn, Sizes DEF Slots

\* The entry a position is read through.
LEMMA ExtentFound ==
  ASSUME NEW d \in Directory, NEW n, NEW p \in Nat
  PROVE  LET x == FindFileExtent(d, n, p \div Lx)
         IN  /\ x = {s \in FileExtents(d, n) : Part(d[s]) = p \div Phys}
             /\ x # {} => Min(x) \in x
             /\ x \subseteq Slots
  BY PlaceFound, LeastSlot DEF FindFileExtent, Part, FileExtents

\* A file looks the same where its entries and their blocks are the same.
LEMMA SameContents ==
  ASSUME NEW d \in Directory, NEW e \in Directory, NEW n, NEW data, NEW other,
         \A s \in Slots : d[s].name = n \/ e[s].name = n => d[s] = e[s],
         \A s \in FileExtents(d, n), i \in 0..Pointers - 1 :
             d[s].ptr[i] # 0 => data[d[s].ptr[i]] = other[d[s].ptr[i]]
  PROVE  /\ FileExtents(d, n) = FileExtents(e, n)
         /\ Contents(d, data, n) = Contents(e, other, n)
         /\ OwnFile(d, data, n) => OwnFile(e, other, n)
<1> DEFINE F == FileExtents(d, n)
<1>1. F = FileExtents(e, n) /\ \A s \in F : s \in Slots /\ d[s] = e[s]
  BY DEF FileExtents
<1>2. ASSUME F = {} PROVE Contents(d, data, n) = Contents(e, other, n)
  BY <1>1, <1>2 DEF Contents
<1>3. ASSUME F # {} PROVE Contents(d, data, n) = Contents(e, other, n)
  <2>1. \A s : (s \in F /\ \A t \in F : d[t].ext <= d[s].ext)
                 <=> (s \in F /\ \A t \in F : e[t].ext <= e[s].ext)
    BY <1>1
  <2>2. Highest(d, n) = Highest(e, n) /\ Highest(d, n) \in F
    BY <1>1, <1>3, <2>1, HighestIn DEF Highest
  <2>3. SizeOf(d, n) = SizeOf(e, n) /\ SizeOf(d, n) \in Nat
    BY <1>1, <1>3, <2>2, SizeIs DEF SizeOf
  <2>4. ASSUME NEW p \in 0..SizeOf(d, n) - 1 PROVE ReadCell(d, data, n, p) = ReadCell(e, other, n, p)
    <3> DEFINE x == FindFileExtent(d, n, p \div Lx)
               y == FindFileExtent(e, n, p \div Lx)
               i == (p % Phys) \div Blk
    <3>1. p \in Nat
      BY <2>3
    <3>2. x = y /\ x \subseteq F
      BY <1>1 DEF FindFileExtent
    <3>3. x # {} => Min(x) \in F
      BY <3>1, <3>2, ExtentFound
    <3>4. i \in 0..Pointers - 1
      BY <3>1, PlaceFound
    <3> HIDE DEF x, y, i
    <3>5. x = {} \/ d[Min(x)].ptr[i] = 0 \/ data[d[Min(x)].ptr[i]] = other[e[Min(x)].ptr[i]]
      BY <1>1, <3>3, <3>4
    <3>6. x # {} => d[Min(x)] = e[Min(x)]
      BY <1>1, <3>3
    <3> QED BY <3>2, <3>5, <3>6 DEF ReadCell, x, y, i
  <2> QED BY <1>1, <2>3, <2>4 DEF Contents
<1>4. OwnFile(d, data, n) => OwnFile(e, other, n)
  <2> SUFFICES ASSUME OwnFile(d, data, n), NEW s \in F, NEW i \in 0..Pointers - 1,
                      NEW o \in Offsets, e[s].ptr[i] # 0,
                      \/ Place(e[s], i, o) < EndOf(e[s])
                      \/ \E t \in F : e[t].ext > e[s].ext
               PROVE  other[e[s].ptr[i]][o] \in {Zero, <<n, Place(e[s], i, o)>>}
    BY <1>1 DEF OwnFile
  <2>1. d[s] = e[s] /\ \A t \in F : d[t] = e[t]
    BY <1>1
  <2>2. data[d[s].ptr[i]] = other[d[s].ptr[i]]
    BY <2>1
  <2>3. data[d[s].ptr[i]][o] \in {Zero, <<n, Place(d[s], i, o)>>}
    <3> HIDE DEF F
    <3>1. \/ Place(d[s], i, o) < EndOf(d[s])
          \/ \E t \in F : d[t].ext > d[s].ext
      BY <2>1
    <3> QED BY <2>1, <3>1 DEF OwnFile, F
  <2> QED BY <2>1, <2>2, <2>3
<1> QED BY <1>1, <1>2, <1>3, <1>4


\* Quotients keep the order.
LEMMA DivideLeq ==
  ASSUME NEW a \in Nat, NEW b \in Nat, NEW n \in Nat \ {0}, a \div n > b \div n
  PROVE  a > b
<1> DEFINE x == a \div n
           y == b \div n
<1>1. a = n * x + (a % n) /\ a % n \in 0..(n - 1) /\ x \in Nat
  BY Division
<1>2. b = n * y + (b % n) /\ b % n \in 0..(n - 1) /\ y \in Nat
  BY Division
<1> HIDE DEF x, y
<1>3. y + 1 <= x
  BY <1>1, <1>2 DEF x, y
<1>4. n * (y + 1) <= n * x
  BY <1>1, <1>2, <1>3, TimesLeq
<1> QED BY <1>1, <1>2, <1>4

\* In a sound directory where everything is a file's own, so is what is read.
LEMMA OwnRead ==
  ASSUME NEW d \in Directory, NEW data, NEW n \in Names, Sound(d), Own(d, data),
         FileExtents(d, n) # {}, NEW p \in 0..SizeOf(d, n) - 1
  PROVE  ReadCell(d, data, n, p) \in {Zero, <<n, p>>}
<1> DEFINE x == FindFileExtent(d, n, p \div Lx)
           s == Min(x)
           i == (p % Phys) \div Blk
           o == p % Blk
           h == Highest(d, n)
<1>1. p \in Nat /\ p < EndOf(d[h])
  BY SizeIs
<1>2. CASE x = {} \/ d[s].ptr[i] = 0
  BY <1>2 DEF ReadCell
<1>3. CASE x # {} /\ d[s].ptr[i] # 0
  <2>1. s \in FileExtents(d, n) /\ Part(d[s]) = p \div Phys /\ s \in Slots
    BY <1>1, <1>3, ExtentFound
  <2>2. i \in 0..Pointers - 1 /\ o \in Offsets /\ p = Place(d[s], i, o)
    BY <1>1, <2>1, PlaceFound DEF Place
  <2>3. h \in FileExtents(d, n) /\ d[s].ext <= d[h].ext
    BY <2>1, HighestIn
  <2>4. s \in Live(d) /\ h \in Live(d) /\ d[s].name = n /\ d[h].name = n
    BY <2>1, <2>3, CpmFsSizes DEF FileExtents, Live
  <2> HIDE DEF s, i, o, h, x
  <2>5. p < EndOf(d[s]) \/ d[h].ext > d[s].ext
    <3>1. CASE d[h].ext = d[s].ext
      <4>1. s = h
        BY <2>4, <3>1 DEF Sound, Part
      <4> QED BY <1>1, <4>1
    <3>2. d[h].ext \in Nat /\ d[s].ext \in Nat
      BY <2>4, EntryIs DEF Live
    <3> QED BY <2>3, <3>1, <3>2
  <2>6. data[d[s].ptr[i]][o] \in {Zero, <<n, p>>}
    BY <1>3, <2>2, <2>3, <2>5, <2>1 DEF Own, OwnFile, s
  <2> QED BY <1>3, <2>6 DEF ReadCell, s, i, o, x
<1> QED BY <1>2, <1>3

\* No two entries have a block.
LEMMA BlocksApart ==
  ASSUME NEW d, Sound(d), NEW s \in Live(d), NEW t \in Live(d),
         NEW i \in 0..Pointers - 1, NEW j \in 0..Pointers - 1,
         d[s].ptr[i] # 0, d[s].ptr[i] = d[t].ptr[j]
  PROVE  s = t /\ i = j
<1> DEFINE p == <<s, i>>
           q == <<t, j>>
<1>1. p \in PointersOf(d) /\ q \in PointersOf(d)
  BY DEF PointersOf, Live
<1>2. d[p[1]].ptr[p[2]] = d[q[1]].ptr[q[2]]
  OBVIOUS
<1>3. p = q
  <2> HIDE DEF p, q
  <2> QED BY <1>1, <1>2 DEF Sound, Apart
<1> QED BY <1>3

\* Taking entries away leaves a directory sound, and its files their own.
LEMMA WithinSound ==
  ASSUME NEW d, NEW e, Sound(e), Within(d, e)
  PROVE  Sound(d)
<1>1. \A s \in Live(d) : s \in Live(e) /\ Like(d[s], e[s])
  BY DEF Within, Like, Live
<1>2. ASSUME NEW p \in PointersOf(d) PROVE p \in PointersOf(e) /\ d[p[1]].ptr[p[2]] = e[p[1]].ptr[p[2]]
  BY <1>1 DEF PointersOf, Live, Like
<1>3. Apart(d)
  BY <1>2 DEF Apart, Sound
<1>4. \A s, t \in Live(d) : d[s].name = d[t].name /\ Part(d[s]) = Part(d[t]) => s = t
  BY <1>1 DEF Sound, Like, Part
<1> QED BY <1>3, <1>4 DEF Sound

LEMMA WithinOwn ==
  ASSUME NEW d, NEW e, NEW data, Own(e, data), Within(d, e)
  PROVE  Own(d, data)
<1>1. \A s \in Live(d) : s \in Live(e) /\ Like(d[s], e[s])
  BY DEF Within, Like, Live
<1> SUFFICES ASSUME NEW n \in Names, NEW s \in FileExtents(d, n), NEW i \in 0..Pointers - 1,
                    NEW o \in Offsets, d[s].ptr[i] # 0,
                    \/ Place(d[s], i, o) < EndOf(d[s])
                    \/ \E t \in FileExtents(d, n) : d[t].ext > d[s].ext
             PROVE  data[d[s].ptr[i]][o] \in {Zero, <<n, Place(d[s], i, o)>>}
  BY DEF Own, OwnFile
<1>2. \A t \in FileExtents(d, n) : t \in FileExtents(e, n) /\ Like(d[t], e[t])
  BY <1>1, CpmFsSizes DEF FileExtents, Live, Like
<1>3. /\ s \in FileExtents(e, n) /\ e[s].ptr = d[s].ptr
      /\ Place(e[s], i, o) = Place(d[s], i, o) /\ EndOf(e[s]) = EndOf(d[s])
  BY <1>2 DEF Like, Place, Part, EndOf
<1>4. \/ Place(e[s], i, o) < EndOf(e[s])
      \/ \E t \in FileExtents(e, n) : e[t].ext > e[s].ext
  BY <1>2, <1>3 DEF Like
<1>5. data[e[s].ptr[i]][o] \in {Zero, <<n, Place(e[s], i, o)>>}
  BY <1>3, <1>4 DEF Own, OwnFile
<1> QED BY <1>3, <1>5

\* How far apart the extent number recorded and that of the last cell are.
LEMMA NumberFound ==
  ASSUME NEW pos \in Nat \ {0}, NEW number, NumberRight(pos, number)
  PROVE  LET q == (pos - 1) \div Lx
             end == number * Lx + ((pos - 1) % Lx) + 1
         IN  /\ number = q => end = pos
             /\ number # q => end = pos - Lx
             /\ number * Lx \in Nat /\ end \in Nat
<1> DEFINE q == (pos - 1) \div Lx
           m == (pos - 1) % Lx
           end == number * Lx + m + 1
<1>1. Lx \in Nat \ {0} /\ number \in Nat /\ number * Lx < pos /\ pos <= (number + 2) * Lx
  BY Sizes DEF NumberRight
<1>2. pos - 1 = Lx * q + m /\ m \in 0..(Lx - 1) /\ q \in Nat
  <2> DEFINE b == pos - 1
  <2>1. b \in Nat
    OBVIOUS
  <2> HIDE DEF b
  <2>2. b = Lx * (b \div Lx) + (b % Lx) /\ b % Lx \in 0..(Lx - 1) /\ b \div Lx \in Nat
    BY <1>1, <2>1, Division
  <2> QED BY <2>2 DEF b
<1> HIDE DEF q, m
<1>3. number <= q
  <2> SUFFICES ASSUME q + 1 <= number PROVE FALSE
    BY <1>1, <1>2
  <2>1. Lx * (q + 1) <= Lx * number
    BY <1>1, <1>2, TimesLeq
  <2>2. Lx * (q + 1) = Lx * q + Lx /\ Lx * number = number * Lx
    BY <1>1, <1>2
  <2> QED BY <1>1, <1>2, <2>1, <2>2
<1>4. q <= number + 1
  <2> SUFFICES ASSUME number + 2 <= q PROVE FALSE
    BY <1>1, <1>2
  <2>1. Lx * (number + 2) <= Lx * q
    BY <1>1, <1>2, TimesLeq
  <2>2. Lx * (number + 2) = (number + 2) * Lx
    BY <1>1, <1>2
  <2> QED BY <1>1, <1>2, <2>1, <2>2
<1>5. number # q => q = number + 1 /\ Lx * q = number * Lx + Lx
  BY <1>1, <1>2, <1>3, <1>4
<1>6. number = q => Lx * q = number * Lx
  BY <1>1, <1>2
<1>7. number * Lx \in Nat /\ Lx * q \in Nat
  BY <1>1, <1>2
<1>8. /\ number = q => number * Lx + m + 1 = pos
      /\ number # q => number * Lx + m + 1 = pos - Lx
      /\ number * Lx + m + 1 \in Nat
  BY <1>1, <1>2, <1>5, <1>6, <1>7
<1> QED BY <1>7, <1>8 DEF q, m

\* The last entry of the file that is being written.
LEMMA LastIsHighest ==
  ASSUME NEW d \in Directory, NEW n, NEW pos \in Nat \ {0}, Parts(d, n, pos)
  PROVE  /\ FileExtents(d, n) # {}
         /\ Part(d[Highest(d, n)]) = (pos - 1) \div Phys
         /\ pos <= (Part(d[Highest(d, n)]) + 1) * Phys
<1> DEFINE k == (pos - 1) \div Phys
           h == Highest(d, n)
<1>1. Phys \in Nat \ {0} /\ Extents \in Nat \ {0}
  BY Sizes
<1>2. k \in Nat /\ k * Phys < pos /\ pos <= (k + 1) * Phys
  <2> DEFINE b == pos - 1
             m == b % Phys
  <2>1. b \in Nat
    OBVIOUS
  <2> HIDE DEF b
  <2>2. b = Phys * (b \div Phys) + m /\ m \in 0..(Phys - 1) /\ b \div Phys \in Nat
    BY <1>1, <2>1, Division
  <2>3. pos - 1 = Phys * k + m /\ k \in Nat
    BY <2>2 DEF b
  <2> HIDE DEF m, k
  <2>4. k * Phys = Phys * k /\ (k + 1) * Phys = Phys * k + Phys /\ Phys * k \in Nat
    BY <1>1, <2>3
  <2> QED BY <1>1, <2>2, <2>3, <2>4
<1> HIDE DEF k
<1>3. PICK s \in FileExtents(d, n) : Part(d[s]) = k
  BY <1>2 DEF Parts
<1>4. h \in FileExtents(d, n) /\ d[s].ext <= d[h].ext /\ h \in Slots /\ s \in Slots
  BY <1>3, HighestIn DEF FileExtents
<1>5. Part(d[h]) \in Nat /\ d[h].ext \in Nat /\ d[s].ext \in Nat
  BY <1>4, EntryIs
<1>6. k <= Part(d[h])
  BY <1>1, <1>2, <1>3, <1>4, <1>5, DivideLeq DEF Part
<1>7. Part(d[h]) <= k
  <2> DEFINE j == Part(d[h])
  <2> SUFFICES ASSUME k + 1 <= j PROVE FALSE
    BY <1>2, <1>5
  <2>1. j * Phys < pos
    BY <1>1, <1>2, <1>4 DEF Parts
  <2>2. j \in Nat
    BY <1>5
  <2> HIDE DEF j
  <2>3. (k + 1) * Phys <= j * Phys /\ (k + 1) * Phys \in Int /\ j * Phys \in Int
    BY <1>1, <1>2, <2>2, TimesLeq
  <2> QED BY <1>2, <2>1, <2>3
<1>8. Part(d[h]) = k
  BY <1>2, <1>5, <1>6, <1>7
<1> QED BY <1>2, <1>3, <1>8 DEF k

\* How long the file is according to its last entry.
LEMMA LengthIs ==
  ASSUME NEW d \in Directory, NEW n, NEW pos \in Nat \ {0}, NEW number,
         Parts(d, n, pos), LastEntry(d, n, pos, number), NumberRight(pos, number)
  PROVE  /\ EndOf(d[Highest(d, n)]) = IF number = (pos - 1) \div Lx THEN pos ELSE pos - Lx
         /\ EndOf(d[Highest(d, n)]) \in Nat
<1> DEFINE F == FileExtents(d, n)
           h == Highest(d, n)
           q == (pos - 1) \div Lx
           end == number * Lx + ((pos - 1) % Lx) + 1
<1>1. F # {} /\ h \in F
  BY HighestIn DEF Parts
<1>2. Lx \in Nat \ {0} /\ Rec \in Nat \ {0}
  BY Sizes
<1>3. pos <= (Part(d[h]) + 1) * Phys
  BY LastIsHighest
<1>4. /\ d[h].ext = number
      /\ d[h].blkcnt = (((pos - 1) % Lx) \div Rec) + 1 /\ d[h].lrc = pos % Rec
  BY <1>1, <1>3 DEF LastEntry
<1>5. EndOf(d[h]) = end
  <2> DEFINE b == (((pos - 1) % Lx) \div Rec) + 1
             l == IF pos % Rec # 0 THEN pos % Rec ELSE Rec
  <2>1. /\ b \in 1..Lx \div Rec /\ (b - 1) * Rec + l = ((pos - 1) % Lx) + 1
        /\ pos % Rec \in 0..(Rec - 1)
    BY RecordsRight
  <2>2. EndOf(d[h]) = number * Lx + (IF b # 0 THEN (b - 1) * Rec ELSE 0) + l
    BY <1>4 DEF EndOf
  <2>3. l \in Nat /\ number * Lx \in Nat /\ b \in Nat \ {0}
    BY <1>2, <2>1, NumberFound
  <2> HIDE DEF b, l
  <2>4. (b - 1) * Rec \in Nat
    BY <1>2, <2>3
  <2> DEFINE x == (b - 1) * Rec
             y == number * Lx
             z == (pos - 1) % Lx
  <2>5. EndOf(d[h]) = y + x + l /\ x + l = z + 1 /\ x \in Nat /\ y \in Nat /\ z \in Nat
    BY <1>2, <2>1, <2>2, <2>3, <2>4
  <2>6. end = y + z + 1
    OBVIOUS
  <2> HIDE DEF x, y, z, end
  <2> QED BY <2>3, <2>5, <2>6
<1>6. (number = q => end = pos) /\ (number # q => end = pos - Lx) /\ end \in Nat
  BY NumberFound
<1> HIDE DEF end
<1> QED BY <1>5, <1>6

\* What has been written is what is read.
LEMMA WrittenIsRead ==
  ASSUME NEW d \in Directory, NEW data, NEW n \in Names, NEW pos \in Nat, NEW number,
         Parts(d, n, pos), LastEntry(d, n, pos, number), NumberRight(pos, number),
         Written(d, data, n, pos)
  PROVE  Contents(d, data, n) = Recognised(n, pos, number)
<1> DEFINE F == FileExtents(d, n)
           h == Highest(d, n)
<1>1. F # {} /\ h \in F
  BY HighestIn DEF Parts
<1>2. SizeOf(d, n) = EndOf(d[h]) /\ SizeOf(d, n) \in Nat
  BY <1>1, SizeIs
<1>3. Phys \in Nat \ {0} /\ Lx \in Nat \ {0} /\ Rec \in Nat \ {0} /\ Blk \in Nat \ {0}
  BY Sizes
<1>4. ASSUME NEW s \in F
      PROVE  s \in Slots /\ Part(d[s]) \in Nat /\ Part(d[s]) * Phys \in Nat
  BY <1>3, EntryIs DEF FileExtents
<1>5. CASE pos = 0
  <2>1. ASSUME NEW s \in F PROVE Part(d[s]) = 0 /\ \A i \in 0..Pointers - 1 : d[s].ptr[i] = 0
    <3>1. Part(d[s]) = 0
      BY <1>4, <1>5 DEF Parts
    <3>2. ASSUME NEW i \in 0..Pointers - 1 PROVE ~(Part(d[s]) * Phys + i * Blk < 0)
      BY <1>3, <1>4
    <3> QED BY <1>5, <3>1, <3>2 DEF Parts
  <2>2. pos <= (Part(d[h]) + 1) * Phys
    BY <1>1, <1>3, <1>5, <2>1
  <2>3. EndOf(d[h]) = Rec
    BY <1>1, <1>3, <1>5, <2>2 DEF LastEntry, EndOf
  <2>4. ASSUME NEW p \in 0..Rec - 1 PROVE ReadCell(d, data, n, p) = Zero
    <3> DEFINE x == FindFileExtent(d, n, p \div Lx)
               i == (p % Phys) \div Blk
    <3>1. p \in Nat
      BY <1>3
    <3>2. (x # {} => Min(x) \in F) /\ i \in 0..Pointers - 1
      BY <3>1, ExtentFound, PlaceFound
    <3> HIDE DEF x, i
    <3>3. x = {} \/ d[Min(x)].ptr[i] = 0
      BY <2>1, <3>2
    <3> QED BY <3>3 DEF ReadCell, x, i
  <2> QED BY <1>1, <1>2, <1>5, <2>3, <2>4 DEF Contents, Recognised
<1>6. CASE pos # 0
  <2> DEFINE q == (pos - 1) \div Lx
             end == EndOf(d[h])
  <2>4. end = (IF number = q THEN pos ELSE pos - Lx) /\ end \in Nat
    BY <1>6, LengthIs
  <2> HIDE DEF end, q
  <2>5. ASSUME NEW p \in 0..end - 1 PROVE ReadCell(d, data, n, p) = <<n, p>>
    <3> DEFINE x == FindFileExtent(d, n, p \div Lx)
               i == (p % Phys) \div Blk
               o == p % Blk
               k == p \div Phys
               s == Min(x)
    <3>1. p \in Nat /\ p < pos
      BY <1>3, <2>4
    <3>2. /\ k \in Nat /\ i \in 0..Pointers - 1 /\ o \in Offsets /\ p = k * Phys + i * Blk + o
          /\ k * Phys \in Nat /\ i * Blk \in Nat
      BY <3>1, PlaceFound, PlaceIs
    <3>3. x = {t \in F : Part(d[t]) = k} /\ (x # {} => s \in x)
      BY <3>1, ExtentFound
    <3> HIDE DEF k, i, o, x, s
    <3>4. o \in Nat
      BY <1>3, <3>2 DEF Offsets
    <3>5. k * Phys < pos /\ k * Phys + i * Blk < pos
      BY <3>1, <3>2, <3>4
    <3>6. x # {}
      BY <3>2, <3>3, <3>5 DEF Parts
    <3>7. s \in F /\ Part(d[s]) = k
      BY <3>3, <3>6
    <3>8. d[s].ptr[i] # 0
      BY <3>2, <3>5, <3>7 DEF Parts
    <3>9. data[d[s].ptr[i]][o] = <<n, p>>
      BY <3>1, <3>2, <3>7 DEF Written, Place
    <3> QED BY <3>6, <3>8, <3>9 DEF ReadCell, x, i, o, s
  <2>6. Contents(d, data, n) = [p \in 0..end - 1 |-> <<n, p>>]
    BY <1>1, <1>2, <2>5 DEF Contents, end
  <2> QED BY <1>6, <2>4, <2>6 DEF Recognised, Prefix, q
<1> QED BY <1>5, <1>6

------------------------------------------------------------------------------
(* One call of cpmWrite, up to the end of a block.                          *)

\* The part of a file a position is in.
LEMMA PartIs ==
  ASSUME NEW p \in Nat, NEW j \in Nat, j * Phys <= p, p < (j + 1) * Phys
  PROVE  p \div Phys = j /\ j * Phys \in Nat
<1> DEFINE m == p - Phys * j
<1>1. Phys \in Nat \ {0}
  BY Sizes
<1>2. j * Phys = Phys * j /\ Phys * j \in Nat /\ (j + 1) * Phys = Phys * j + Phys
  BY <1>1
<1>3. m \in 0..(Phys - 1) /\ p = Phys * j + m
  BY <1>1, <1>2
<1> HIDE DEF m
<1>4. p \div Phys = j /\ p % Phys = m
  BY <1>1, <1>3, DivisionIs
<1> QED BY <1>2, <1>4

\* Every position is in a part.
LEMMA PartFound ==
  ASSUME NEW p \in Nat
  PROVE  /\ p \div Phys \in Nat /\ (p \div Phys) * Phys \in Nat
         /\ (p \div Phys) * Phys <= p /\ p < ((p \div Phys) + 1) * Phys
<1> DEFINE k == p \div Phys
           m == p % Phys
<1>1. Phys \in Nat \ {0}
  BY Sizes
<1>2. p = Phys * k + m /\ m \in 0..(Phys - 1) /\ k \in Nat
  BY <1>1, Division
<1> HIDE DEF k, m
<1>3. k * Phys = Phys * k /\ Phys * k \in Nat /\ (k + 1) * Phys = Phys * k + Phys
  BY <1>1, <1>2
<1>4. k \in Nat /\ k * Phys \in Nat /\ k * Phys <= p /\ p < (k + 1) * Phys
  BY <1>1, <1>2, <1>3
<1> QED BY <1>4 DEF k

\* The entry is one of the file's, for the part it writes, and has a block where
\* the file has cells.
LEMMA EntryRight ==
  ASSUME FsInv, Writing, ~(NeedsEntry /\ DirectoryFull(dir))
  PROVE  LET k == file.pos \div Phys
         IN  /\ Entry \in Slots /\ EntryNumber \in Numbers /\ EntryNumber \in Nat
             /\ EntryNumber \div Extents = k
             /\ EntryNumber * Lx <= file.pos /\ file.pos + file.count <= (EntryNumber + 2) * Lx
             /\ WithEntry \in Directory /\ WithEntry[Entry].name = file.name
             /\ \A s \in Slots \ {Entry} : WithEntry[s] = dir[s]
             /\ \A s \in FileExtents(dir, file.name) : Part(dir[s]) = k <=> s = Entry
             /\ NeedsEntry => /\ dir[Entry].name = Free /\ WithEntry[Entry].ptr = NoEntry.ptr
                              /\ Part(WithEntry[Entry]) = k /\ WithEntry[Entry].blkcnt = 0
                              /\ WithEntry[Entry].lrc = 0 /\ file.pos = k * Phys
             /\ ~NeedsEntry => WithEntry = dir /\ Entry \in FileExtents(dir, file.name)
             /\ \A i \in 0..Pointers - 1 :
                   WithEntry[Entry].ptr[i] # 0 <=> k * Phys + i * Blk < file.pos
<1> DEFINE k == file.pos \div Phys
           F == FileExtents(dir, file.name)
<1>1. /\ dir \in Directory /\ file \in FileType /\ FileRight(file) /\ Sound(dir)
      /\ file.pos \in Nat /\ file.count \in Nat \ {0} /\ file.name \in Names /\ file.ino \in Slots
  BY DEF FsInv, FsTyped, Writing, FileType
<1>2. /\ k \in Nat /\ k * Phys \in Nat /\ k * Phys <= file.pos /\ file.pos < (k + 1) * Phys
      /\ (file.pos \div Lx) \div Extents = k
  BY <1>1, PlaceFound, PartFound
<1>3. Lx \in Nat \ {0} /\ Phys \in Nat \ {0} /\ Buf <= Lx /\ Buf \in Nat
  BY Sizes
<1> HIDE DEF k
<1>4. /\ EntryNumber \in Numbers /\ EntryNumber \in Nat /\ EntryNumber \div Extents = k
      /\ EntryNumber * Lx <= file.pos /\ file.pos + file.count <= (EntryNumber + 2) * Lx
  <2>1. CASE file.extent # -1
    <3>1. file.extent \in Slots /\ file.extentno \in {-1} \cup Numbers
      BY <1>1, <2>1 DEF FileType
    <3>2. /\ Part(dir[file.extent]) * Phys < file.pos
          /\ file.pos < (Part(dir[file.extent]) + 1) * Phys
          /\ file.pos + file.count <= (file.extentno + 2) * Lx
      BY <1>1, <2>1 DEF FileRight
    <3>3. file.pos > 0 /\ file.extentno \in Nat /\ file.extentno * Lx < file.pos
          /\ file.extentno \div Extents = (file.pos - 1) \div Phys
      <4>1. Part(dir[file.extent]) * Phys \in Nat
        BY <1>1, <1>3, <3>1, EntryIs
      <4>2. file.pos > 0
        BY <1>1, <3>2, <4>1
      <4> QED BY <1>1, <4>2 DEF FileRight, NumberRight
    <3>4. (file.pos - 1) \div Phys = k
      <4> DEFINE j == Part(dir[file.extent])
                 b == file.pos - 1
      <4>1. j \in Nat /\ b \in Nat
        BY <1>1, <3>1, <3>3, EntryIs
      <4>2. j * Phys <= b /\ j * Phys <= file.pos /\ file.pos < (j + 1) * Phys /\ b < (j + 1) * Phys
        <5> HIDE DEF j
        <5>1. j * Phys \in Nat /\ (j + 1) * Phys \in Nat
          BY <1>3, <4>1
        <5> QED BY <1>1, <3>2, <5>1 DEF j
      <4> HIDE DEF j, b
      <4>3. file.pos \div Phys = j /\ b \div Phys = j
        BY <1>1, <4>1, <4>2, PartIs
      <4> QED BY <4>3 DEF k, b
    <3>5. EntryNumber = file.extentno
      BY <2>1 DEF EntryNumber
    <3>6. file.extentno \in Numbers /\ file.extentno * Lx <= file.pos
      <4>1. file.extentno * Lx \in Nat
        BY <1>3, <3>3
      <4> QED BY <1>1, <3>1, <3>3, <4>1
    <3>7. file.extentno \div Extents = k
      BY <3>3, <3>4
    <3> QED BY <3>2, <3>3, <3>5, <3>6, <3>7
  <2>2. CASE file.extent = -1
    <3> DEFINE q == file.pos \div Lx
               m == file.pos % Lx
    <3>1. file.pos = Lx * q + m /\ m \in 0..(Lx - 1) /\ q \in Nat
      BY <1>1, <1>3, Division
    <3>2. EntryNumber = q
      BY <2>2 DEF EntryNumber
    <3>3. q \div Extents = k
      BY <1>2
    <3>4. q \in Numbers
      <4>1. MaxLen \in Nat /\ file.pos <= MaxLen
        BY <1>1, Sizes DEF FileType
      <4>2. q <= MaxLen \div Lx
        <5> SUFFICES ASSUME q > MaxLen \div Lx PROVE FALSE
          BY <1>3, <3>1, <4>1, Division
        <5> QED BY <1>1, <1>3, <4>1, DivideLeq
      <4> QED BY <3>1, <4>1, <4>2, <1>3, Division DEF Numbers
    <3> HIDE DEF q, m
    <3>5. q * Lx = Lx * q /\ (q + 2) * Lx = Lx * q + Lx + Lx /\ Lx * q \in Nat
      BY <1>3, <3>1
    <3>6. file.count <= Buf + 1
      BY <1>1 DEF FileRight
    <3>7. q * Lx <= file.pos /\ file.pos + file.count <= (q + 2) * Lx
      BY <1>1, <1>3, <3>1, <3>5, <3>6
    <3> QED BY <3>1, <3>2, <3>3, <3>4, <3>7
  <2> QED BY <2>1, <2>2
<1>5. ASSUME NEW s \in F, NEW t \in F, Part(dir[s]) = Part(dir[t]) PROVE s = t
  BY <1>1, <1>5, CpmFsSizes DEF Sound, FileExtents, Live
<1>6. \A s \in F : /\ Part(dir[s]) = 0 \/ Part(dir[s]) * Phys < file.pos
                   /\ \A i \in 0..Pointers - 1 :
                         dir[s].ptr[i] # 0 <=> Part(dir[s]) * Phys + i * Blk < file.pos
  BY <1>1 DEF FileRight, Parts
<1>7. ASSUME NEW s \in F, Part(dir[s]) = k, Entry = s, ~NeedsEntry
      PROVE  /\ Entry \in Slots /\ WithEntry = dir /\ WithEntry[Entry].name = file.name
             /\ \A t \in F : Part(dir[t]) = k <=> t = Entry
             /\ Entry \in F
             /\ \A i \in 0..Pointers - 1 :
                   WithEntry[Entry].ptr[i] # 0 <=> k * Phys + i * Blk < file.pos
  BY <1>5, <1>6, <1>7 DEF WithEntry, FileExtents
<1>8. CASE file.extent # -1
  <2>1. ~NeedsEntry /\ Entry = file.extent /\ file.extent \in Slots
    BY <1>1, <1>8 DEF NeedsEntry, Entry, FileType
  <2>2. file.extent \in F
    BY <1>1, <1>8, <2>1 DEF FileRight, FileExtents
  <2>3. Part(dir[file.extent]) = k
    <3> DEFINE j == Part(dir[file.extent])
    <3>1. j * Phys < file.pos /\ file.pos < (j + 1) * Phys
      BY <1>1, <1>8 DEF FileRight
    <3>2. j \in Nat
      BY <1>1, <2>1, EntryIs
    <3> HIDE DEF j
    <3>3. j * Phys \in Nat
      BY <1>3, <3>2
    <3>4. j * Phys <= file.pos
      BY <1>1, <3>1, <3>3
    <3>5. file.pos \div Phys = j
      BY <1>1, <3>1, <3>2, <3>4, PartIs
    <3> QED BY <3>5 DEF k, j
  <2> QED BY <1>1, <1>4, <1>7, <2>1, <2>2, <2>3 DEF k
<1>9. CASE file.extent = -1 /\ ~NeedsEntry
  <2> DEFINE x == FindFileExtent(dir, file.name, file.pos \div Lx)
  <2>1. x # {} /\ Entry = Min(x)
    BY <1>9 DEF NeedsEntry, Entry
  <2>2. Entry \in F /\ Part(dir[Entry]) = k
    BY <1>1, <2>1, ExtentFound DEF k
  <2> QED BY <1>1, <1>4, <1>7, <1>9, <2>2 DEF k
<1>10. CASE NeedsEntry
  <2>1. file.extent = -1 /\ Entry = FindFreeExtent(dir)
    BY <1>10 DEF NeedsEntry, Entry
  <2>2. Entry \in Slots /\ dir[Entry].name = Free
    <3> DEFINE S == {s \in Slots : dir[s].name = Free}
    <3>1. S # {} /\ S \subseteq Slots
      BY <1>10 DEF DirectoryFull
    <3>2. Min(S) \in S
      BY <3>1, LeastSlot
    <3> QED BY <2>1, <3>2 DEF FindFreeExtent
  <2>3. \A s \in F : Part(dir[s]) # k
    BY <1>1, <1>10, ExtentFound DEF NeedsEntry, k
  <2>4. Entry \notin F
    BY <1>1, <2>2, CpmFsSizes DEF FileExtents
  <2>5. file.pos = k * Phys
    <3>1. ~(k = 0 \/ k * Phys < file.pos)
      BY <1>1, <1>2, <2>3 DEF FileRight, Parts
    <3> QED BY <1>1, <1>2, <3>1
  <2>6. WithEntry = [dir EXCEPT ![Entry] = [dir[file.ino] EXCEPT !.ptr = NoEntry.ptr,
                                    !.ext = EntryNumber, !.blkcnt = 0, !.lrc = 0]]
    BY <1>10 DEF WithEntry
  <2> DEFINE e == WithEntry[Entry]
  <2>7. /\ e.ptr = NoEntry.ptr /\ e.ext = EntryNumber /\ e.blkcnt = 0 /\ e.lrc = 0
        /\ e.name = file.name /\ e \in EntryType
    <3>1. dir[file.ino] \in EntryType /\ dir[file.ino].name = file.name
      BY <1>1 DEF Directory, FileRight
    <3>2. NoEntry.ptr \in [0..Pointers - 1 -> {0} \cup DataBlocks]
      BY DEF NoEntry
    <3>3. 0 \in 0..Lx \div Rec /\ 0 \in 0..Rec - 1
      BY Sizes, Division
    <3>4. e = [dir[file.ino] EXCEPT !.ptr = NoEntry.ptr,
                                    !.ext = EntryNumber, !.blkcnt = 0, !.lrc = 0]
      BY <1>1, <2>2, <2>6 DEF Directory
    <3> QED BY <1>4, <3>1, <3>2, <3>3, <3>4 DEF EntryType, Numbers
  <2>8. WithEntry \in Directory /\ \A s \in Slots \ {Entry} : WithEntry[s] = dir[s]
    BY <1>1, <2>2, <2>6, <2>7 DEF Directory
  <2>9. Part(e) = k
    BY <1>4, <2>7 DEF Part
  <2>10. ASSUME NEW i \in 0..Pointers - 1
         PROVE e.ptr[i] # 0 <=> k * Phys + i * Blk < file.pos
    <3>1. i * Blk \in Nat
      BY Sizes
    <3> QED BY <1>2, <2>5, <2>7, <3>1 DEF NoEntry
  <2> QED BY <1>4, <1>10, <2>2, <2>3, <2>4, <2>5, <2>7, <2>8, <2>9, <2>10 DEF k
<1> QED BY <1>8, <1>9, <1>10

\* The block and the directory after the piece.
Target == IF HasBlock THEN WithEntry[Entry].ptr[Pointer] ELSE AllocBlock(alv)
NewDir == [WithEntry EXCEPT ![Entry] = Recorded(@, Target, file.pos + Piece)]
CanWrite == /\ Writing /\ ~(NeedsEntry /\ DirectoryFull(dir))
            /\ HasBlock \/ ~DeviceFull(alv)

\* What is in a live entry is allocated.
LEMMA NamedTaken ==
  ASSUME FsInv, tool # "none", NEW s \in Live(dir), NEW i \in 0..Pointers - 1, dir[s].ptr[i] # 0
  PROVE  dir[s].ptr[i] \in alv
<1>1. dir[s].ptr[i] \in Named(dir, s)
  BY DEF Named
<1> QED BY <1>1 DEF FsInv, AlvExact

\* The block written is the entry's own, or was free.
LEMMA TargetRight ==
  ASSUME FsInv, CanWrite
  PROVE  /\ Target \in DataBlocks /\ Target # 0
         /\ HasBlock <=> InBlock # 0
         /\ HasBlock => /\ ~NeedsEntry /\ WithEntry = dir /\ Entry \in Live(dir)
                        /\ Target = dir[Entry].ptr[Pointer] /\ Target \in alv
         /\ ~HasBlock => Target \notin alv
         /\ \A s \in Live(dir), i \in 0..Pointers - 1 :
               dir[s].ptr[i] = Target => s = Entry /\ i = Pointer /\ HasBlock
<1> DEFINE k == file.pos \div Phys
<1>1. /\ file.pos \in Nat /\ file.count \in Nat \ {0} /\ file.name \in Names /\ tool # "none"
      /\ dir \in Directory /\ Sound(dir) /\ alv \subseteq Blocks
      /\ Writing /\ ~(NeedsEntry /\ DirectoryFull(dir))
  BY DEF FsInv, FsTyped, CanWrite, Writing, FileType, Copying
<1>2. /\ Pointer \in 0..Pointers - 1 /\ InBlock \in Nat
      /\ file.pos = k * Phys + Pointer * Blk + InBlock
      /\ k * Phys \in Nat /\ Pointer * Blk \in Nat
  BY <1>1, PieceRight DEF Offsets
<1>3. /\ Entry \in Slots /\ WithEntry \in Directory
      /\ NeedsEntry => WithEntry[Entry].ptr = NoEntry.ptr
      /\ ~NeedsEntry => WithEntry = dir /\ Entry \in FileExtents(dir, file.name)
      /\ \A i \in 0..Pointers - 1 :
            WithEntry[Entry].ptr[i] # 0 <=> k * Phys + i * Blk < file.pos
  BY <1>1, EntryRight
<1>4. HasBlock <=> InBlock # 0
  <2>1. HasBlock <=> k * Phys + Pointer * Blk < file.pos
    BY <1>2, <1>3 DEF HasBlock
  <2> HIDE DEF k
  <2> QED BY <1>2, <2>1
<1>5. HasBlock => ~NeedsEntry
  BY <1>2, <1>3 DEF HasBlock, NoEntry
<1>6. HasBlock => /\ WithEntry = dir /\ Entry \in Live(dir)
                  /\ Target = dir[Entry].ptr[Pointer] /\ Target # 0
  BY <1>1, <1>3, <1>5, CpmFsSizes DEF Target, HasBlock, Live, FileExtents
<1>7. HasBlock => Target \in alv /\ Target \in DataBlocks
  <2>1. HasBlock => Target \in alv
    BY <1>1, <1>2, <1>6, NamedTaken
  <2>2. HasBlock => Target \in DataBlocks
    BY <1>1, <1>2, <1>3, <1>6, EntryIs
  <2> QED BY <2>1, <2>2
<1>8. ASSUME ~HasBlock PROVE Target \in Blocks \ alv /\ Target \in DataBlocks
  <2> DEFINE S == Blocks \ alv
  <2>1. S # {} /\ S \subseteq Nat
    BY <1>8 DEF CanWrite, DeviceFull, Blocks
  <2>2. Target \in S
    BY <1>8, <2>1, LeastIsIn DEF Target, AllocBlock
  <2>3. DirBlocks \subseteq alv
    BY <1>1 DEF FsInv, AlvExact
  <2> QED BY <2>2, <2>3 DEF DataBlocks
<1>9. Target \in DataBlocks /\ Target # 0
  BY <1>7, <1>8, DirectoryFits
<1>10. ASSUME NEW s \in Live(dir), NEW i \in 0..Pointers - 1, dir[s].ptr[i] = Target
       PROVE  s = Entry /\ i = Pointer /\ HasBlock
  <2>1. Target \in alv
    BY <1>1, <1>9, <1>10, NamedTaken
  <2>2. HasBlock
    BY <1>8, <2>1
  <2> QED BY <1>1, <1>2, <1>6, <1>9, <1>10, <2>2, BlocksApart
<1> QED BY <1>4, <1>5, <1>6, <1>7, <1>8, <1>9, <1>10

\* What the piece changes in the directory.
LEMMA NewDirIs ==
  ASSUME FsInv, CanWrite
  PROVE  LET e == NewDir[Entry]
             pos == file.pos + Piece
         IN  /\ NewDir \in Directory /\ Entry \in Slots
             /\ \A s \in Slots \ {Entry} : NewDir[s] = dir[s]
             /\ e.name = file.name /\ e.ext = EntryNumber /\ Part(e) = file.pos \div Phys
             /\ e.blkcnt = (((pos - 1) % Lx) \div Rec) + 1 /\ e.lrc = pos % Rec
             /\ e.ptr[Pointer] = Target
             /\ \A i \in 0..Pointers - 1 : i # Pointer => e.ptr[i] = WithEntry[Entry].ptr[i]
<1> DEFINE w == WithEntry[Entry]
           pos == file.pos + Piece
<1>1. /\ file.pos \in Nat /\ file.count \in Nat \ {0}
      /\ Writing /\ ~(NeedsEntry /\ DirectoryFull(dir))
  BY DEF FsInv, FsTyped, CanWrite, Writing, FileType, Copying
<1>2. /\ Entry \in Slots /\ WithEntry \in Directory /\ w \in EntryType /\ w.name = file.name
      /\ \A s \in Slots \ {Entry} : WithEntry[s] = dir[s]
      /\ EntryNumber \in Numbers /\ EntryNumber \div Extents = file.pos \div Phys
  BY <1>1, EntryRight DEF Directory
<1>3. Target \in DataBlocks /\ Pointer \in 0..Pointers - 1
  BY <1>1, TargetRight, PieceRight
<1>4. pos \in Nat \ {0}
  BY <1>1, PieceRight
<1> DEFINE b == (((pos - 1) % Lx) \div Rec) + 1
           l == pos % Rec
<1>5. b \in 0..Lx \div Rec /\ l \in 0..Rec - 1
  <2> HIDE DEF pos
  <2>1. b \in 1..Lx \div Rec /\ l \in 0..(Rec - 1)
    BY <1>4, RecordsRight
  <2>2. Lx \div Rec \in Nat
    BY Sizes, Division
  <2> HIDE DEF b, l
  <2> QED BY <2>1, <2>2
<1> DEFINE r == Recorded(w, Target, pos)
<1>6. r = [w EXCEPT !.ptr[Pointer] = Target, !.ext = EntryNumber, !.blkcnt = b, !.lrc = l]
  BY DEF Recorded
<1> HIDE DEF b, l
<1>7. r \in EntryType
  <2> DEFINE x == [w.ptr EXCEPT ![Pointer] = Target]
  <2>1. w.ptr \in [0..Pointers - 1 -> {0} \cup DataBlocks]
    BY <1>2 DEF EntryType
  <2>2. x \in [0..Pointers - 1 -> {0} \cup DataBlocks]
    BY <1>3, <2>1
  <2>3. r = [w EXCEPT !.ptr = x, !.ext = EntryNumber, !.blkcnt = b, !.lrc = l]
    BY <1>6
  <2> HIDE DEF x, r, w
  <2> QED BY <1>2, <1>5, <2>2, <2>3 DEF EntryType, Numbers
<1>8. /\ r.name = file.name /\ r.ext = EntryNumber /\ r.blkcnt = b /\ r.lrc = l
      /\ r.ptr[Pointer] = Target
      /\ \A i \in 0..Pointers - 1 : i # Pointer => r.ptr[i] = w.ptr[i]
  BY <1>2, <1>3, <1>6 DEF EntryType
<1> HIDE DEF r
<1>9. NewDir = [WithEntry EXCEPT ![Entry] = r]
  BY DEF NewDir, r
<1>10. /\ NewDir \in Directory /\ NewDir[Entry] = r
       /\ \A s \in Slots \ {Entry} : NewDir[s] = dir[s]
  BY <1>2, <1>7, <1>9 DEF Directory
<1> QED BY <1>2, <1>8, <1>10 DEF Part, b, l

\* What else the entry points to was there before.
LEMMA OtherPointers ==
  ASSUME FsInv, CanWrite, NEW s \in Live(NewDir), NEW i \in 0..Pointers - 1,
         NewDir[s].ptr[i] # 0, s # Entry \/ i # Pointer
  PROVE  s \in Live(dir) /\ NewDir[s].ptr[i] = dir[s].ptr[i] /\ NewDir[s].ptr[i] # Target
<1>1. /\ Entry \in Slots /\ \A t \in Slots \ {Entry} : NewDir[t] = dir[t]
      /\ \A j \in 0..Pointers - 1 : j # Pointer => NewDir[Entry].ptr[j] = WithEntry[Entry].ptr[j]
      /\ s \in Slots
  BY NewDirIs DEF Live
<1>2. CASE s # Entry
  <2>1. s \in Live(dir) /\ NewDir[s] = dir[s]
    BY <1>1, <1>2 DEF Live
  <2> QED BY <1>2, <2>1, TargetRight
<1>3. CASE s = Entry /\ i # Pointer
  <2>1. NewDir[s].ptr[i] = WithEntry[Entry].ptr[i]
    BY <1>1, <1>3
  <2>2. ~NeedsEntry
    <3>1. NeedsEntry => WithEntry[Entry].ptr = NoEntry.ptr
      BY EntryRight DEF CanWrite
    <3> QED BY <2>1, <3>1 DEF NoEntry
  <2>3. WithEntry = dir /\ Entry \in FileExtents(dir, file.name) /\ file.name \in Names
    BY <2>2, EntryRight DEF CanWrite, FsInv, FsTyped, Writing, FileType
  <2>4. Entry \in Live(dir)
    BY <2>3, CpmFsSizes DEF FileExtents, Live
  <2> QED BY <1>3, <2>1, <2>3, <2>4, TargetRight
<1> QED BY <1>2, <1>3

\* The directory stays sound, and the allocation vector exact.
LEMMA NewDirSound ==
  ASSUME FsInv, CanWrite
  PROVE  /\ Sound(NewDir)
         /\ alv \cup {Target} = DirBlocks \cup UNION {Named(NewDir, s) : s \in Live(NewDir)}
<1>0. tool # "none" /\ file.name \in Names /\ Sound(dir)
      /\ alv = DirBlocks \cup UNION {Named(dir, s) : s \in Live(dir)}
  BY DEF FsInv, FsTyped, CanWrite, Writing, FileType, Copying, AlvExact
<1>1. /\ Entry \in Slots /\ \A t \in Slots \ {Entry} : NewDir[t] = dir[t]
      /\ NewDir[Entry].name = file.name /\ Part(NewDir[Entry]) = file.pos \div Phys
      /\ NewDir[Entry].ptr[Pointer] = Target
  BY NewDirIs
<1>2. Target # 0 /\ Pointer \in 0..Pointers - 1
  BY TargetRight, PieceRight DEF FsInv, FsTyped, CanWrite, Writing, FileType
<1>3. Entry \in Live(NewDir)
  BY <1>0, <1>1, CpmFsSizes DEF Live
<1>4. ASSUME NEW p \in PointersOf(NewDir), NEW q \in PointersOf(NewDir),
             NewDir[p[1]].ptr[p[2]] = NewDir[q[1]].ptr[q[2]]
      PROVE  p = q
  <2>1. /\ p = <<p[1], p[2]>> /\ q = <<q[1], q[2]>>
        /\ p[1] \in Live(NewDir) /\ q[1] \in Live(NewDir)
        /\ p[2] \in 0..Pointers - 1 /\ q[2] \in 0..Pointers - 1
        /\ NewDir[p[1]].ptr[p[2]] # 0 /\ NewDir[q[1]].ptr[q[2]] # 0
    BY DEF PointersOf, Live
  <2>2. CASE p[1] = Entry /\ p[2] = Pointer
    <3>1. q[1] = Entry /\ q[2] = Pointer
      BY <1>1, <1>4, <2>1, <2>2, OtherPointers
    <3> QED BY <2>1, <2>2, <3>1
  <2>3. CASE q[1] = Entry /\ q[2] = Pointer
    <3>1. p[1] = Entry /\ p[2] = Pointer
      BY <1>1, <1>4, <2>1, <2>3, OtherPointers
    <3> QED BY <2>1, <2>3, <3>1
  <2>4. CASE ~(p[1] = Entry /\ p[2] = Pointer) /\ ~(q[1] = Entry /\ q[2] = Pointer)
    <3>1. /\ p[1] \in Live(dir) /\ NewDir[p[1]].ptr[p[2]] = dir[p[1]].ptr[p[2]]
          /\ q[1] \in Live(dir) /\ NewDir[q[1]].ptr[q[2]] = dir[q[1]].ptr[q[2]]
      BY <2>1, <2>4, OtherPointers
    <3>2. dir[p[1]].ptr[p[2]] # 0 /\ dir[p[1]].ptr[p[2]] = dir[q[1]].ptr[q[2]]
      BY <1>4, <2>1, <3>1
    <3>3. p[1] = q[1] /\ p[2] = q[2]
      BY <1>0, <2>1, <3>1, <3>2, BlocksApart
    <3> QED BY <2>1, <3>3
  <2> QED BY <2>2, <2>3, <2>4
<1>5. ASSUME NEW s \in Live(NewDir), s # Entry
      PROVE  /\ s \in Live(dir) /\ NewDir[s] = dir[s]
             /\ ~(NewDir[s].name = file.name /\ Part(NewDir[s]) = file.pos \div Phys)
  <2>1. s \in Live(dir) /\ NewDir[s] = dir[s]
    BY <1>1, <1>5 DEF Live
  <2>2. \A t \in FileExtents(dir, file.name) : Part(dir[t]) = file.pos \div Phys <=> t = Entry
    BY EntryRight DEF CanWrite
  <2> QED BY <1>5, <2>1, <2>2 DEF FileExtents, Live
<1>6. ASSUME NEW s \in Live(NewDir), NEW t \in Live(NewDir),
             NewDir[s].name = NewDir[t].name, Part(NewDir[s]) = Part(NewDir[t])
      PROVE  s = t
  <2>1. CASE s = Entry \/ t = Entry
    BY <1>1, <1>5, <1>6, <2>1
  <2>2. CASE s # Entry /\ t # Entry
    BY <1>0, <1>5, <1>6, <2>2 DEF Sound
  <2> QED BY <2>1, <2>2
<1>7. Sound(NewDir)
  BY <1>4, <1>6 DEF Sound, Apart
<1>8. ASSUME NEW x \in alv \cup {Target}, x \notin DirBlocks
      PROVE  \E s \in Live(NewDir) : x \in Named(NewDir, s)
  <2>1. CASE x = Target
    BY <1>1, <1>2, <1>3, <2>1 DEF Named
  <2>2. CASE x # Target
    <3>1. PICK s \in Live(dir) : x \in Named(dir, s)
      BY <1>0, <1>8, <2>2
    <3>2. PICK i \in 0..Pointers - 1 : x = dir[s].ptr[i] /\ x # 0
      BY <3>1 DEF Named
    <3>3. CASE s # Entry
      <4>1. s \in Live(NewDir) /\ NewDir[s] = dir[s]
        BY <1>1, <3>3 DEF Live
      <4> QED BY <3>2, <4>1 DEF Named
    <3>4. CASE s = Entry
      <4>1. ~NeedsEntry
        <5>1. NeedsEntry => dir[Entry].name = Free
          BY EntryRight DEF CanWrite
        <5> QED BY <3>4, <5>1 DEF Live
      <4>2. WithEntry = dir
        BY <4>1, EntryRight DEF CanWrite
      <4>3. i # Pointer
        <5> SUFFICES ASSUME i = Pointer PROVE FALSE
          OBVIOUS
        <5>1. HasBlock
          BY <3>2, <3>4, <4>2 DEF HasBlock
        <5> QED BY <2>2, <3>2, <3>4, <5>1, TargetRight
      <4>4. NewDir[Entry].ptr[i] = x
        BY <3>2, <3>4, <4>2, <4>3, NewDirIs
      <4> QED BY <1>3, <3>2, <4>4 DEF Named
    <3> QED BY <3>3, <3>4
  <2> QED BY <2>1, <2>2
<1>9. ASSUME NEW s \in Live(NewDir), NEW x \in Named(NewDir, s)
      PROVE  x \in alv \cup {Target}
  <2>1. PICK i \in 0..Pointers - 1 : x = NewDir[s].ptr[i] /\ x # 0
    BY DEF Named
  <2>2. CASE s = Entry /\ i = Pointer
    BY <1>1, <2>1, <2>2
  <2>3. CASE s # Entry \/ i # Pointer
    <3>1. s \in Live(dir) /\ x = dir[s].ptr[i]
      BY <2>1, <2>3, OtherPointers
    <3> QED BY <1>0, <2>1, <3>1, NamedTaken
  <2> QED BY <2>2, <2>3
<1>10. alv \cup {Target} = DirBlocks \cup UNION {Named(NewDir, s) : s \in Live(NewDir)}
  <2>1. DirBlocks \subseteq alv
    BY <1>0
  <2> QED BY <1>8, <1>9, <2>1
<1> QED BY <1>7, <1>10

\* The entries are again what they have to be.
LEMMA NewEntriesRight ==
  ASSUME FsInv, CanWrite
  PROVE  LET pos == file.pos + Piece
         IN  /\ Parts(NewDir, file.name, pos)
             /\ LastEntry(NewDir, file.name, pos, EntryNumber)
             /\ NumberRight(pos, EntryNumber)
<1> DEFINE k == file.pos \div Phys
           n == file.name
           pos == file.pos + Piece
<1>1. /\ file.pos \in Nat /\ file.count \in Nat \ {0} /\ n \in Names /\ dir \in Directory
      /\ Parts(dir, n, file.pos) /\ Writing /\ ~(NeedsEntry /\ DirectoryFull(dir))
  BY DEF FsInv, FsTyped, CanWrite, Writing, FileType, FileRight
<1>2. /\ Pointer \in 0..Pointers - 1 /\ k \in Nat /\ Piece \in 1..file.count /\ InBlock \in Nat
      /\ file.pos = k * Phys + Pointer * Blk + InBlock
      /\ k * Phys \in Nat /\ Pointer * Blk \in Nat
      /\ pos <= (k + 1) * Phys /\ (pos - 1) \div Phys = k
  BY <1>1, PieceRight DEF Offsets
<1>3. /\ NewDir \in Directory /\ Entry \in Slots /\ \A s \in Slots \ {Entry} : NewDir[s] = dir[s]
      /\ NewDir[Entry].name = n /\ NewDir[Entry].ext = EntryNumber /\ Part(NewDir[Entry]) = k
      /\ NewDir[Entry].blkcnt = (((pos - 1) % Lx) \div Rec) + 1 /\ NewDir[Entry].lrc = pos % Rec
      /\ NewDir[Entry].ptr[Pointer] = Target
      /\ \A i \in 0..Pointers - 1 : i # Pointer => NewDir[Entry].ptr[i] = WithEntry[Entry].ptr[i]
  BY NewDirIs
<1>4. /\ \A s \in FileExtents(dir, n) : Part(dir[s]) = k <=> s = Entry
      /\ NeedsEntry => dir[Entry].name = Free
      /\ ~NeedsEntry => Entry \in FileExtents(dir, n)
      /\ \A i \in 0..Pointers - 1 :
            WithEntry[Entry].ptr[i] # 0 <=> k * Phys + i * Blk < file.pos
      /\ EntryNumber \in Nat /\ EntryNumber \div Extents = k
      /\ EntryNumber * Lx <= file.pos /\ file.pos + file.count <= (EntryNumber + 2) * Lx
  BY <1>1, EntryRight
<1>5. Target # 0
  BY TargetRight
<1>6. pos \in Nat \ {0} /\ file.pos < pos /\ pos <= file.pos + file.count
  BY <1>1, <1>2
<1>7. ASSUME NEW j \in Nat, NEW i \in 0..Pointers - 1, j # k \/ i # Pointer
      PROVE  j * Phys + i * Blk < pos <=> j * Phys + i * Blk < file.pos
  <2>1. 0 \in Offsets /\ j * Phys + i * Blk \in Nat
    BY Sizes DEF Offsets
  <2>2. j * Phys + i * Blk + 0 < pos <=> j * Phys + i * Blk + 0 < file.pos
    BY <1>1, <1>7, <2>1, PieceApart, Zenon
  <2>3. j * Phys + i * Blk + 0 = j * Phys + i * Blk
    BY <2>1
  <2> QED BY <2>2, <2>3, Zenon
<1>8. ASSUME NEW j \in Nat, j # k PROVE j * Phys < pos <=> j * Phys < file.pos
  <2>1. 0 \in 0..Pointers - 1 /\ j * Phys \in Nat /\ 0 * Blk = 0
    BY Sizes
  <2>2. j * Phys + 0 * Blk < pos <=> j * Phys + 0 * Blk < file.pos
    BY <1>7, <1>8, <2>1, Zenon
  <2>3. j * Phys + 0 * Blk = j * Phys
    BY <2>1
  <2> QED BY <2>2, <2>3, Zenon
<1>9. k * Phys < pos /\ k * Phys + Pointer * Blk < pos
  <2> HIDE DEF k, pos
  <2> QED BY <1>1, <1>2, <1>6
<1>10. ASSUME NEW s \in FileExtents(NewDir, n), s # Entry
       PROVE  /\ s \in FileExtents(dir, n) /\ NewDir[s] = dir[s] /\ Part(dir[s]) # k
              /\ Part(dir[s]) \in Nat
  <2>1. s \in FileExtents(dir, n) /\ NewDir[s] = dir[s] /\ s \in Slots
    BY <1>3, <1>10 DEF FileExtents
  <2> QED BY <1>1, <1>4, <1>10, <2>1, EntryIs
<1> HIDE DEF k, pos, n
<1>11. Parts(NewDir, n, pos)
  <2>1. ASSUME NEW s \in FileExtents(NewDir, n)
        PROVE  /\ Part(NewDir[s]) = 0 \/ Part(NewDir[s]) * Phys < pos
               /\ \A i \in 0..Pointers - 1 :
                     NewDir[s].ptr[i] # 0 <=> Part(NewDir[s]) * Phys + i * Blk < pos
    <3>1. CASE s = Entry
      <4>1. ASSUME NEW i \in 0..Pointers - 1
            PROVE  NewDir[Entry].ptr[i] # 0 <=> k * Phys + i * Blk < pos
        <5>1. CASE i = Pointer
          BY <1>3, <1>5, <1>9, <5>1
        <5>2. CASE i # Pointer
          BY <1>2, <1>3, <1>4, <1>7, <5>2
        <5> QED BY <5>1, <5>2
      <4> QED BY <1>3, <1>9, <3>1, <4>1
    <3>2. CASE s # Entry
      <4> DEFINE j == Part(dir[s])
      <4>1. /\ s \in FileExtents(dir, n) /\ NewDir[s] = dir[s] /\ j # k /\ j \in Nat
        BY <1>10, <3>2
      <4>2. /\ j = 0 \/ j * Phys < file.pos
            /\ \A i \in 0..Pointers - 1 : dir[s].ptr[i] # 0 <=> j * Phys + i * Blk < file.pos
        BY <1>1, <4>1 DEF Parts, n
      <4>3. Part(NewDir[s]) = j
        BY <4>1
      <4> HIDE DEF j
      <4>4. j = 0 \/ j * Phys < pos
        BY <1>8, <4>1, <4>2
      <4>5. \A i \in 0..Pointers - 1 : NewDir[s].ptr[i] # 0 <=> j * Phys + i * Blk < pos
        BY <1>7, <4>1, <4>2
      <4> QED BY <4>3, <4>4, <4>5
    <3> QED BY <3>1, <3>2
  <2>2. ASSUME NEW j \in Nat, j = 0 \/ j * Phys < pos
        PROVE  \E s \in FileExtents(NewDir, n) : Part(NewDir[s]) = j
    <3>1. CASE j = k
      BY <1>3, <3>1 DEF FileExtents
    <3>2. CASE j # k
      <4>1. j = 0 \/ j * Phys < file.pos
        BY <1>8, <2>2, <3>2
      <4>2. PICK s \in FileExtents(dir, n) : Part(dir[s]) = j
        BY <1>1, <4>1 DEF Parts, n
      <4>3. s # Entry /\ s \in Slots
        BY <1>4, <3>2, <4>2 DEF FileExtents, n
      <4>4. s \in FileExtents(NewDir, n) /\ NewDir[s] = dir[s]
        BY <1>3, <4>2, <4>3 DEF FileExtents
      <4> QED BY <4>2, <4>4
    <3> QED BY <3>1, <3>2
  <2> QED BY <2>1, <2>2 DEF Parts
<1>12. LastEntry(NewDir, n, pos, EntryNumber)
  <2> SUFFICES ASSUME NEW s \in FileExtents(NewDir, n), pos <= (Part(NewDir[s]) + 1) * Phys
               PROVE  /\ NewDir[s].ext = EntryNumber
                      /\ NewDir[s].blkcnt = (((pos - 1) % Lx) \div Rec) + 1
                      /\ NewDir[s].lrc = pos % Rec
    BY <1>6 DEF LastEntry
  <2>1. CASE s = Entry
    BY <1>3, <2>1
  <2>2. CASE s # Entry
    <3> DEFINE j == Part(dir[s])
    <3>1. /\ s \in FileExtents(dir, n) /\ NewDir[s] = dir[s] /\ j # k /\ j \in Nat
      BY <1>10, <2>2
    <3>2. j = 0 \/ j * Phys < file.pos
      BY <1>1, <3>1 DEF Parts, n
    <3>3. pos <= (j + 1) * Phys
      BY <3>1
    <3> HIDE DEF j
    <3>4. Phys \in Nat \ {0}
      BY Sizes
    <3>5. j < k
      <4> SUFFICES ASSUME k + 1 <= j PROVE FALSE
        BY <1>2, <3>1
      <4>1. (k + 1) * Phys <= j * Phys /\ j * Phys \in Int /\ (k + 1) * Phys \in Int
        BY <1>2, <3>1, <3>4, TimesLeq
      <4> QED BY <1>1, <1>2, <1>6, <3>1, <3>2, <4>1
    <3>6. (j + 1) * Phys <= k * Phys /\ (j + 1) * Phys \in Int
      BY <1>2, <3>1, <3>4, <3>5, TimesLeq
    <3>7. FALSE
      BY <1>2, <1>6, <1>9, <3>3, <3>6
    <3> QED BY <3>7
  <2> QED BY <2>1, <2>2
<1>13. NumberRight(pos, EntryNumber)
  <2>1. EntryNumber * Lx \in Nat /\ (EntryNumber + 2) * Lx \in Nat
    <3>1. Lx \in Nat /\ EntryNumber \in Nat
      BY <1>4, Sizes
    <3> DEFINE e == EntryNumber
    <3>2. e \in Nat
      BY <3>1
    <3> HIDE DEF e
    <3>3. e * Lx \in Nat /\ (e + 2) * Lx \in Nat
      BY <3>1, <3>2
    <3> QED BY <3>3 DEF e
  <2>2. EntryNumber * Lx < pos /\ pos <= (EntryNumber + 2) * Lx
    BY <1>1, <1>4, <1>6, <2>1
  <2> QED BY <1>2, <1>4, <2>2 DEF NumberRight
<1> QED BY <1>11, <1>12, <1>13 DEF n, pos

\* What has been written is the file's own, wherever its entries say it ends.
LEMMA WrittenIsOwn ==
  ASSUME NEW d \in Directory, NEW data, NEW n \in Names, NEW pos \in Nat, NEW number, Sound(d),
         Parts(d, n, pos), LastEntry(d, n, pos, number), NumberRight(pos, number),
         Written(d, data, n, pos)
  PROVE  OwnFile(d, data, n)
<1> DEFINE F == FileExtents(d, n)
<1> SUFFICES ASSUME NEW s \in F, NEW i \in 0..Pointers - 1, NEW o \in Offsets, d[s].ptr[i] # 0,
                    \/ Place(d[s], i, o) < EndOf(d[s])
                    \/ \E t \in F : d[t].ext > d[s].ext
             PROVE  Place(d[s], i, o) < pos
  BY DEF OwnFile, Written
<1> DEFINE j == Part(d[s])
           p == Place(d[s], i, o)
<1>1. s \in Slots /\ j \in Nat /\ d[s].ext \in Nat
  BY EntryIs DEF FileExtents
<1>2. p \in Nat /\ p < (j + 1) * Phys /\ j * Phys \in Nat /\ i * Blk \in Nat
  BY <1>1, PlaceIs DEF Place
<1>3. j * Phys + i * Blk < pos
  BY DEF Parts
<1> HIDE DEF p
<1>4. CASE \E t \in F : d[t].ext > d[s].ext
  <2>1. PICK t \in F : d[t].ext > d[s].ext
    BY <1>4
  <2> DEFINE u == Part(d[t])
  <2>2. u \in Nat /\ d[t].ext \in Nat /\ t \in Slots
    BY EntryIs DEF FileExtents
  <2>3. u # j
    <3>1. s # t
      BY <1>1, <2>1
    <3>2. s \in Live(d) /\ t \in Live(d) /\ d[s].name = d[t].name
      BY <1>1, <2>2, CpmFsSizes DEF FileExtents, Live
    <3> QED BY <3>1, <3>2 DEF Sound
  <2>4. ~(j > u)
    <3>1. Extents \in Nat \ {0}
      BY Sizes
    <3>2. j > u => d[s].ext > d[t].ext
      BY <1>1, <2>2, <3>1, DivideLeq DEF Part
    <3> QED BY <1>1, <2>1, <2>2, <3>2
  <2>5. u = 0 \/ u * Phys < pos
    BY DEF Parts
  <2> HIDE DEF u, j
  <2>6. j + 1 <= u
    BY <1>1, <2>2, <2>3, <2>4
  <2>7. (j + 1) * Phys <= u * Phys /\ u * Phys \in Int /\ (j + 1) * Phys \in Int
    BY <1>1, <2>2, <2>6, Sizes, TimesLeq
  <2>8. u # 0
    BY <1>1, <2>2, <2>6
  <2>9. p < pos
    BY <1>2, <2>5, <2>7, <2>8
  <2> QED BY <2>9 DEF p
<1>5. CASE ~\E t \in F : d[t].ext > d[s].ext
  <2> DEFINE h == Highest(d, n)
  <2>1. h \in F /\ d[s].ext <= d[h].ext
    BY HighestIn
  <2>2. h \in Slots /\ d[h].ext \in Nat
    BY <2>1, EntryIs DEF FileExtents
  <2>3. d[h].ext = d[s].ext
    BY <1>1, <1>5, <2>1, <2>2
  <2>4. h = s
    <3>1. s \in Live(d) /\ h \in Live(d) /\ d[s].name = d[h].name
      BY <1>1, <2>1, <2>2, CpmFsSizes DEF FileExtents, Live
    <3> QED BY <2>3, <3>1 DEF Sound, Part
  <2>5. pos # 0
    BY <1>1, <1>2, <1>3
  <2>6. EndOf(d[s]) \in Nat /\ (EndOf(d[s]) = pos \/ EndOf(d[s]) = pos - Lx)
    BY <2>4, <2>5, LengthIs
  <2>7. p < EndOf(d[s])
    BY <1>5 DEF p
  <2>8. Lx \in Nat
    BY Sizes
  <2>9. p < pos
    BY <1>2, <2>6, <2>7, <2>8
  <2> QED BY <2>9 DEF p
<1> QED BY <1>4, <1>5 DEF p

\* A sector that begins at or after another position in it, but before it.
LEMMA SameSector ==
  ASSUME NEW n \in Nat \ {0}, NEW a \in Nat, NEW b \in Nat, a < b, b \div n <= a \div n
  PROVE  a \div n = b \div n /\ b % n # 0
<1> DEFINE x == a \div n
           y == b \div n
           m == b % n
<1>1. a = n * x + (a % n) /\ a % n \in 0..(n - 1) /\ x \in Nat
  BY Division
<1>2. b = n * y + m /\ m \in 0..(n - 1) /\ y \in Nat
  BY Division
<1>3. ~(x > y)
  BY DivideLeq
<1> HIDE DEF x, y, m
<1>4. x = y
  BY <1>1, <1>2, <1>3 DEF x, y
<1>5. m # 0
  BY <1>1, <1>2, <1>4
<1> QED BY <1>4, <1>5 DEF x, y, m

\* A remainder by a multiple.
LEMMA SameRemainder ==
  ASSUME NEW n \in Nat \ {0}, NEW b \in Nat \ {0}, b % n = 0, NEW p \in Nat
  PROVE  (p % b) % n = p % n
<1> DEFINE w == b \div n
           c == p \div b
           r == p % b
           y == r \div n
           m == r % n
           v == w * c + y
<1>1. b = n * w /\ w \in Nat
  BY Multiple
<1>2. p = b * c + r /\ c \in Nat /\ r \in 0..(b - 1)
  BY Division
<1> HIDE DEF w, c, r
<1>3. r = n * y + m /\ m \in 0..(n - 1) /\ y \in Nat
  <2>1. r \in Nat
    BY <1>2
  <2> QED BY <2>1, Division
<1> HIDE DEF y, m
<1>4. w * c \in Nat /\ b * c = n * (w * c)
  BY <1>1, <1>2
<1>5. n * (w * c + y) = n * (w * c) + n * y /\ n * y \in Nat /\ n * (w * c) \in Nat
  BY <1>3, <1>4
<1>6. p = n * v + m /\ v \in Nat
  BY <1>2, <1>3, <1>4, <1>5
<1> HIDE DEF v
<1>7. p \div n = v /\ p % n = m
  BY <1>3, <1>6, DivisionIs
<1> QED BY <1>7 DEF m, r

\* Only the end of a block, beyond what has been written, may become undefined.
LEMMA KeptBefore ==
  ASSUME file.pos \in Nat, file.count \in Nat \ {0}, NEW o \in Offsets, o < InBlock
  PROVE  (o \div Sec) \in FirstSector..LastSector => (o \div Sec) \in ReadBefore
<1>1. /\ Blk \in Nat \ {0} /\ Sec \in Nat \ {0} /\ Blk % Sec = 0 /\ o \in Nat /\ InBlock \in Offsets
  BY Sizes, PieceRight DEF Offsets
<1> SUFFICES ASSUME (o \div Sec) \in FirstSector..LastSector PROVE (o \div Sec) \in ReadBefore
  OBVIOUS
<1>2. InBlock \in Nat /\ file.pos % Sec = InBlock % Sec
  <2>1. InBlock \in Nat
    BY <1>1 DEF Offsets
  <2>2. (file.pos % Blk) % Sec = file.pos % Sec
    BY <1>1, SameRemainder
  <2> QED BY <2>1, <2>2 DEF InBlock
<1>3. InBlock \div Sec <= o \div Sec
  <2>1. InBlock \div Sec \in Nat /\ o \div Sec \in Nat
    <3>1. InBlock \in Nat /\ o \in Nat /\ Sec \in Nat \ {0}
      BY <1>1, <1>2
    <3> QED BY <3>1, Division
  <2> QED BY <2>1 DEF FirstSector
<1>4. o \div Sec = InBlock \div Sec /\ InBlock % Sec # 0
  BY <1>1, <1>2, <1>3, SameSector
<1> QED BY <1>2, <1>4 DEF ReadBefore, FirstSector

\* What writeBlock leaves is data, and the file's own up to the end of the piece.
LEMMA NewDataRight ==
  ASSUME FsInv, CanWrite
  PROVE  /\ NewData(image.data[Target]) \in [Offsets -> Cells]
         /\ ~lost => \A o \in Offsets :
               LET p == (file.pos \div Phys) * Phys + Pointer * Blk + o
               IN  p < file.pos + Piece
                     => NewData(image.data[Target])[o] = <<file.name, p>>
<1> DEFINE k == file.pos \div Phys
           old == image.data[Target]
           new == NewData(old)
<1>1. /\ file.pos \in Nat /\ file.count \in Nat \ {0} /\ file.name \in Names /\ dir \in Directory
      /\ image.data \in [Blocks -> [Offsets -> Cells]]
      /\ ~lost => Written(dir, image.data, file.name, file.pos)
      /\ Writing /\ ~(NeedsEntry /\ DirectoryFull(dir))
  BY DEF FsInv, FsTyped, CanWrite, Writing, FileType, FileRight
<1>2. /\ Pointer \in 0..Pointers - 1 /\ k \in Nat /\ Piece \in 1..file.count /\ InBlock \in Offsets
      /\ file.pos = k * Phys + Pointer * Blk + InBlock
      /\ k * Phys \in Nat /\ Pointer * Blk \in Nat /\ Offsets \subseteq Nat
  BY <1>1, PieceRight DEF Offsets
<1>3. /\ Target \in DataBlocks /\ (HasBlock <=> InBlock # 0)
      /\ HasBlock => /\ WithEntry = dir /\ ~NeedsEntry
                     /\ Target = dir[Entry].ptr[Pointer]
  BY TargetRight
<1>4. old \in [Offsets -> Cells]
  BY <1>1, <1>3 DEF DataBlocks
<1>5. new \in [Offsets -> Cells]
  <2> SUFFICES ASSUME NEW o \in Offsets PROVE new[o] \in Cells
    BY DEF NewData
  <2>1. CASE o \in InBlock .. InBlock + Piece - 1
    <3>1. file.pos - InBlock + o \in Nat
      BY <1>2
    <3>2. new[o] = <<file.name, file.pos - InBlock + o>>
      BY <2>1 DEF NewData
    <3> QED BY <1>1, <3>1, <3>2 DEF Cells
  <2>2. CASE o \notin InBlock .. InBlock + Piece - 1
    <3>1. new[o] \in {Zero, Junk, old[o]}
      BY <2>2 DEF NewData
    <3> QED BY <1>4, <3>1 DEF Cells
  <2> QED BY <2>1, <2>2
<1> HIDE DEF k
<1>6. ASSUME ~lost, NEW o \in Offsets, k * Phys + Pointer * Blk + o < file.pos + Piece
      PROVE  new[o] = <<file.name, k * Phys + Pointer * Blk + o>>
  <2> DEFINE p == k * Phys + Pointer * Blk + o
  <2>1. o < InBlock + Piece /\ o \in Nat /\ p \in Nat /\ file.pos - InBlock + o = p
    BY <1>2, <1>6
  <2>2. CASE o >= InBlock
    <3>1. o \in InBlock .. InBlock + Piece - 1
      BY <1>2, <2>1, <2>2
    <3>2. new[o] = <<file.name, file.pos - InBlock + o>>
      BY <3>1 DEF NewData
    <3> QED BY <2>1, <3>2
  <2>3. CASE o < InBlock
    <3>1. o \notin InBlock .. InBlock + Piece - 1 /\ HasBlock
      BY <1>2, <1>3, <2>1, <2>3
    <3>2. new[o] = old[o]
      BY <1>1, <2>3, <3>1, KeptBefore DEF NewData
    <3>3. Entry \in FileExtents(dir, file.name) /\ Part(dir[Entry]) = k
      BY <1>1, <1>3, <3>1, EntryRight DEF k
    <3>4. Place(dir[Entry], Pointer, o) = p
      BY <3>3 DEF Place
    <3>5. p < file.pos
      BY <1>2, <2>1, <2>3
    <3>6. image.data[dir[Entry].ptr[Pointer]][o] = <<file.name, p>>
      <4> HIDE DEF p
      <4> QED BY <1>1, <1>2, <1>6, <3>3, <3>4, <3>5 DEF Written
    <3> QED BY <1>3, <3>1, <3>2, <3>6
  <2> QED BY <1>2, <2>1, <2>2, <2>3
<1> QED BY <1>5, <1>6 DEF k

\* The file is there, up to the end of the piece.
LEMMA NewWritten ==
  ASSUME FsInv, CanWrite, ~lost, NEW data,
         \A b \in DataBlocks : data[b] = IF b = Target THEN NewData(image.data[Target])
                                         ELSE image.data[b]
  PROVE  Written(NewDir, data, file.name, file.pos + Piece)
<1> DEFINE k == file.pos \div Phys
           n == file.name
           pos == file.pos + Piece
<1>1. /\ file.pos \in Nat /\ file.count \in Nat \ {0} /\ n \in Names /\ dir \in Directory
      /\ Written(dir, image.data, n, file.pos) /\ Parts(dir, n, file.pos)
      /\ Writing /\ ~(NeedsEntry /\ DirectoryFull(dir))
  BY DEF FsInv, FsTyped, CanWrite, Writing, FileType, FileRight
<1>2. /\ NewDir \in Directory /\ Entry \in Slots /\ \A s \in Slots \ {Entry} : NewDir[s] = dir[s]
      /\ NewDir[Entry].name = n /\ Part(NewDir[Entry]) = k
      /\ NewDir[Entry].ptr[Pointer] = Target
  BY NewDirIs
<1>3. Parts(NewDir, n, pos) /\ Target \in DataBlocks
  BY NewEntriesRight, TargetRight
<1> SUFFICES ASSUME NEW s \in FileExtents(NewDir, n), NEW i \in 0..Pointers - 1, NEW o \in Offsets,
                    Place(NewDir[s], i, o) < pos
             PROVE  data[NewDir[s].ptr[i]][o] = <<n, Place(NewDir[s], i, o)>>
  BY DEF Written
<1> DEFINE j == Part(NewDir[s])
           p == Place(NewDir[s], i, o)
<1>4. s \in Slots /\ j \in Nat /\ p = j * Phys + i * Blk + o
  BY <1>2, EntryIs DEF FileExtents, Place
<1>5. CASE s = Entry /\ i = Pointer
  <2>1. p = k * Phys + Pointer * Blk + o
    BY <1>2, <1>5 DEF Place
  <2>2. NewData(image.data[Target])[o] = <<n, p>>
    BY <2>1, NewDataRight
  <2> QED BY <1>2, <1>3, <1>5, <2>2
<1>6. CASE s # Entry \/ i # Pointer
  <2>1. j # k \/ i # Pointer
    <3> SUFFICES ASSUME s # Entry, j = k PROVE FALSE
      BY <1>6
    <3>1. s \in FileExtents(dir, n) /\ Part(dir[s]) = k
      BY <1>2, <1>4 DEF FileExtents
    <3>2. \A t \in FileExtents(dir, n) : Part(dir[t]) = k <=> t = Entry
      BY <1>1, EntryRight
    <3> QED BY <3>1, <3>2
  <2>2. p < file.pos
    <3> HIDE DEF j, k
    <3>1. j * Phys + i * Blk + o < file.pos
      <4>1. j # file.pos \div Phys \/ i # Pointer
        BY <2>1 DEF k
      <4>2. j * Phys + i * Blk + o < file.pos + Piece
        BY <1>4
      <4> QED BY <1>1, <1>4, <4>1, <4>2, PieceApart
    <3> QED BY <1>4, <3>1
  <2>3. j * Phys + i * Blk < pos
    <3> HIDE DEF j
    <3>1. p \in Nat /\ j * Phys \in Nat /\ i * Blk \in Nat /\ o \in Nat
      BY <1>4, PlaceIs DEF Offsets
    <3>2. p < pos
      OBVIOUS
    <3>3. Piece \in Nat
      BY <1>1, PieceRight
    <3> HIDE DEF p
    <3> QED BY <1>1, <1>4, <3>1, <3>2, <3>3
  <2>4. NewDir[s].ptr[i] # 0
    BY <1>3, <2>3 DEF Parts
  <2>5. s \in Live(NewDir)
    BY <1>1, <1>4, CpmFsSizes DEF FileExtents, Live
  <2>6. s \in Live(dir) /\ NewDir[s].ptr[i] = dir[s].ptr[i] /\ NewDir[s].ptr[i] # Target
    BY <1>6, <2>4, <2>5, OtherPointers
  <2>7. s \in FileExtents(dir, n) /\ Part(dir[s]) = j
    <3>1. CASE s # Entry
      BY <1>2, <1>4, <3>1 DEF FileExtents
    <3>2. CASE s = Entry
      <4>1. ~NeedsEntry
        <5>1. NeedsEntry => dir[Entry].name = Free
          BY <1>1, EntryRight
        <5> QED BY <2>6, <3>2, <5>1 DEF Live
      <4>2. Entry \in FileExtents(dir, n) /\ Part(dir[Entry]) = k
        BY <1>1, <4>1, EntryRight
      <4> QED BY <1>2, <3>2, <4>2
    <3> QED BY <3>1, <3>2
  <2>8. NewDir[s].ptr[i] \in DataBlocks
    BY <1>2, <1>4, <2>4, EntryIs
  <2>9. Place(dir[s], i, o) = p
    BY <2>7 DEF Place
  <2>10. image.data[dir[s].ptr[i]][o] = <<n, p>>
    BY <1>1, <2>2, <2>7, <2>9 DEF Written
  <2> QED BY <2>6, <2>8, <2>10
<1> QED BY <1>5, <1>6
------------------------------------------------------------------------------
(* cpmWrite keeps the invariant.                                            *)

\* What FsInv says while a piece can be written.
LEMMA WhileWriting ==
  ASSUME FsInv, Writing
  PROVE  /\ image.dir \in Directory /\ dir \in Directory /\ alv \subseteq Blocks
         /\ image.data \in [Blocks -> [Offsets -> Cells]]
         /\ file \in FileType /\ FileRight(file) /\ file.pos \in Nat /\ file.count \in Nat \ {0}
         /\ file.name \in Names /\ file.name \in touched /\ touched \subseteq Names
         /\ Copying /\ tool # "none" /\ sync = -1 /\ tool \notin {"rm", "attr"}
  BY DEF FsInv, FsTyped, FsControl, Writing, FileType, Copying

\* Other files of the directory in memory are what they were.
LEMMA PieceFrame ==
  ASSUME FsInv, CanWrite, NEW n \in Names, n # file.name, NEW data,
         \A b \in DataBlocks : b # Target => data[b] = image.data[b]
  PROVE  /\ FileExtents(dir, n) = FileExtents(NewDir, n)
         /\ Contents(NewDir, data, n) = Contents(dir, image.data, n)
         /\ OwnFile(dir, image.data, n) => OwnFile(NewDir, data, n)
<1>1. /\ dir \in Directory /\ file.name \in Names /\ tool # "none" /\ n # Free
      /\ Writing /\ ~(NeedsEntry /\ DirectoryFull(dir))
  BY WhileWriting, CpmFsSizes DEF CanWrite
<1>2. /\ NewDir \in Directory /\ \A s \in Slots \ {Entry} : NewDir[s] = dir[s]
      /\ NewDir[Entry].name = file.name
  BY NewDirIs
<1>3. dir[Entry].name # n
  <2>1. NeedsEntry => dir[Entry].name = Free
    BY <1>1, EntryRight
  <2>2. ~NeedsEntry => Entry \in FileExtents(dir, file.name)
    BY <1>1, EntryRight
  <2> QED BY <1>1, <2>1, <2>2 DEF FileExtents
<1>4. ASSUME NEW s \in Slots, dir[s].name = n \/ NewDir[s].name = n PROVE dir[s] = NewDir[s]
  BY <1>2, <1>3, <1>4
<1>5. ASSUME NEW s \in FileExtents(dir, n), NEW i \in 0..Pointers - 1, dir[s].ptr[i] # 0
      PROVE  image.data[dir[s].ptr[i]] = data[dir[s].ptr[i]]
  <2>1. s \in Slots /\ s # Entry /\ s \in Live(dir)
    BY <1>1, <1>3 DEF FileExtents, Live
  <2>2. dir[s].ptr[i] # Target
    BY <2>1, TargetRight
  <2>3. dir[s].ptr[i] \in DataBlocks
    BY <1>1, <1>5, <2>1, EntryIs
  <2> QED BY <2>2, <2>3
<1>6. \A s \in Slots : dir[s].name = n \/ NewDir[s].name = n => dir[s] = NewDir[s]
  BY <1>4
<1>7. \A s \in FileExtents(dir, n), i \in 0..Pointers - 1 :
         dir[s].ptr[i] # 0 => image.data[dir[s].ptr[i]] = data[dir[s].ptr[i]]
  BY <1>5
<1> DEFINE old == image.data
<1> HIDE DEF old
<1>8. /\ FileExtents(dir, n) = FileExtents(NewDir, n)
      /\ Contents(dir, old, n) = Contents(NewDir, data, n)
      /\ OwnFile(dir, old, n) => OwnFile(NewDir, data, n)
  BY <1>1, <1>2, <1>6, <1>7, SameContents DEF old
<1> QED BY <1>8 DEF old

\* Nor does any file change on the image: its directory still has no entry of the file
\* that is being written.
LEMMA ImageFrame ==
  ASSUME FsInv, CanWrite, NEW n \in Names, NEW data,
         \A b \in DataBlocks : b # Target => data[b] = image.data[b]
  PROVE  /\ Contents(image.dir, data, n) = OnImage(n)
         /\ OwnFile(image.dir, image.data, n) => OwnFile(image.dir, data, n)
<1>1. /\ dir \in Directory /\ image.dir \in Directory /\ file.name \in touched /\ n # Free
      /\ Copying /\ sync = -1 /\ tool # "none"
      /\ Writing /\ ~(NeedsEntry /\ DirectoryFull(dir))
  BY WhileWriting, CpmFsSizes DEF CanWrite
<1>2. ASSUME NEW s \in FileExtents(image.dir, n), NEW i \in 0..Pointers - 1,
             image.dir[s].ptr[i] # 0
      PROVE  image.data[image.dir[s].ptr[i]] = data[image.dir[s].ptr[i]]
  <2>1. s \in Slots /\ s \in Live(image.dir) /\ image.dir[s].name \notin touched
    BY <1>1 DEF FsInv, Kin, FileExtents, Live
  <2>2. image.dir[s] = dir[s] /\ s \in Live(dir)
    BY <1>1, <2>1 DEF FsInv, Steady, Live
  <2>3. ASSUME HasBlock, s = Entry PROVE FALSE
    <3>1. Entry \in FileExtents(dir, file.name)
      BY <1>1, <2>3, TargetRight, EntryRight
    <3> QED BY <1>1, <2>1, <2>2, <2>3, <3>1 DEF FileExtents
  <2>4. dir[s].ptr[i] # Target
    BY <2>2, <2>3, TargetRight
  <2>5. image.dir[s].ptr[i] \in DataBlocks
    BY <1>1, <1>2, <2>1, EntryIs
  <2> QED BY <2>2, <2>4, <2>5
<1> DEFINE old == image.data
           d == image.dir
<1>3. \A s \in FileExtents(d, n), i \in 0..Pointers - 1 :
         d[s].ptr[i] # 0 => old[d[s].ptr[i]] = data[d[s].ptr[i]]
  BY <1>2
<1>4. d \in Directory
  BY <1>1
<1> HIDE DEF old, d
<1>5. /\ Contents(d, old, n) = Contents(d, data, n)
      /\ OwnFile(d, old, n) => OwnFile(d, data, n)
  BY <1>3, <1>4, SameContents
<1> QED BY <1>5 DEF OnImage, old, d

\* cpmcp only adds to the directory, also with an entry of its own changed: w are the
\* files it was called for after the step.
LEMMA AddedKin ==
  ASSUME FsInv, Copying, sync = -1, NEW w, touched \subseteq w,
         \A s \in Live(image.dir) : image.dir[s].name \notin w,
         NEW x \in Slots, dir[x].name \in w \cup {Free},
         NEW d, d[x].name \in w, \A s \in Slots \ {x} : d[s] = dir[s]
  PROVE  /\ Within(image.dir, d)
         /\ \A s \in Slots : \/ image.dir[s].name \notin w \cup {Free}
                             \/ d[s].name \notin w \cup {Free}
                             => image.dir[s] = d[s]
<1>1. tool # "none"
  BY DEF Copying
<1>2. ASSUME NEW s \in Slots, image.dir[s].name \notin w \cup {Free}
      PROVE  image.dir[s] = d[s]
  <2>1. image.dir[s] = dir[s]
    BY <1>1, <1>2 DEF FsInv, Steady
  <2> QED BY <1>2, <2>1
<1>3. ASSUME NEW s \in Slots, d[s].name \notin w \cup {Free}
      PROVE  image.dir[s] = d[s]
  <2>1. s # x /\ d[s] = dir[s]
    BY <1>3
  <2> QED BY <1>1, <1>3, <2>1 DEF FsInv, Steady
<1>4. ASSUME NEW s \in Slots, image.dir[s].name # Free PROVE Like(image.dir[s], d[s])
  <2>1. image.dir[s].name \notin w
    BY <1>4 DEF Live
  <2> QED BY <1>2, <1>4, <2>1 DEF Like
<1> QED BY <1>2, <1>3, <1>4 DEF Within

\* The entry cpmWrite uses is free, or the file's.
LEMMA EntryKnown ==
  ASSUME FsInv, Writing, ~(NeedsEntry /\ DirectoryFull(dir))
  PROVE  /\ Entry \in Slots /\ dir[Entry].name \in {Free, file.name}
         /\ file.name \in touched /\ file.name # Free
<1>1. NeedsEntry => dir[Entry].name = Free
  BY EntryRight
<1>2. ~NeedsEntry => Entry \in FileExtents(dir, file.name)
  BY EntryRight
<1>3. Entry \in Slots
  BY EntryRight
<1> QED BY <1>1, <1>2, <1>3, WhileWriting, CpmFsSizes DEF FileExtents

\* A piece that is written, or lost, keeps the invariant.
LEMMA WritePieceKeeps ==
  ASSUME FsInv, WritePiece
  PROVE  FsInv'
<1> DEFINE pos == file.pos + Piece
<1>1. /\ image.dir \in Directory /\ dir \in Directory /\ alv \subseteq Blocks
      /\ image.data \in [Blocks -> [Offsets -> Cells]]
      /\ file \in FileType /\ FileRight(file) /\ file.pos \in Nat /\ file.count \in Nat \ {0}
      /\ file.name \in Names /\ file.name \in touched /\ touched \subseteq Names
      /\ Copying /\ tool # "none" /\ sync = -1 /\ tool \notin {"rm", "attr"}
  BY WhileWriting DEF WritePiece
<1>2. CanWrite /\ ~(NeedsEntry /\ DirectoryFull(dir)) /\ Writing
  BY DEF WritePiece, CanWrite
<1>3. /\ alv' = alv \cup {Target} /\ dir' = NewDir /\ dirty' = TRUE
      /\ file' = [file EXCEPT !.pos = pos, !.count = @ - Piece, !.extentno = EntryNumber,
                              !.extent = IF pos % Phys = 0 THEN -1 ELSE Entry]
      /\ UNCHANGED <<tool, sync, touched, copied, runs, kills>>
  BY Zenon DEF WritePiece, Target, NewDir
<1>4. \/ /\ image' = [image EXCEPT !.data[Target] = NewData(@)]
         /\ UNCHANGED <<lost, bad>>
      \/ MayFail /\ bad' = bad + 1 /\ lost' = TRUE /\ UNCHANGED image
  BY Zenon DEF WritePiece, Target
<1>5. /\ Target \in DataBlocks /\ Target \in Blocks
  BY <1>2, TargetRight DEF DataBlocks
<1>6. /\ image' \in [dir : Directory, data : [Blocks -> [Offsets -> Cells]]]
      /\ image.dir' = image.dir
      /\ \A b \in DataBlocks : b # Target => image.data'[b] = image.data[b]
      /\ ~lost' => /\ ~lost /\ bad' = bad
                   /\ \A b \in DataBlocks :
                         image.data'[b] = IF b = Target THEN NewData(image.data[Target])
                                          ELSE image.data[b]
  <2>1. image \in [dir : Directory, data : [Blocks -> [Offsets -> Cells]]]
    BY DEF FsInv, FsTyped
  <2>2. CASE UNCHANGED image /\ lost' = TRUE
    BY <2>1, <2>2
  <2>3. CASE image' = [image EXCEPT !.data[Target] = NewData(@)] /\ UNCHANGED <<lost, bad>>
    <3>1. NewData(image.data[Target]) \in [Offsets -> Cells]
      BY <1>2, NewDataRight
    <3> DEFINE new == NewData(image.data[Target])
    <3>2. image' = [image EXCEPT !.data[Target] = new]
      BY <2>3
    <3> HIDE DEF new
    <3> QED BY <1>5, <2>1, <2>3, <3>1, <3>2 DEF DataBlocks, new
  <2> QED BY <1>4, <2>2, <2>3
<1>7. /\ Piece \in 1..file.count /\ pos \in Nat \ {0} /\ (pos - 1) \div Phys = file.pos \div Phys
      /\ pos % Phys = 0 <=> pos = (file.pos \div Phys + 1) * Phys
      /\ pos <= (file.pos \div Phys + 1) * Phys
  <2> HIDE DEF pos
  <2>1. Piece \in 1..file.count
    BY <1>1, PieceRight
  <2>2. pos \in Nat \ {0}
    BY <1>1, <2>1 DEF pos
  <2> QED BY <1>1, <2>1, <2>2, PieceRight DEF pos
<1>8. /\ Entry \in Slots /\ EntryNumber \in Numbers /\ EntryNumber \in Nat
      /\ file.pos + file.count <= (EntryNumber + 2) * Lx
  BY <1>2, EntryRight
<1>9. /\ NewDir \in Directory /\ NewDir[Entry].name = file.name
      /\ Part(NewDir[Entry]) = file.pos \div Phys
      /\ \A s \in Slots \ {Entry} : NewDir[s] = dir[s]
  BY <1>2, NewDirIs
<1>10. file.pos + file.count <= MaxLen /\ file.count <= Buf + 1 /\ dir[file.ino].name = file.name
       /\ file.ino \in Slots
  BY <1>1 DEF FileRight, FileType
<1> HIDE DEF pos
<1>11. /\ file' \in FileType /\ file'.pos = pos /\ file'.name = file.name
       /\ file'.count = file.count - Piece /\ file'.extentno = EntryNumber
       /\ file'.extent = (IF pos % Phys = 0 THEN -1 ELSE Entry) /\ file'.ino = file.ino
  <2>1. pos \in 0..MaxLen /\ file.count - Piece \in Nat
    BY <1>1, <1>7, <1>10, Sizes DEF pos
  <2> QED BY <1>1, <1>3, <1>8, <2>1 DEF FileType
<1>12. FsTyped'
  <2>1. bad' \in 0..Faults /\ bad' + kills' <= Faults
    BY <1>3, <1>4, Sizes DEF FsInv, FsTyped, MayFail
  <2>2. lost' \in BOOLEAN
    BY <1>4 DEF FsInv, FsTyped
  <2> QED BY <1>3, <1>5, <1>6, <1>9, <1>11, <2>1, <2>2 DEF FsInv, FsTyped, Directory
<1>13. FsControl'
  <2>1. bad \in Nat /\ (lost => bad > 0)
    BY <1>1, Sizes DEF FsInv, FsTyped, FsControl
  <2>2. lost' => bad' > 0
    <3>1. \/ lost' = lost /\ bad' = bad
          \/ bad' = bad + 1
      BY <1>4
    <3>2. ASSUME bad' = bad + 1 PROVE bad' > 0
      BY <2>1, <3>2
    <3>3. ASSUME lost' = lost, bad' = bad PROVE lost' => bad' > 0
      BY <2>1, <3>3, Zenon
    <3> QED BY <3>1, <3>2, <3>3
  <2> QED BY <1>1, <1>3, <1>11, <2>2 DEF FsInv, FsControl, Copying
<1>14. Sound(image.dir)' /\ Sound(dir)' /\ AlvExact'
  <2>1. Sound(NewDir)
        /\ alv \cup {Target} = DirBlocks \cup UNION {Named(NewDir, s) : s \in Live(NewDir)}
    BY <1>2, NewDirSound
  <2>2. Sound(image'.dir) /\ Sound(dir')
    BY <1>3, <1>6, <2>1 DEF FsInv
  <2> QED BY <1>3, <2>1, <2>2 DEF AlvExact
<1>15. Kin' /\ Steady'
  <2>1. /\ Within(image.dir, NewDir)
        /\ \A s \in Slots : \/ image.dir[s].name \notin touched \cup {Free}
                            \/ NewDir[s].name \notin touched \cup {Free}
                            => image.dir[s] = NewDir[s]
    <3>1. \A s \in Live(image.dir) : image.dir[s].name \notin touched
      BY <1>1 DEF FsInv, Kin
    <3>2. dir[Entry].name \in touched \cup {Free} /\ NewDir[Entry].name \in touched
      BY <1>1, <1>2, <1>9, EntryKnown
    <3> DEFINE d == NewDir
               w == touched
    <3>3. /\ \A s \in Live(image.dir) : image.dir[s].name \notin w
          /\ dir[Entry].name \in w \cup {Free} /\ d[Entry].name \in w
          /\ \A s \in Slots \ {Entry} : d[s] = dir[s]
          /\ touched \subseteq w
      BY <1>9, <3>1, <3>2
    <3> HIDE DEF d, w
    <3>4. /\ Within(image.dir, d)
          /\ \A s \in Slots : \/ image.dir[s].name \notin w \cup {Free}
                              \/ d[s].name \notin w \cup {Free}
                              => image.dir[s] = d[s]
      BY <1>1, <1>8, <3>3, AddedKin
    <3> QED BY <3>4 DEF d, w
  <2>2. Kin'
    BY <1>1, <1>3, <1>6, <2>1 DEF FsInv, Kin, Copying, Live
  <2>3. Steady'
    BY <1>3, <1>6, <2>1 DEF Steady
  <2> QED BY <2>2, <2>3
<1>16. Synced'
  <2>1. \A s \in Slots : s \div DirPerBlock \in Nat
    BY SlotInBlock
  <2> QED BY <1>1, <1>3, <2>1 DEF Synced
<1>17. /\ Parts(NewDir, file.name, pos)
       /\ LastEntry(NewDir, file.name, pos, EntryNumber)
       /\ NumberRight(pos, EntryNumber)
       /\ ~lost' => Written(NewDir, image'.data, file.name, pos)
  <2>1. /\ Parts(NewDir, file.name, pos)
        /\ LastEntry(NewDir, file.name, pos, EntryNumber)
        /\ NumberRight(pos, EntryNumber)
    BY <1>2, NewEntriesRight DEF pos
  <2>2. ASSUME ~lost' PROVE Written(NewDir, image'.data, file.name, pos)
    <3> DEFINE data == image'.data
    <3>1. /\ ~lost
          /\ \A b \in DataBlocks : data[b] = IF b = Target THEN NewData(image.data[Target])
                                             ELSE image.data[b]
      BY <1>6, <2>2
    <3> HIDE DEF data
    <3>2. Written(NewDir, data, file.name, file.pos + Piece)
      BY <1>2, <3>1, NewWritten
    <3> QED BY <3>2 DEF pos, data
  <2> QED BY <2>1, <2>2
<1>18. ASSUME NEW n \in Names
       PROVE  /\ Contents(image.dir, image'.data, n) = OnImage(n)
              /\ OwnFile(image.dir, image.data, n) => OwnFile(image.dir, image'.data, n)
              /\ n # file.name =>
                    /\ FileExtents(dir, n) = FileExtents(NewDir, n)
                    /\ Contents(NewDir, image'.data, n) = Contents(dir, image.data, n)
                    /\ OwnFile(dir, image.data, n) => OwnFile(NewDir, image'.data, n)
  <2> DEFINE data == image'.data
  <2>1. \A b \in DataBlocks : b # Target => data[b] = image.data[b]
    BY <1>6
  <2> HIDE DEF data
  <2>2. /\ Contents(image.dir, data, n) = OnImage(n)
        /\ OwnFile(image.dir, image.data, n) => OwnFile(image.dir, data, n)
    BY <1>2, <2>1, ImageFrame
  <2>3. n # file.name =>
          /\ FileExtents(dir, n) = FileExtents(NewDir, n)
          /\ Contents(NewDir, data, n) = Contents(dir, image.data, n)
          /\ OwnFile(dir, image.data, n) => OwnFile(NewDir, data, n)
    BY <1>2, <2>1, PieceFrame
  <2> QED BY <2>2, <2>3 DEF data
<1>19. OwnCells'
  <2> SUFFICES ASSUME bad' = 0 PROVE Own(image'.dir, image'.data) /\ Own(dir', image'.data)
    BY DEF OwnCells
  <2>1. bad = 0 /\ lost' = lost /\ ~lost
    BY <1>1, <1>4 DEF FsInv, FsTyped, FsControl
  <2>2. Own(image.dir, image.data) /\ Own(dir, image.data)
    BY <2>1 DEF FsInv, OwnCells
  <2>3. OwnFile(NewDir, image'.data, file.name)
    <3>1. Sound(NewDir)
      BY <1>2, NewDirSound
    <3>2. Written(NewDir, image'.data, file.name, pos)
      BY <1>17, <2>1
    <3>3. pos \in Nat
      BY <1>7
    <3> DEFINE data == image'.data
               d == NewDir
    <3>4. /\ Written(d, data, file.name, pos) /\ Parts(d, file.name, pos) /\ Sound(d)
          /\ LastEntry(d, file.name, pos, EntryNumber) /\ NumberRight(pos, EntryNumber)
          /\ d \in Directory /\ file.name \in Names
      BY <1>1, <1>9, <1>17, <3>1, <3>2
    <3> HIDE DEF data, d
    <3>5. OwnFile(d, data, file.name)
      BY <3>3, <3>4, WrittenIsOwn
    <3> QED BY <3>5 DEF data, d
  <2>4. \A n \in Names : OwnFile(image.dir, image'.data, n) /\ OwnFile(NewDir, image'.data, n)
    BY <1>18, <2>2, <2>3 DEF Own
  <2> QED BY <1>3, <1>6, <2>4 DEF Own
<1>20. FileRight(file)'
  <2>1. file'.pos + file'.count <= MaxLen /\ file'.count <= Buf + 1
    BY <1>1, <1>7, <1>10, <1>11, Sizes DEF pos
  <2>2. dir'[file'.ino].name = file'.name
    BY <1>3, <1>9, <1>10, <1>11
  <2>3. ASSUME file'.extent # -1
        PROVE  /\ dir'[file'.extent].name = file'.name
               /\ Part(dir'[file'.extent]) * Phys < file'.pos
               /\ file'.pos < (Part(dir'[file'.extent]) + 1) * Phys
               /\ file'.pos + file'.count <= (file'.extentno + 2) * Lx
    <3>1. file'.extent = Entry /\ pos % Phys # 0 /\ pos % Phys \in Int /\ Phys \in Nat
      <4>1. pos % Phys \in Int /\ Phys \in Nat
        <5>1. Phys \in Nat \ {0} /\ pos \in Nat
          BY <1>7, Sizes
        <5> QED BY <5>1, Division
      <4> QED BY <1>11, <2>3, <4>1
    <3> DEFINE k == file.pos \div Phys
    <3>2. k * Phys <= file.pos /\ file.pos \in Nat /\ k * Phys \in Nat /\ (k + 1) * Phys \in Nat
      <4>1. k \in Nat /\ k * Phys <= file.pos
        BY <1>1, PartFound
      <4> HIDE DEF k
      <4> QED BY <1>1, <3>1, <4>1
    <3>3. pos < (k + 1) * Phys /\ k * Phys < pos
      <4> HIDE DEF k
      <4>1. pos <= (k + 1) * Phys /\ pos # (k + 1) * Phys
        BY <1>7, <3>1 DEF k
      <4>2. pos = file.pos + Piece /\ Piece \in Nat \ {0}
        BY <1>1, <1>7 DEF pos
      <4> QED BY <3>2, <4>1, <4>2
    <3>4. pos + (file.count - Piece) = file.pos + file.count
      BY <1>1, <1>7 DEF pos
    <3> QED BY <1>3, <1>8, <1>9, <1>11, <3>1, <3>3, <3>4
  <2> QED BY <1>3, <1>11, <1>17, <2>1, <2>2, <2>3 DEF FileRight
<1>21. CopiedRight'
  <2> SUFFICES ASSUME ~lost', NEW n \in Names, copied[n] # NoFile
      PROVE  /\ Contents(NewDir, image'.data, n)
                  = Recognised(n, copied[n].len, copied[n].number)
             /\ FileExtents(NewDir, n) # {} /\ file.name # n /\ n \in touched
    BY <1>1, <1>3, <1>11 DEF CopiedRight, Copying
  <2>1. file # NoFile /\ ~lost
    BY <1>2, <1>6 DEF Writing
  <2>2. /\ Contents(dir, image.data, n) = Recognised(n, copied[n].len, copied[n].number)
        /\ FileExtents(dir, n) # {} /\ file.name # n /\ n \in touched
    BY <1>1, <2>1 DEF FsInv, CopiedRight
  <2> QED BY <1>18, <2>2
<1> QED BY <1>12, <1>13, <1>14, <1>15, <1>16, <1>19, <1>20, <1>21 DEF FsInv

------------------------------------------------------------------------------
(* The other steps of cpmcp keep the invariant.                             *)

\* The blocks a tool takes to be taken when it starts.
LEMMA AlvInitIs ==
  ASSUME NEW d \in Directory
  PROVE  /\ AlvInit(d) \subseteq Blocks
         /\ AlvInit(d) = DirBlocks \cup UNION {Named(d, s) : s \in Live(d)}
<1> DEFINE U == UNION {Named(d, s) : s \in Live(d)}
<1>1. \A s \in Live(d) : Named(d, s) \subseteq Blocks
  BY EntryIs DEF Live, DataBlocks
<1>2. U \subseteq Blocks
  BY <1>1
<1>3. AlvInit(d) = DirBlocks \cup (U \cap Blocks)
  BY DEF AlvInit
<1> HIDE DEF U
<1>4. AlvInit(d) \subseteq Blocks /\ AlvInit(d) = DirBlocks \cup U
  BY <1>2, <1>3, DirectoryFits
<1> QED BY <1>4 DEF U

\* A tool starts.
LEMMA StartKeeps ==
  ASSUME FsInv, NEW t \in {"cp", "text", "rm", "attr"}, Start(t)
  PROVE  FsInv'
<1> USE DEF Start
<1> DEFINE d == image.dir
<1>1. d \in Directory /\ d' = d /\ dir' = d
  BY DEF FsInv, FsTyped
<1>2. FsTyped'
  <2>1. AlvInit(d) \subseteq Blocks
    BY <1>1, AlvInitIs
  <2>2. runs' \in 0..Sessions
    BY CpmFsSizes DEF FsInv, FsTyped
  <2>3. DOMAIN Nothing = Names
    BY DEF Nothing
  <2> HIDE DEF d
  <2>4. image' = image /\ bad' = bad /\ kills' = kills /\ touched' = {} /\ alv' = AlvInit(d)
    BY DEF d
  <2> QED BY <1>1, <2>1, <2>2, <2>3, <2>4 DEF FsInv, FsTyped
<1>3. FsControl'
  BY DEF FsControl
<1>4. Sound(image.dir)' /\ Sound(dir)'
  BY <1>1 DEF FsInv
<1>5. AlvExact'
  <2>1. AlvInit(d) = DirBlocks \cup UNION {Named(d, s) : s \in Live(d)}
    BY <1>1, AlvInitIs
  <2>2. alv' = AlvInit(d)
    OBVIOUS
  <2> HIDE DEF d
  <2> QED BY <1>1, <2>1, <2>2 DEF AlvExact
<1>6. Kin' /\ Steady'
  BY <1>1 DEF Kin, Within, Like, Steady
<1>7. Synced'
  BY <1>1, SlotInBlock DEF Synced
<1>8. OwnCells'
  BY <1>1 DEF FsInv, OwnCells
<1>9. CopiedRight'
  BY DEF CopiedRight, Nothing
<1> QED BY <1>2, <1>3, <1>4, <1>5, <1>6, <1>7, <1>8, <1>9 DEF FsInv

\* An entry without blocks, for a part of a file that had none, changes neither which
\* blocks are taken nor the other files.
LEMMA EmptyEntry ==
  ASSUME NEW d \in Directory, NEW e \in Directory, NEW x \in Slots, Sound(d),
         \A s \in Slots \ {x} : e[s] = d[s],
         d[x].name = Free, e[x].name # Free, \A i \in 0..Pointers - 1 : e[x].ptr[i] = 0,
         \A s \in FileExtents(d, e[x].name) : Part(d[s]) # Part(e[x])
  PROVE  /\ Sound(e)
         /\ UNION {Named(e, s) : s \in Live(e)} = UNION {Named(d, s) : s \in Live(d)}
         /\ \A data : \A n \in Names : n # e[x].name =>
               /\ FileExtents(d, n) = FileExtents(e, n)
               /\ Contents(d, data, n) = Contents(e, data, n)
               /\ OwnFile(d, data, n) => OwnFile(e, data, n)
<1>1. /\ Live(e) = Live(d) \cup {x} /\ x \notin Live(d)
  BY DEF Live
<1>2. \A s \in Live(d) : s # x /\ e[s] = d[s] /\ s \in Slots
  BY <1>1 DEF Live
<1>3. PointersOf(e) = PointersOf(d) /\ \A p \in PointersOf(e) : e[p[1]] = d[p[1]]
  <2>1. ASSUME NEW p \in Slots \X (0..Pointers - 1)
        PROVE  /\ p \in PointersOf(e) <=> p \in PointersOf(d)
               /\ p \in PointersOf(e) => e[p[1]] = d[p[1]]
    <3>1. CASE p[1] = x
      BY <3>1 DEF PointersOf
    <3>2. CASE p[1] # x
      <4>1. e[p[1]] = d[p[1]]
        BY <3>2
      <4> QED BY <4>1 DEF PointersOf
    <3> QED BY <3>1, <3>2
  <2> QED BY <2>1 DEF PointersOf
<1>4. Apart(e)
  BY <1>3, Zenon DEF Sound, Apart
<1>5. ASSUME NEW s \in Live(e), NEW t \in Live(e), e[s].name = e[t].name,
             Part(e[s]) = Part(e[t])
      PROVE  s = t
  <2>1. CASE s \in Live(d) /\ t \in Live(d)
    BY <1>2, <1>5, <2>1 DEF Sound
  <2>2. CASE s = x /\ t # x
    <3>1. t \in FileExtents(d, e[x].name) /\ d[t] = e[t]
      BY <1>1, <1>2, <1>5, <2>2 DEF FileExtents
    <3> QED BY <1>5, <2>2, <3>1
  <2>3. CASE t = x /\ s # x
    <3>1. s \in FileExtents(d, e[x].name) /\ d[s] = e[s]
      BY <1>1, <1>2, <1>5, <2>3 DEF FileExtents
    <3> QED BY <1>5, <2>3, <3>1
  <2> QED BY <1>1, <2>1, <2>2, <2>3
<1>6. UNION {Named(e, s) : s \in Live(e)} = UNION {Named(d, s) : s \in Live(d)}
  <2>1. Named(e, x) = {}
    BY DEF Named
  <2>2. \A s \in Live(d) : Named(e, s) = Named(d, s)
    BY <1>2 DEF Named
  <2> QED BY <1>1, <2>1, <2>2
<1>7. ASSUME NEW data, NEW n \in Names, n # e[x].name
      PROVE  /\ FileExtents(d, n) = FileExtents(e, n)
             /\ Contents(d, data, n) = Contents(e, data, n)
             /\ OwnFile(d, data, n) => OwnFile(e, data, n)
  <2>1. \A s \in Slots : d[s].name = n \/ e[s].name = n => d[s] = e[s]
    BY <1>7, CpmFsSizes
  <2>2. \A s \in FileExtents(d, n), i \in 0..Pointers - 1 :
           d[s].ptr[i] # 0 => data[d[s].ptr[i]] = data[d[s].ptr[i]]
    OBVIOUS
  <2> QED BY <2>1, <2>2, SameContents
<1> QED BY <1>4, <1>5, <1>6, <1>7 DEF Sound

\* While directory, image and allocation vector stay, so does what is said of them.
LEMMA SameFiles ==
  ASSUME FsInv, UNCHANGED <<image, dir, alv, tool, sync, touched>>, bad' = 0 => bad = 0
  PROVE  /\ Sound(image.dir)' /\ Sound(dir)' /\ AlvExact' /\ Kin' /\ Steady' /\ Synced' /\ OwnCells'
         /\ image' \in [dir : Directory, data : [Blocks -> [Offsets -> Cells]]]
<1>1. Sound(image.dir)' /\ Sound(dir)' /\ AlvExact'
  BY DEF FsInv, AlvExact
<1>2. Kin' /\ Steady' /\ Synced'
  BY DEF FsInv, Kin, Steady, Synced, Copying, Live
<1>3. OwnCells'
  BY DEF FsInv, OwnCells
<1> QED BY <1>1, <1>2, <1>3 DEF FsInv, FsTyped

\* The next buffer.
LEMMA NextBufferKeeps ==
  ASSUME FsInv, NextBuffer
  PROVE  FsInv'
<1>1. /\ file \in FileType /\ FileRight(file) /\ file.count = 0
      /\ Copying /\ sync = -1 /\ file.name \in touched /\ file # NoFile
  BY DEF FsInv, FsTyped, FsControl, NextBuffer
<1>2. PICK e \in BOOLEAN, c \in LastBuffers \cup FullBuffers :
         /\ file.pos + c <= MaxLen
         /\ file' = [file EXCEPT !.count = c, !.eof = e, !.extent = -1]
  BY DEF NextBuffer
<1>3. c \in Nat /\ c <= Buf + 1
  <2>1. Buf \in Nat
    BY Sizes
  <2> QED BY <1>2, <2>1 DEF LastBuffers, FullBuffers
<1>4. /\ file' \in FileType /\ file'.pos = file.pos /\ file'.count = c /\ file'.ino = file.ino
      /\ file'.name = file.name /\ file'.extent = -1 /\ file'.extentno = file.extentno
  BY <1>1, <1>2, <1>3 DEF FileType
<1>5. UNCHANGED <<image, dir, alv, dirty, tool, sync, touched, copied, lost, runs, bad, kills>>
  BY DEF NextBuffer
<1>6. FsTyped' /\ FsControl'
  BY <1>1, <1>4, <1>5 DEF FsInv, FsTyped, FsControl, Copying
<1>7. FileRight(file)'
  BY <1>1, <1>2, <1>3, <1>4, <1>5 DEF FileRight
<1>8. CopiedRight'
  BY <1>1, <1>4, <1>5 DEF FsInv, CopiedRight, Copying, OnImage
<1> QED BY <1>5, <1>6, <1>7, <1>8, SameFiles DEF FsInv

\* cpmWrite gives up before it has changed anything.
LEMMA GiveUpKeeps ==
  ASSUME FsInv, WriteDirectoryFull \/ WriteReadFails
  PROVE  FsInv'
<1>1. /\ UNCHANGED <<image, dir, alv, dirty, tool, sync, touched, copied, runs, kills>>
      /\ file' = NoFile /\ tool # "none" /\ sync = -1
      /\ UNCHANGED <<lost, bad>> \/ (MayFail /\ bad' = bad + 1 /\ lost' = TRUE)
  BY WhileWriting DEF WriteDirectoryFull, WriteReadFails, GiveUp
<1>2. /\ bad \in Nat /\ kills \in Nat /\ bad + kills <= Faults /\ Faults \in Nat
      /\ (lost => bad > 0) /\ lost \in BOOLEAN
  BY <1>1, Sizes DEF FsInv, FsTyped, FsControl
<1>3. /\ bad' \in 0..Faults /\ bad' + kills' <= Faults /\ lost' \in BOOLEAN
      /\ lost' => bad' > 0
      /\ ~lost' => ~lost
      /\ bad' = 0 => bad = 0
  <2>1. CASE MayFail /\ bad' = bad + 1 /\ lost' = TRUE
    <3>1. bad' \in 0..Faults /\ bad' + kills' <= Faults /\ bad' > 0
      BY <1>1, <1>2, <2>1 DEF MayFail
    <3> QED BY <2>1, <3>1
  <2>2. CASE UNCHANGED <<lost, bad>>
    <3>1. lost' = lost /\ bad' = bad /\ bad' \in 0..Faults /\ bad' + kills' <= Faults
      BY <1>1, <1>2, <2>2
    <3> QED BY <1>2, <3>1, Zenon
  <2> QED BY <1>1, <2>1, <2>2
<1>4. FsTyped'
  BY <1>1, <1>3 DEF FsInv, FsTyped
<1>5. FsControl'
  BY <1>1, <1>3 DEF FsControl
<1>6. CopiedRight'
  BY <1>1, <1>3 DEF FsInv, CopiedRight, Copying, OnImage
<1> QED BY <1>1, <1>3, <1>4, <1>5, <1>6, SameFiles DEF FsInv

\* A file is copied.
LEMMA CopiedKeeps ==
  ASSUME FsInv, Copied
  PROVE  FsInv'
<1> DEFINE n == file.name
           c == [len |-> file.pos, number |-> file.extentno]
<1>1. /\ file \in FileType /\ FileRight(file) /\ dir \in Directory
      /\ Copying /\ sync = -1 /\ n \in touched /\ n \in Names /\ file # NoFile /\ tool # "none"
      /\ file.pos \in Nat
  BY DEF FsInv, FsTyped, FsControl, Copied, FileType, Copying
<1>2. /\ copied' = [copied EXCEPT ![n] = c] /\ file' = NoFile
      /\ UNCHANGED <<image, dir, alv, dirty, tool, sync, touched, lost, runs, bad, kills>>
  BY DEF Copied
<1>3. FsTyped' /\ FsControl'
  BY <1>1, <1>2 DEF FsInv, FsTyped, FsControl, Copying
<1>4. ASSUME ~lost
      PROVE  /\ Contents(dir, image.data, n) = Recognised(n, file.pos, file.extentno)
             /\ FileExtents(dir, n) # {}
  <2>1. Contents(dir, image.data, n) = Recognised(n, file.pos, file.extentno)
    BY <1>1, <1>4, WrittenIsRead DEF FileRight
  <2>2. file.ino \in FileExtents(dir, n)
    BY <1>1 DEF FileRight, FileExtents, FileType
  <2> QED BY <2>1, <2>2
<1>5. dirty
  BY <1>1 DEF FsInv, FsControl
<1>6. CopiedRight'
  <2> SUFFICES ASSUME ~lost, NEW m \in Names, copied'[m] # NoFile
      PROVE  /\ Contents(dir, image.data, m)
                  = Recognised(m, copied'[m].len, copied'[m].number)
             /\ FileExtents(dir, m) # {} /\ m \in touched
    BY <1>1, <1>2, <1>5 DEF CopiedRight, Copying
  <2>1. DOMAIN copied = Names
    BY DEF FsInv, FsTyped
  <2>2. CASE m = n
    <3>1. copied'[m].len = file.pos /\ copied'[m].number = file.extentno
      BY <1>2, <2>1, <2>2
    <3> QED BY <1>1, <1>4, <2>2, <3>1
  <2>3. CASE m # n
    <3>1. copied'[m] = copied[m]
      BY <1>2, <2>1, <2>3
    <3> QED BY <1>1, <2>3, <3>1 DEF FsInv, CopiedRight
  <2> QED BY <2>2, <2>3
<1> QED BY <1>2, <1>3, <1>6, SameFiles DEF FsInv

\* A file is made: an entry without blocks, for a name the directory does not have.
LEMMA CpmCreatKeeps ==
  ASSUME FsInv, NEW n \in Names, CpmCreat(n)
  PROVE  FsInv'
<1> DEFINE s == FindFreeExtent(dir)
           e == [NoEntry EXCEPT !.name = n]
           d == [dir EXCEPT ![s] = e]
           w == touched \cup {n}
           f == [ino |-> s, name |-> n, pos |-> 0, count |-> 0, eof |-> FALSE,
                 extent |-> -1, extentno |-> -1]
<1>1. /\ dir \in Directory /\ image.dir \in Directory /\ Copying /\ sync = -1 /\ n # Free
      /\ FileExtents(dir, n) = {} /\ file = NoFile /\ Sound(dir) /\ tool # "none"
      /\ tool \notin {"rm", "attr"} /\ touched \subseteq Names
  BY CpmFsSizes DEF FsInv, FsTyped, CpmCreat, Idle, Copying
<1>2. /\ dir' = d /\ dirty' = TRUE /\ touched' = w /\ file' = f
      /\ UNCHANGED <<image, alv, tool, sync, copied, lost, runs, bad, kills>>
  BY Zenon DEF CpmCreat
<1>3. s \in Slots /\ dir[s].name = Free
  <2> DEFINE S == {x \in Slots : dir[x].name = Free}
  <2>1. S # {} /\ S \subseteq Slots
    BY DEF CpmCreat, DirectoryFull
  <2>2. Min(S) \in S
    BY <2>1, LeastSlot
  <2> QED BY <2>2 DEF FindFreeExtent
<1> HIDE DEF s
<1>4. e \in EntryType /\ e.name = n /\ e.ext = 0 /\ e.blkcnt = 0 /\ e.lrc = 0
      /\ \A i \in 0..Pointers - 1 : e.ptr[i] = 0
  <2>1. 0 \in 0..MaxLen \div Lx /\ 0 \in 0..Lx \div Rec /\ 0 \in 0..Rec - 1
    <3>1. MaxLen \div Lx \in Nat /\ Lx \div Rec \in Nat /\ Rec \in Nat \ {0}
      <4>1. MaxLen \in Nat /\ Lx \in Nat \ {0} /\ Rec \in Nat \ {0}
        BY Sizes
      <4> QED BY <4>1, Division
    <3> QED BY <3>1
  <2> QED BY <2>1 DEF EntryType, NoEntry
<1> HIDE DEF e
<1>5. d \in Directory /\ d[s] = e /\ \A x \in Slots \ {s} : d[x] = dir[x]
  BY <1>1, <1>3, <1>4 DEF Directory
<1> HIDE DEF d
<1>6. Part(e) = 0 /\ Part(e) * Phys = 0
  <2>1. Extents \in Nat \ {0} /\ Phys \in Nat
    BY Sizes
  <2>2. 0 \div Extents = 0
    <3>1. 0 = Extents * (0 \div Extents) + (0 % Extents) /\ 0 \div Extents \in Nat
          /\ 0 % Extents \in 0..(Extents - 1)
      BY <2>1, Division
    <3> DEFINE q == 0 \div Extents
               r == 0 % Extents
    <3>2. 0 = Extents * q + r /\ q \in Nat /\ r \in Nat
      BY <2>1, <3>1
    <3> HIDE DEF q, r
    <3>3. q = 0
      <4>1. ASSUME q >= 1 PROVE FALSE
        <5>1. Extents * 1 <= Extents * q /\ Extents * q \in Int
          BY <2>1, <3>2, <4>1, TimesLeq
        <5> QED BY <2>1, <3>2, <5>1
      <4> QED BY <3>2, <4>1
    <3> QED BY <3>3 DEF q
  <2> QED BY <1>4, <2>1, <2>2 DEF Part
<1>7. /\ Sound(d)
      /\ UNION {Named(d, x) : x \in Live(d)} = UNION {Named(dir, x) : x \in Live(dir)}
      /\ \A data : \A m \in Names : m # n =>
            /\ FileExtents(dir, m) = FileExtents(d, m)
            /\ Contents(dir, data, m) = Contents(d, data, m)
            /\ OwnFile(dir, data, m) => OwnFile(d, data, m)
  <2>1. \A x \in FileExtents(dir, d[s].name) : Part(dir[x]) # Part(d[s])
    BY <1>1, <1>4, <1>5
  <2>2. d[s].name # Free /\ \A i \in 0..Pointers - 1 : d[s].ptr[i] = 0
    BY <1>1, <1>4, <1>5
  <2>3. /\ Sound(d)
        /\ UNION {Named(d, x) : x \in Live(d)} = UNION {Named(dir, x) : x \in Live(dir)}
        /\ \A data : \A m \in Names : m # d[s].name =>
              /\ FileExtents(dir, m) = FileExtents(d, m)
              /\ Contents(dir, data, m) = Contents(d, data, m)
              /\ OwnFile(dir, data, m) => OwnFile(d, data, m)
    BY <1>1, <1>3, <1>5, <2>1, <2>2, EmptyEntry
  <2>4. d[s].name = n
    BY <1>4, <1>5
  <2> QED BY <2>3, <2>4, Zenon
<1>8. FileExtents(d, n) = {s}
  BY <1>1, <1>3, <1>4, <1>5 DEF FileExtents
<1>9. /\ Within(image.dir, d)
      /\ \A x \in Slots : \/ image.dir[x].name \notin w \cup {Free}
                          \/ d[x].name \notin w \cup {Free}
                          => image.dir[x] = d[x]
      /\ \A x \in Live(image.dir) : image.dir[x].name \notin w
  <2>1. ASSUME NEW x \in Live(image.dir) PROVE image.dir[x].name \notin w
    <3>1. image.dir[x].name \notin touched /\ x \in Slots /\ image.dir[x].name # Free
      BY <1>1 DEF FsInv, Kin, Live
    <3>2. image.dir[x] = dir[x]
      BY <1>1, <3>1 DEF FsInv, Steady
    <3> QED BY <1>1, <3>1, <3>2 DEF FileExtents
  <2>2. dir[s].name \in w \cup {Free} /\ d[s].name \in w /\ touched \subseteq w
    BY <1>3, <1>4, <1>5
  <2> HIDE DEF w
  <2> QED BY <1>1, <1>3, <1>5, <2>1, <2>2, AddedKin
<1>10. FsTyped' /\ FsControl'
  <2>1. f \in FileType
    <3>1. 0 \in 0..MaxLen
      BY Sizes
    <3> QED BY <1>3, <3>1 DEF FileType
  <2>2. FsTyped'
    BY <1>1, <1>2, <1>5, <2>1 DEF FsInv, FsTyped
  <2>3. FsControl'
    BY <1>1, <1>2 DEF FsInv, FsControl, Copying
  <2> QED BY <2>2, <2>3
<1>11. Sound(image.dir)' /\ Sound(dir)' /\ AlvExact'
  <2>1. Sound(dir') /\ AlvExact'
    BY <1>1, <1>2, <1>7 DEF FsInv, AlvExact
  <2> QED BY <1>2, <2>1 DEF FsInv
<1>12. Kin' /\ Steady'
  <2>1. Kin'
    BY <1>1, <1>2, <1>9 DEF Kin, Copying, Live
  <2>2. Steady'
    BY <1>2, <1>9 DEF Steady
  <2> QED BY <2>1, <2>2
<1>13. Synced'
  BY <1>1, <1>2, SlotInBlock DEF Synced
<1>14. OwnCells'
  <2> SUFFICES ASSUME bad = 0 PROVE Own(image.dir, image.data) /\ Own(d, image.data)
    BY <1>2 DEF OwnCells
  <2>1. Own(image.dir, image.data) /\ Own(dir, image.data)
    BY DEF FsInv, OwnCells
  <2>2. OwnFile(d, image.data, n)
    BY <1>4, <1>5, <1>8 DEF OwnFile
  <2> QED BY <1>7, <2>1, <2>2 DEF Own
<1>15. FileRight(file)'
  <2>1. f.pos + f.count <= MaxLen /\ f.count <= Buf + 1
    BY Sizes
  <2>2. ASSUME NEW i \in 0..Pointers - 1 PROVE i * Blk \in Nat
    BY Sizes
  <2>3. Parts(d, n, 0)
    <3>1. ASSUME NEW k \in Nat, k * Phys < 0 PROVE FALSE
      BY <3>1, Sizes
    <3> QED BY <1>4, <1>5, <1>6, <1>8, <2>2, <3>1 DEF Parts
  <2>4. LastEntry(d, n, 0, -1)
    BY <1>4, <1>5, <1>8 DEF LastEntry
  <2>5. Written(d, image.data, n, 0)
    BY <1>5, <1>6, <1>8, <2>2 DEF Written, Place, Offsets
  <2>6. NumberRight(0, -1)
    BY DEF NumberRight
  <2>7. /\ f.pos = 0 /\ f.name = n /\ f.extentno = -1 /\ f.extent = -1 /\ f.ino = s
        /\ d[f.ino].name = f.name
    BY <1>4, <1>5
  <2> HIDE DEF f
  <2> QED BY <1>2, <2>1, <2>3, <2>4, <2>5, <2>6, <2>7 DEF FileRight
<1>16. CopiedRight'
  <2> SUFFICES ASSUME ~lost, NEW m \in Names, copied[m] # NoFile
      PROVE  /\ Contents(d, image.data, m) = Recognised(m, copied[m].len, copied[m].number)
             /\ FileExtents(d, m) # {} /\ n # m /\ m \in touched
    BY <1>1, <1>2 DEF CopiedRight, Copying
  <2>1. /\ Contents(dir, image.data, m) = Recognised(m, copied[m].len, copied[m].number)
        /\ FileExtents(dir, m) # {} /\ m \in touched
    BY <1>1 DEF FsInv, CopiedRight
  <2>2. m # n
    BY <1>1, <2>1
  <2> QED BY <1>7, <2>1, <2>2
<1> QED BY <1>10, <1>11, <1>12, <1>13, <1>14, <1>15, <1>16 DEF FsInv

\* No block is free: what cpmWrite leaves is at most an entry without blocks, for the
\* part of the file after all that was written.
LEMMA WriteDeviceFullKeeps ==
  ASSUME FsInv, WriteDeviceFull
  PROVE  FsInv'
<1> DEFINE d == WithEntry
           n == file.name
           k == file.pos \div Phys
<1>1. /\ image.dir \in Directory /\ dir \in Directory /\ Sound(dir) /\ tool # "none"
      /\ FileRight(file) /\ file.pos \in Nat /\ n \in Names /\ n \in touched /\ n # Free
      /\ Copying /\ sync = -1 /\ tool \notin {"rm", "attr"} /\ file # NoFile
  BY WhileWriting, CpmFsSizes DEF FsInv, WriteDeviceFull, Writing
<1>2. /\ dir' = d /\ file' = NoFile
      /\ UNCHANGED <<image, alv, dirty, tool, sync, touched, copied, lost, runs, bad, kills>>
  BY DEF WriteDeviceFull, GiveUp
<1>3. Writing /\ ~(NeedsEntry /\ DirectoryFull(dir))
  BY DEF WriteDeviceFull
<1>4. /\ Entry \in Slots /\ d \in Directory /\ d[Entry].name = n
      /\ \A s \in Slots \ {Entry} : d[s] = dir[s]
      /\ \A s \in FileExtents(dir, n) : Part(dir[s]) = k <=> s = Entry
      /\ NeedsEntry => /\ dir[Entry].name = Free /\ d[Entry].ptr = NoEntry.ptr
                       /\ Part(d[Entry]) = k /\ file.pos = k * Phys
      /\ ~NeedsEntry => d = dir
  BY <1>3, EntryRight
<1>5. dir[Entry].name \in {Free, n}
  BY <1>3, EntryKnown
<1> HIDE DEF d
<1>6. FsTyped' /\ FsControl'
  BY <1>1, <1>2, <1>4 DEF FsInv, FsTyped, FsControl
<1>7. CASE ~NeedsEntry
  <2>1. UNCHANGED <<image, dir, alv, tool, sync, touched>>
    BY <1>2, <1>4, <1>7
  <2>2. CopiedRight'
    BY <1>1, <1>2, <2>1 DEF FsInv, CopiedRight, Copying, OnImage
  <2> QED BY <1>2, <1>6, <2>1, <2>2, SameFiles DEF FsInv
<1>8. CASE NeedsEntry
  <2>1. /\ Sound(d)
        /\ UNION {Named(d, x) : x \in Live(d)} = UNION {Named(dir, x) : x \in Live(dir)}
        /\ \A data : \A m \in Names : m # n =>
              /\ FileExtents(dir, m) = FileExtents(d, m)
              /\ Contents(dir, data, m) = Contents(d, data, m)
              /\ OwnFile(dir, data, m) => OwnFile(d, data, m)
    <3>1. \A x \in FileExtents(dir, d[Entry].name) : Part(dir[x]) # Part(d[Entry])
      BY <1>1, <1>4, <1>8 DEF FileExtents
    <3>2. d[Entry].name # Free /\ \A i \in 0..Pointers - 1 : d[Entry].ptr[i] = 0
      BY <1>1, <1>4, <1>8 DEF NoEntry
    <3>3. /\ Sound(d)
          /\ UNION {Named(d, x) : x \in Live(d)} = UNION {Named(dir, x) : x \in Live(dir)}
          /\ \A data : \A m \in Names : m # d[Entry].name =>
                /\ FileExtents(dir, m) = FileExtents(d, m)
                /\ Contents(dir, data, m) = Contents(d, data, m)
                /\ OwnFile(dir, data, m) => OwnFile(d, data, m)
      BY <1>1, <1>4, <1>8, <3>1, <3>2, EmptyEntry
    <3> HIDE DEF n
    <3> QED BY <1>4, <3>3, Zenon
  <2>2. /\ Within(image.dir, d)
        /\ \A x \in Slots : \/ image.dir[x].name \notin touched \cup {Free}
                            \/ d[x].name \notin touched \cup {Free}
                            => image.dir[x] = d[x]
        /\ \A x \in Live(image.dir) : image.dir[x].name \notin touched
    <3>1. \A x \in Live(image.dir) : image.dir[x].name \notin touched
      BY <1>1 DEF FsInv, Kin
    <3> DEFINE w == touched
    <3>2. dir[Entry].name \in w \cup {Free} /\ d[Entry].name \in w /\ touched \subseteq w
      BY <1>1, <1>4, <1>5
    <3>3. \A x \in Live(image.dir) : image.dir[x].name \notin w
      BY <3>1
    <3>5. Entry \in Slots /\ \A s \in Slots \ {Entry} : d[s] = dir[s]
      BY <1>4
    <3> HIDE DEF w
    <3>4. /\ Within(image.dir, d)
          /\ \A x \in Slots : \/ image.dir[x].name \notin w \cup {Free}
                              \/ d[x].name \notin w \cup {Free}
                              => image.dir[x] = d[x]
      BY <1>1, <3>2, <3>3, <3>5, AddedKin
    <3>6. \A x \in Slots : \/ image.dir[x].name \notin touched \cup {Free}
                            \/ d[x].name \notin touched \cup {Free}
                            => image.dir[x] = d[x]
      BY <3>4, Zenon DEF w
    <3> QED BY <3>1, <3>4, <3>6
  <2>3. Sound(image.dir)' /\ Sound(dir)' /\ AlvExact'
    <3>1. Sound(dir') /\ AlvExact'
      BY <1>1, <1>2, <2>1 DEF FsInv, AlvExact
    <3> QED BY <1>2, <3>1 DEF FsInv
  <2>4. Kin' /\ Steady'
    <3>1. Kin'
      BY <1>1, <1>2, <2>2 DEF Kin, Copying, Live
    <3>2. Steady'
      BY <1>2, <2>2 DEF Steady
    <3> QED BY <3>1, <3>2
  <2>5. Synced'
    BY <1>1, <1>2, SlotInBlock DEF Synced
  <2>6. OwnCells'
    <3> SUFFICES ASSUME bad = 0 PROVE Own(image.dir, image.data) /\ Own(d, image.data)
      BY <1>2 DEF OwnCells
    <3>1. Own(image.dir, image.data) /\ Own(dir, image.data)
      BY DEF FsInv, OwnCells
    <3>2. Parts(dir, n, file.pos) /\ Written(dir, image.data, n, file.pos)
      BY <1>1 DEF FileRight, FsInv, FsControl
    <3>3. ASSUME NEW s \in FileExtents(d, n), NEW i \in 0..Pointers - 1, NEW o \in Offsets,
                 d[s].ptr[i] # 0
          PROVE  image.data[d[s].ptr[i]][o] \in {Zero, <<n, Place(d[s], i, o)>>}
      <4>1. s # Entry /\ s \in Slots /\ d[s] = dir[s] /\ s \in FileExtents(dir, n)
        <5>1. s # Entry
          BY <1>4, <1>8, <3>3 DEF NoEntry
        <5> QED BY <1>4, <5>1 DEF FileExtents
      <4> DEFINE j == Part(dir[s])
      <4>2. j \in Nat /\ j # k /\ k \in Nat /\ file.pos = k * Phys
        <5>1. j \in Nat
          BY <1>1, <4>1, EntryIs
        <5>2. k \in Nat
          BY <1>1, PartFound
        <5> QED BY <1>4, <1>8, <4>1, <5>1, <5>2
      <4>3. j = 0 \/ j * Phys < file.pos
        BY <3>2, <4>1 DEF Parts
      <4> DEFINE p == j * Phys + i * Blk + o
      <4>4. p < (j + 1) * Phys /\ p \in Nat
        BY <4>2, PlaceIs
      <4>5. Place(dir[s], i, o) = p
        BY DEF Place
      <4> HIDE DEF j, k, p
      <4>6. j + 1 <= k
        <5>1. Phys \in Nat
          BY Sizes
        <5>2. ASSUME k <= j PROVE FALSE
          <6>1. k * Phys <= j * Phys /\ k * Phys \in Int /\ j * Phys \in Int
            BY <4>2, <5>1, <5>2, TimesLeq
          <6>2. j = 0
            BY <4>2, <4>3, <6>1
          <6> QED BY <4>2, <5>2, <6>2
        <5> QED BY <4>2, <5>2
      <4>7. p < file.pos
        <5>1. Phys \in Nat
          BY Sizes
        <5>2. (j + 1) * Phys <= k * Phys /\ (j + 1) * Phys \in Int
          BY <4>2, <4>6, <5>1, TimesLeq
        <5> QED BY <1>1, <4>2, <4>4, <5>2
      <4>8. image.data[dir[s].ptr[i]][o] = <<n, Place(dir[s], i, o)>>
        BY <3>2, <4>1, <4>5, <4>7 DEF Written
      <4> QED BY <4>1, <4>8
    <3>4. OwnFile(d, image.data, n)
      BY <3>3 DEF OwnFile
    <3> QED BY <2>1, <3>1, <3>4 DEF Own
  <2>7. CopiedRight'
    <3> SUFFICES ASSUME ~lost, NEW m \in Names, copied[m] # NoFile
        PROVE  /\ Contents(d, image.data, m) = Recognised(m, copied[m].len, copied[m].number)
               /\ FileExtents(d, m) # {} /\ dirty /\ m \in touched
      BY <1>1, <1>2 DEF CopiedRight, Copying
    <3>1. /\ Contents(dir, image.data, m) = Recognised(m, copied[m].len, copied[m].number)
          /\ FileExtents(dir, m) # {} /\ m \in touched /\ dirty /\ m # n
      BY <1>1 DEF FsInv, CopiedRight
    <3> QED BY <2>1, <3>1
  <2> QED BY <1>2, <1>6, <2>3, <2>4, <2>5, <2>6, <2>7 DEF FsInv
<1> QED BY <1>7, <1>8

------------------------------------------------------------------------------
(* cpmrm, cpmchattr and the end of a tool keep the invariant.               *)

\* What is the same for cpmrm and cpmchattr: d is the directory after the call, for the
\* file n.
LEMMA ChangeKeeps ==
  ASSUME FsInv, NEW n \in Names, tool \in {"rm", "attr"}, sync = -1, NEW d \in Directory,
         Within(d, dir), \A s \in Slots : dir[s].name # n => d[s] = dir[s],
         \A s \in Slots : d[s].name \in {dir[s].name, Free},
         alv' = DirBlocks \cup UNION {Named(d, s) : s \in Live(d)}, alv' \subseteq Blocks,
         dir' = d, dirty' = TRUE, touched' = touched \cup {n},
         UNCHANGED <<image, tool, file, sync, copied, lost, runs, bad, kills>>
  PROVE  FsInv'
<1>1. /\ image.dir \in Directory /\ dir \in Directory /\ ~Copying /\ tool # "none"
      /\ file = NoFile /\ Within(dir, image.dir) /\ touched \subseteq Names /\ n # Free
  BY CpmFsSizes DEF FsInv, FsTyped, FsControl, Copying, Kin
<1>2. FsTyped' /\ FsControl'
  BY <1>1 DEF FsInv, FsTyped, FsControl
<1>3. Sound(image.dir)' /\ Sound(dir)' /\ AlvExact'
  <2>1. Sound(d)
    BY WithinSound DEF FsInv
  <2> QED BY <2>1 DEF FsInv, AlvExact
<1>4. Kin'
  <2>1. Within(d, image.dir)
    <3>1. ASSUME NEW s \in Slots, d[s].name # Free PROVE Like(d[s], image.dir[s])
      <4>1. Like(d[s], dir[s])
        BY <3>1 DEF Within
      <4>2. Like(dir[s], image.dir[s])
        BY <1>1, <3>1, <4>1 DEF Within, Like
      <4> QED BY <4>1, <4>2 DEF Like
    <3> QED BY <3>1 DEF Within
  <2> QED BY <1>1, <2>1 DEF Kin, Copying
<1>5. Steady'
  <2> SUFFICES ASSUME NEW s \in Slots,
                      \/ image.dir[s].name \notin touched \cup {n, Free}
                      \/ d[s].name \notin touched \cup {n, Free}
      PROVE  image.dir[s] = d[s]
    BY DEF Steady
  <2>1. \/ image.dir[s].name \notin touched \cup {Free}
        \/ dir[s].name \notin touched \cup {Free}
    OBVIOUS
  <2>2. image.dir[s] = dir[s]
    BY <1>1, <2>1 DEF FsInv, Steady
  <2>3. dir[s].name # n
    BY <2>2
  <2> QED BY <2>2, <2>3
<1>6. Synced'
  BY SlotInBlock DEF Synced
<1>7. OwnCells'
  <2>1. bad = 0 => Own(d, image.data)
    BY WithinOwn DEF FsInv, OwnCells
  <2> QED BY <2>1 DEF FsInv, OwnCells
<1>8. CopiedRight'
  BY <1>1 DEF FsInv, CopiedRight, Copying
<1> QED BY <1>1, <1>2, <1>3, <1>4, <1>5, <1>6, <1>7, <1>8 DEF FsInv

\* A file is removed.
LEMMA UnlinkKeeps ==
  ASSUME FsInv, NEW n \in Names, CpmUnlink(n)
  PROVE  FsInv'
<1> DEFINE d == [s \in Slots |-> IF dir[s].name = n THEN [dir[s] EXCEPT !.name = Free] ELSE dir[s]]
<1>1. /\ dir \in Directory /\ tool \in {"rm", "attr"} /\ sync = -1
      /\ dir' = d /\ dirty' = TRUE /\ touched' = touched \cup {n} /\ alv' = AlvInit(d)
      /\ UNCHANGED <<image, tool, file, sync, copied, lost, runs, bad, kills>>
  <2>1. alv' = AlvInit(dir') /\ dir' = d
    BY DEF CpmUnlink
  <2>2. alv' = AlvInit(d)
    BY <2>1, Zenon
  <2> QED BY <2>1, <2>2 DEF CpmUnlink, FsInv, FsTyped
<1>2. d \in Directory
  <2>1. ASSUME NEW e \in EntryType PROVE [e EXCEPT !.name = Free] \in EntryType
    BY DEF EntryType
  <2> QED BY <1>1, <2>1 DEF Directory
<1>3. \A s \in Slots : dir[s].name # n => d[s] = dir[s]
  OBVIOUS
<1>4. \A s \in Slots : dir[s].name = n => d[s].name = Free
  BY <1>1 DEF Directory, EntryType
<1> HIDE DEF d
<1>5. Within(d, dir)
  BY <1>3, <1>4 DEF Within, Like
<1>6. \A s \in Slots : d[s].name \in {dir[s].name, Free}
  BY <1>3, <1>4
<1>7. AlvInit(d) \subseteq Blocks
      /\ AlvInit(d) = DirBlocks \cup UNION {Named(d, s) : s \in Live(d)}
  BY <1>2, AlvInitIs
<1> QED BY <1>1, <1>2, <1>3, <1>5, <1>6, <1>7, ChangeKeeps

\* The attributes of a file are changed.
LEMMA AttrSetKeeps ==
  ASSUME FsInv, NEW n \in Names, NEW ro \in BOOLEAN, CpmAttrSet(n, ro)
  PROVE  FsInv'
<1> DEFINE d == [s \in Slots |-> IF dir[s].name = n /\ s >= Lowest(dir, n)
                                 THEN [dir[s] EXCEPT !.ro = ro] ELSE dir[s]]
<1>1. /\ dir \in Directory /\ tool \in {"rm", "attr"} /\ sync = -1
      /\ dir' = d /\ dirty' = TRUE /\ touched' = touched \cup {n}
      /\ UNCHANGED <<image, alv, tool, file, sync, copied, lost, runs, bad, kills>>
      /\ tool # "none" /\ alv \subseteq Blocks
  BY DEF CpmAttrSet, FsInv, FsTyped
<1>2. d \in Directory
  <2>1. ASSUME NEW e \in EntryType PROVE [e EXCEPT !.ro = ro] \in EntryType
    BY DEF EntryType
  <2> QED BY <1>1, <2>1 DEF Directory
<1>3. \A s \in Slots : dir[s].name # n => d[s] = dir[s]
  OBVIOUS
<1>4. \A s \in Slots : Like(d[s], dir[s])
  BY <1>1 DEF Directory, EntryType, Like
<1> HIDE DEF d
<1>5. Within(d, dir) /\ \A s \in Slots : d[s].name \in {dir[s].name, Free}
  BY <1>4 DEF Within, Like
<1>6. Live(d) = Live(dir) /\ \A s \in Slots : Named(d, s) = Named(dir, s)
  BY <1>4 DEF Like, Live, Named
<1>7. alv' = DirBlocks \cup UNION {Named(d, s) : s \in Live(d)} /\ alv' \subseteq Blocks
  <2>1. UNION {Named(d, s) : s \in Live(d)} = UNION {Named(dir, s) : s \in Live(dir)}
    <3>1. \A s \in Live(d) : Named(d, s) = Named(dir, s)
      BY <1>6 DEF Live
    <3> QED BY <1>6, <3>1
  <2>2. alv = DirBlocks \cup UNION {Named(dir, s) : s \in Live(dir)}
    BY <1>1 DEF FsInv, AlvExact
  <2> QED BY <1>1, <2>1, <2>2
<1> QED BY <1>1, <1>2, <1>3, <1>5, <1>7, ChangeKeeps

\* When a tool has ended, only the image remains.
LEMMA EndedRight ==
  ASSUME FsInv, Ended, Sound(image'.dir), bad' = 0 => Own(image'.dir, image'.data),
         image' \in [dir : Directory, data : [Blocks -> [Offsets -> Cells]]],
         lost' \in BOOLEAN, runs' = runs, bad' \in 0..Faults, kills' \in 0..Faults,
         bad' + kills' <= Faults, DOMAIN copied' = Names, CopiedRight'
  PROVE  FsInv'
<1> DEFINE d == [s \in Slots |-> NoEntry]
<1>1. /\ tool' = "none" /\ file' = NoFile /\ sync' = -1 /\ dir' = d /\ alv' = {}
      /\ dirty' = FALSE /\ touched' = {}
  BY DEF Ended
<1>2. d \in Directory /\ \A s \in Slots : d[s].name = Free
  <2>1. NoEntry \in EntryType
    <3>1. 0 \in 0..MaxLen \div Lx /\ 0 \in 0..Lx \div Rec /\ 0 \in 0..Rec - 1
      <4>1. MaxLen \div Lx \in Nat /\ Lx \div Rec \in Nat /\ Rec \in Nat \ {0}
        <5>1. MaxLen \in Nat /\ Lx \in Nat \ {0} /\ Rec \in Nat \ {0}
          BY Sizes
        <5> QED BY <5>1, Division
      <4> QED BY <4>1
    <3> QED BY <3>1 DEF EntryType, NoEntry
  <2> QED BY <2>1 DEF Directory, NoEntry
<1> HIDE DEF d
<1>3. FsTyped' /\ FsControl'
  BY <1>1, <1>2 DEF FsInv, FsTyped, FsControl
<1>4. Sound(dir')
  BY <1>1, <1>2 DEF Sound, Apart, PointersOf, Live
<1>5. AlvExact' /\ Kin' /\ Steady'
  BY <1>1 DEF AlvExact, Kin, Steady, Copying
<1>6. Synced'
  BY <1>1, SlotInBlock DEF Synced
<1>7. OwnCells'
  <2>1. \A n \in Names : FileExtents(d, n) = {}
    BY <1>2, CpmFsSizes DEF FileExtents
  <2>2. Own(d, image'.data)
    BY <2>1 DEF Own, OwnFile
  <2> QED BY <1>1, <2>2 DEF OwnCells
<1> QED BY <1>1, <1>3, <1>4, <1>5, <1>6, <1>7 DEF FsInv

\* A tool that has changed nothing ends at once.
LEMMA UmountKeeps ==
  ASSUME FsInv, Umount
  PROVE  FsInv'
<1>1. /\ tool # "none" /\ file = NoFile /\ sync = -1
      /\ UNCHANGED <<image, copied, lost, runs, bad, kills>>
  BY DEF Umount, Idle
<1>2. CASE dirty
  <2>1. sync' = 0 /\ UNCHANGED <<tool, file, dir, alv, dirty, touched>>
    BY <1>2 DEF Umount
  <2>2. FsTyped' /\ FsControl'
    BY <1>1, <2>1, DirectoryFits DEF FsInv, FsTyped, FsControl
  <2>3. Sound(image.dir)' /\ Sound(dir)' /\ AlvExact' /\ Kin' /\ Steady'
    BY <1>1, <2>1 DEF FsInv, AlvExact, Kin, Steady, Copying
  <2>4. Synced'
    BY <2>1, SlotInBlock DEF Synced
  <2>5. OwnCells' /\ CopiedRight'
    BY <1>1, <2>1 DEF FsInv, OwnCells, CopiedRight, Copying
  <2> QED BY <1>1, <2>1, <2>2, <2>3, <2>4, <2>5 DEF FsInv
<1>3. CASE ~dirty
  <2>1. Ended
    BY <1>3 DEF Umount
  <2>2. CopiedRight'
    BY <1>1, <1>3 DEF FsInv, CopiedRight
  <2> QED BY <1>1, <2>1, <2>2, EndedRight DEF FsInv, FsTyped, OwnCells
<1> QED BY <1>2, <1>3

\* A block of the directory is written: at every moment the one on the image is a
\* mixture of two of which one is part of the other.
LEMMA SyncBlockKeeps ==
  ASSUME FsInv, SyncBlock
  PROVE  FsInv'
<1> DEFINE d == [s \in Slots |-> IF s \in SlotsOf(sync) THEN dir[s] ELSE image.dir[s]]
<1>1. /\ image.dir \in Directory /\ dir \in Directory /\ sync \in DirBlocks /\ sync # -1
      /\ tool # "none" /\ file = NoFile
      /\ image \in [dir : Directory, data : [Blocks -> [Offsets -> Cells]]]
  BY DEF FsInv, FsTyped, FsControl, SyncBlock, DirBlocks
<1>2. /\ image' = [image EXCEPT !.dir = d]
      /\ UNCHANGED <<copied, lost, runs, bad, kills>>
  BY Zenon DEF SyncBlock
<1>3. d \in Directory /\ \A s \in Slots : d[s] \in {dir[s], image.dir[s]}
  BY <1>1 DEF Directory
<1>4. \A s \in Slots : s \div DirPerBlock = sync => d[s] = dir[s]
  BY DEF SlotsOf
<1> HIDE DEF d
<1>5. /\ image' \in [dir : Directory, data : [Blocks -> [Offsets -> Cells]]]
      /\ image'.dir = d /\ image'.data = image.data
  BY <1>1, <1>2, <1>3
<1>6. /\ Copying => Within(d, dir)
      /\ tool \in {"rm", "attr"} => Within(d, image.dir) /\ Within(dir, d)
      /\ tool \in {"rm", "attr"} \/ Copying
  <2>1. /\ Copying => Within(image.dir, dir)
        /\ tool \in {"rm", "attr"} => Within(dir, image.dir)
        /\ tool \in {"rm", "attr"} \/ Copying
    BY <1>1 DEF FsInv, FsTyped, Kin, Copying
  <2> QED BY <1>3, <2>1 DEF Within, Like
<1>7. Sound(d) /\ (bad' = 0 => Own(d, image.data))
  <2>1. Sound(dir) /\ Sound(image.dir)
        /\ (bad' = 0 => Own(dir, image.data) /\ Own(image.dir, image.data))
    BY <1>2 DEF FsInv, OwnCells
  <2> QED BY <1>6, <2>1, WithinSound, WithinOwn
<1>8. CASE sync + 1 \in DirBlocks
  <2>1. sync' = sync + 1 /\ UNCHANGED <<tool, file, dir, alv, dirty, touched>>
    BY <1>8 DEF SyncBlock
  <2>2. FsTyped' /\ FsControl'
    BY <1>1, <1>2, <1>5, <1>8, <2>1 DEF FsInv, FsTyped, FsControl
  <2>3. Sound(image.dir)' /\ Sound(dir)' /\ AlvExact'
    BY <1>5, <1>7, <2>1 DEF FsInv, AlvExact
  <2>4. Kin'
    <3>1. sync' # -1
      BY <1>8, <2>1 DEF DirBlocks
    <3> QED BY <1>5, <1>6, <2>1, <3>1 DEF Kin, Copying
  <2>5. Steady'
    <3>1. \A s \in Slots : \/ d[s].name \notin touched \cup {Free}
                           \/ dir[s].name \notin touched \cup {Free}
                           => d[s] = dir[s]
      BY <1>1, <1>3 DEF FsInv, Steady
    <3> QED BY <1>5, <2>1, <3>1 DEF Steady
  <2>6. Synced'
    <3>1. ASSUME NEW s \in Slots, s \div DirPerBlock < sync + 1 PROVE d[s] = dir[s]
      <4> DEFINE q == s \div DirPerBlock
      <4>1. q \in Nat /\ sync \in Int
        BY <1>1, SlotInBlock DEF DirBlocks
      <4>2. q = sync => d[s] = dir[s]
        BY <1>4
      <4>3. q < sync => image.dir[s] = dir[s]
        BY DEF FsInv, Synced
      <4>4. q < sync + 1
        BY <3>1
      <4> HIDE DEF q
      <4>5. q = sync \/ q < sync
        BY <4>1, <4>4
      <4> QED BY <1>3, <4>2, <4>3, <4>5
    <3> QED BY <1>5, <2>1, <3>1 DEF Synced
  <2>7. OwnCells'
    BY <1>2, <1>5, <1>7, <2>1 DEF FsInv, OwnCells
  <2>8. CopiedRight'
    BY <1>1, <1>2, <1>5, <2>1 DEF FsInv, CopiedRight, Copying
  <2> QED BY <1>1, <2>1, <2>2, <2>3, <2>4, <2>5, <2>6, <2>7, <2>8 DEF FsInv
<1>9. CASE sync + 1 \notin DirBlocks
  <2>1. Ended
    BY <1>9 DEF SyncBlock
  <2>2. d = dir
    <3>1. ASSUME NEW s \in Slots PROVE d[s] = dir[s]
      <4> DEFINE q == s \div DirPerBlock
                 c == Ceil(MaxDir, DirPerBlock)
      <4>1. q \in DirBlocks /\ q \in Nat /\ DirBlocks = 0..c - 1
        BY SlotInBlock DEF DirBlocks
      <4>2. q = sync => d[s] = dir[s]
        BY <1>4
      <4>3. q < sync => image.dir[s] = dir[s]
        BY DEF FsInv, Synced
      <4>5. c \in Nat
        <5> DEFINE a == MaxDir + DirPerBlock - 1
        <5>1. DirPerBlock \in Nat \ {0} /\ a \in Nat
          BY CpmFsSizes
        <5> HIDE DEF a
        <5>2. a \div DirPerBlock \in Nat
          BY <5>1, Division
        <5> QED BY <5>2 DEF a, Ceil
      <4> HIDE DEF q, c
      <4>4. q = sync \/ q < sync
        BY <1>1, <1>9, <4>1, <4>5
      <4> QED BY <1>3, <4>2, <4>3, <4>4
    <3> QED BY <1>1, <1>3, <3>1 DEF Directory
  <2>3. CopiedRight'
    <3> SUFFICES ASSUME ~lost, NEW n \in Names, copied[n] # NoFile
        PROVE  Contents(d, image.data, n) = Recognised(n, copied[n].len, copied[n].number)
      BY <1>2, <1>5, <2>1 DEF CopiedRight, Ended, OnImage
    <3> QED BY <1>1, <2>2 DEF FsInv, CopiedRight
  <2> QED BY <1>2, <1>5, <1>7, <2>1, <2>3, EndedRight DEF FsInv, FsTyped
<1> QED BY <1>8, <1>9

\* A tool that fails or is killed leaves a sound image.
LEMMA AbortKeeps ==
  ASSUME FsInv, SyncFails \/ Killed
  PROVE  FsInv'
<1>1. /\ Ended /\ lost' = TRUE /\ copied' = Nothing /\ UNCHANGED <<image, runs>>
      /\ MayFail
      /\ \/ bad' = bad + 1 /\ kills' = kills
         \/ bad' = bad /\ kills' = kills + 1
  BY DEF SyncFails, Killed
<1>2. bad \in Nat /\ kills \in Nat /\ Faults \in Nat /\ bad + kills < Faults
  BY <1>1, Sizes DEF FsInv, FsTyped, MayFail
<1>3. bad' \in 0..Faults /\ kills' \in 0..Faults /\ bad' + kills' <= Faults
      /\ (bad' = 0 => bad = 0)
  BY <1>1, <1>2
<1>4. CopiedRight' /\ DOMAIN copied' = Names /\ lost' \in BOOLEAN
  BY <1>1 DEF CopiedRight, Nothing
<1> QED BY <1>1, <1>3, <1>4, EndedRight DEF FsInv, FsTyped, OwnCells

------------------------------------------------------------------------------
(* The theorems.                                                            *)

\* An image without files satisfies the invariant.
LEMMA FsInitRight ==
  ASSUME FsInit
  PROVE  FsInv
<1> DEFINE d == [s \in Slots |-> NoEntry]
           x == [b \in Blocks |-> [o \in Offsets |-> Junk]]
<1>1. /\ image = [dir |-> d, data |-> x] /\ dir = d /\ alv = {} /\ dirty = FALSE
      /\ tool = "none" /\ file = NoFile /\ sync = -1 /\ touched = {}
      /\ copied = Nothing /\ lost = FALSE /\ runs = 0 /\ bad = 0 /\ kills = 0
  BY DEF FsInit
<1>2. d \in Directory /\ \A s \in Slots : d[s].name = Free
  <2>1. NoEntry \in EntryType
    <3>1. 0 \in 0..MaxLen \div Lx /\ 0 \in 0..Lx \div Rec /\ 0 \in 0..Rec - 1
      <4>1. MaxLen \div Lx \in Nat /\ Lx \div Rec \in Nat /\ Rec \in Nat \ {0}
        <5>1. MaxLen \in Nat /\ Lx \in Nat \ {0} /\ Rec \in Nat \ {0}
          BY Sizes
        <5> QED BY <5>1, Division
      <4> QED BY <4>1
    <3> QED BY <3>1 DEF EntryType, NoEntry
  <2> QED BY <2>1 DEF Directory, NoEntry
<1>3. x \in [Blocks -> [Offsets -> Cells]]
  BY DEF Cells
<1> HIDE DEF d, x
<1>4. image.dir = d /\ image.data = x
  BY <1>1
<1>5. FsTyped /\ FsControl
  <2>1. image \in [dir : Directory, data : [Blocks -> [Offsets -> Cells]]]
    BY <1>1, <1>2, <1>3
  <2>2. DOMAIN copied = Names
    BY <1>1 DEF Nothing
  <2>3. 0 \in 0..Faults /\ 0 + 0 <= Faults /\ 0 \in 0..Sessions
    BY Sizes
  <2>4. FsTyped
    BY <1>1, <1>2, <2>1, <2>2, <2>3 DEF FsTyped
  <2>5. FsControl
    BY <1>1 DEF FsControl
  <2> QED BY <2>4, <2>5
<1>6. Sound(d)
  BY <1>2 DEF Sound, Apart, PointersOf, Live
<1>7. AlvExact /\ Kin /\ Steady
  BY <1>1 DEF AlvExact, Kin, Steady, Copying
<1>8. Synced
  BY <1>1, SlotInBlock DEF Synced
<1>9. OwnCells
  <2>1. \A n \in Names : FileExtents(d, n) = {}
    BY <1>2, CpmFsSizes DEF FileExtents
  <2> QED BY <1>1, <1>4, <2>1 DEF OwnCells, Own, OwnFile
<1>10. CopiedRight
  BY <1>1 DEF CopiedRight, Nothing
<1> QED BY <1>1, <1>4, <1>5, <1>6, <1>7, <1>8, <1>9, <1>10 DEF FsInv

\* Every step keeps the invariant.
LEMMA FsStepRight ==
  ASSUME FsInv, [FsNext]_fsVars
  PROVE  FsInv'
<1>1. CASE UNCHANGED fsVars
  BY <1>1 DEF FsInv, FsTyped, FsControl, AlvExact, Kin, Steady, Synced, OwnCells, CopiedRight,
              FileRight, Copying, Live, OnImage, fsVars
<1>2. ASSUME NEW t \in {"cp", "text", "rm", "attr"}, Start(t) PROVE FsInv'
  BY <1>2, StartKeeps
<1>3. ASSUME NEW n \in Names, CpmCreat(n) PROVE FsInv'
  BY <1>3, CpmCreatKeeps
<1>4. CASE NextBuffer
  BY <1>4, NextBufferKeeps
<1>5. CASE WriteDirectoryFull \/ WriteReadFails
  BY <1>5, GiveUpKeeps
<1>6. CASE WriteDeviceFull
  BY <1>6, WriteDeviceFullKeeps
<1>7. CASE WritePiece
  BY <1>7, WritePieceKeeps
<1>8. CASE Copied
  BY <1>8, CopiedKeeps
<1>9. ASSUME NEW n \in Names, CpmUnlink(n) PROVE FsInv'
  BY <1>9, UnlinkKeeps
<1>10. ASSUME NEW n \in Names, NEW ro \in BOOLEAN, CpmAttrSet(n, ro) PROVE FsInv'
  BY <1>10, AttrSetKeeps
<1>11. CASE Umount
  BY <1>11, UmountKeeps
<1>12. CASE SyncBlock
  BY <1>12, SyncBlockKeeps
<1>13. CASE SyncFails \/ Killed
  BY <1>13, AbortKeeps
<1> QED
  BY <1>1, <1>2, <1>3, <1>4, <1>5, <1>6, <1>7, <1>8, <1>9, <1>10, <1>11, <1>12, <1>13 DEF FsNext

\* The inductive invariant holds: whatever tools are run, fail and are killed, the
\* directory on the image and the one in memory are sound, akin, and agree on the files
\* the tool was not called for.
THEOREM FsInvariantHolds == FsSpec => []FsInv
<1>1. FsInit => FsInv
  BY FsInitRight
<1>2. FsInv /\ [FsNext]_fsVars => FsInv'
  BY FsStepRight
<1> QED BY <1>1, <1>2, PTL DEF FsSpec

\* Types: a directory entry never counts more records than an extent has, and
\* points to blocks behind the directory only.
THEOREM FsTypesRight == FsSpec => []FsTypeOK
<1>1. FsInv => FsTypeOK
  BY DEF FsInv, FsTyped, FsTypeOK, Directory, FileType
<1> QED BY <1>1, FsInvariantHolds, PTL

\* Two entries never point to one block and no two entries are for one part of a file, on
\* the image at every moment, and the allocation vector of the tool that runs is exact:
\* no two files ever get one block.
THEOREM SpaceIsSound == FsSpec => []SpaceSound
<1>1. FsInv => SpaceSound
  <2> SUFFICES ASSUME FsInv PROVE ImageSound
    BY DEF FsInv, SpaceSound
  <2>1. Sound(image.dir)
    BY DEF FsInv
  <2> QED BY <2>1 DEF ImageSound, Sound, Part
<1> QED BY <1>1, FsInvariantHolds, PTL

\* As long as no write failed, every cell that is read off the image is zero or
\* the file's own, whatever was removed, given up or interrupted before.
THEOREM DataIsOwn == FsSpec => []OwnData
<1>1. FsInv => OwnData
  <2> SUFFICES ASSUME FsInv, bad = 0, NEW n \in Names, OnImage(n) # NoFile,
                      NEW p \in DOMAIN OnImage(n)
      PROVE  OnImage(n)[p] \in {Zero, <<n, p>>}
    BY DEF OwnData
  <2> DEFINE d == image.dir
             x == image.data
  <2>1. /\ d \in Directory /\ Sound(d) /\ Own(d, x) /\ FileExtents(d, n) # {}
    BY DEF FsInv, FsTyped, OwnCells, OnImage, Contents
  <2>2. OnImage(n) = [q \in 0..SizeOf(d, n) - 1 |-> ReadCell(d, x, n, q)]
    BY <2>1 DEF OnImage, Contents
  <2> HIDE DEF d, x
  <2>3. p \in 0..SizeOf(d, n) - 1
    BY <2>2
  <2>4. ReadCell(d, x, n, p) \in {Zero, <<n, p>>}
    BY <2>1, <2>3, OwnRead
  <2> QED BY <2>2, <2>3, <2>4
<1> QED BY <1>1, FsInvariantHolds, PTL

\* What cpmWrite has written reads back as it was written, over partial sectors, new
\* blocks and new entries, and what cpmcp has copied without an error is on the
\* image when it has ended.
THEOREM CopiesAreDelivered == FsSpec => []Delivered
<1>1. FsInv => Delivered
  <2> SUFFICES ASSUME FsInv PROVE Delivered
    OBVIOUS
  <2>1. ReadBack
    <3> SUFFICES ASSUME Copying, file # NoFile, ~lost
        PROVE  Contents(dir, image.data, file.name)
                  = Recognised(file.name, file.pos, file.extentno)
      BY DEF ReadBack
    <3>1. file \in FileType /\ FileRight(file) /\ dir \in Directory
      BY DEF FsInv, FsTyped
    <3>2. file.name \in Names /\ file.pos \in Nat
      BY <3>1 DEF FileType
    <3> QED BY <3>1, <3>2, WrittenIsRead DEF FileRight
  <2>2. tool = "none" /\ ~lost =>
          \A n \in Names : copied[n] # NoFile
             => OnImage(n) = Recognised(n, copied[n].len, copied[n].number)
    BY DEF FsInv, CopiedRight
  <2> QED BY <2>1, <2>2 DEF Delivered
<1> QED BY <1>1, FsInvariantHolds, PTL

\* No step of a tool changes a file it was not called for, also when it is killed
\* and when a write fails.
LEMMA FilesStay ==
  ASSUME FsInv, FsInv', [FsNext]_fsVars, NEW n \in Names, n \notin touched
  PROVE  OnImage(n)' = OnImage(n)
<1>1. n # Free
  BY CpmFsSizes
<1>2. CASE UNCHANGED image
  BY <1>2 DEF OnImage
<1>3. CASE WritePiece
  <2> DEFINE data == image'.data
  <2>1. CanWrite
    BY <1>3 DEF WritePiece, CanWrite
  <2>2. /\ image.dir' = image.dir
        /\ \A b \in DataBlocks : b # Target => data[b] = image.data[b]
    <3>1. \/ image' = [image EXCEPT !.data[Target] = NewData(@)]
          \/ UNCHANGED image
      BY <1>3, Zenon DEF WritePiece, Target
    <3>2. image \in [dir : Directory, data : [Blocks -> [Offsets -> Cells]]]
      BY DEF FsInv, FsTyped
    <3> QED BY <3>1, <3>2 DEF DataBlocks
  <2> HIDE DEF data
  <2>3. Contents(image.dir, data, n) = OnImage(n)
    BY <2>1, <2>2, ImageFrame
  <2> QED BY <2>2, <2>3 DEF OnImage, data
<1>4. CASE SyncBlock
  <2> DEFINE d == [s \in Slots |-> IF s \in SlotsOf(sync) THEN dir[s] ELSE image.dir[s]]
             old == image.dir
             data == image.data
  <2>1. /\ old \in Directory /\ dir \in Directory /\ tool # "none"
        /\ image \in [dir : Directory, data : [Blocks -> [Offsets -> Cells]]]
    BY <1>4 DEF FsInv, FsTyped, FsControl, SyncBlock, DirBlocks
  <2>2. d \in Directory /\ \A s \in Slots : d[s] \in {dir[s], old[s]}
    BY <2>1 DEF Directory
  <2>3. image' = [image EXCEPT !.dir = d]
    BY <1>4, Zenon DEF SyncBlock
  <2> HIDE DEF d
  <2>4. image'.dir = d /\ image'.data = data
    BY <2>1, <2>3
  <2>5. ASSUME NEW s \in Slots, old[s].name = n \/ d[s].name = n PROVE old[s] = d[s]
    <3>1. old[s].name \notin touched \cup {Free} \/ dir[s].name \notin touched \cup {Free}
          => old[s] = dir[s]
      BY <2>1 DEF FsInv, Steady
    <3> QED BY <1>1, <2>2, <2>5, <3>1
  <2> HIDE DEF old, data
  <2>6. Contents(old, data, n) = Contents(d, data, n)
    BY <2>1, <2>2, <2>5, SameContents
  <2> QED BY <2>4, <2>6 DEF OnImage, old, data
<1>5. UNCHANGED image \/ WritePiece \/ SyncBlock
  BY DEF FsNext, fsVars, Start, CpmCreat, NextBuffer, WriteDirectoryFull, WriteDeviceFull,
         WriteReadFails, Copied, CpmUnlink, CpmAttrSet, Umount, SyncFails, Killed
<1> QED BY <1>2, <1>3, <1>4, <1>5

\* A tool changes nothing in the files it was not called for.
THEOREM BystandersStay == FsSpec => Bystanders
<1>1. FsInv /\ FsInv' /\ [FsNext]_fsVars
        => [\A n \in Names : n \notin touched => OnImage(n)' = OnImage(n)]_fsVars
  BY FilesStay
<1> QED BY <1>1, FsInvariantHolds, PTL DEF FsSpec, Bystanders
=============================================================================
