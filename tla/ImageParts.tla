----------------------------- MODULE ImageParts -----------------------------
(***************************************************************************)
(* Runs of the program over the parts of an image that are turned on their *)
(* way: the SMC, the key vaults and the loaders.  A run reads its options  *)
(* and either loads an image and dumps its parts with an ini that names    *)
(* them, or reads an ini, writes an image in memory, loads it back and     *)
(* saves it.  Runs follow each other over the same directory; between two  *)
(* a user may correct the ini the program wrote.                           *)
(***************************************************************************)
EXTENDS ImageLoaders, Keyvault, CommandLine

CONSTANTS
  Consoles,      \* images of consoles
  Kits,          \* directories made by hand: [files, vaults, ini]
  CommandLines   \* the arguments of runs

VARIABLES
  phase,    \* how far the run is; "ready" between runs
  opts,     \* the options of the run
  mem,      \* CXeFlashImage: [bl, smc, kv, alt]
  image,    \* the image buffer
  dir,      \* the directory: [files: name -> loader, vaults: name -> vault, smc]
  inis,     \* path -> ini file
  images,   \* path -> saved image
  given     \* history: what was read from an ini or an image, for the properties

vars == <<phase, opts, mem, image, dir, inis, images, given>>

Fresh == [bl |-> [l \in Ids |-> Unset], smc |-> [data |-> 0, plain |-> FALSE],
          kv |-> NoVault, alt |-> NoVault]

\* The buffer of CreateDefaults.
Blank ==
  [beta |-> FALSE, zeroed |-> FALSE, big |-> FALSE, junk |-> 0, cells |-> <<>>, smc |-> 0,
   kv |-> NoVault, alt |-> NoVault, tails |-> [i \in Slots |-> NoTail]]

\* A path is in neither domain, or in one of them.
NoPaths == <<>>
On(paths, path, x)  == [p \in DOMAIN paths \cup {path} |-> IF p = path THEN x ELSE paths[p]]
Without(paths, path) == [p \in DOMAIN paths \ {path} |-> paths[p]]

-----------------------------------------------------------------------------
(* Names of files *)

\* Mutant: both 2BL get one letter.
LetterShared(l) ==
  CASE l = "1BL" -> "1BL_B" [] l \in {"2BL", "2BL_B"} -> "B" [] l = "3BL" -> "C"
    [] l = "4BL" -> "D" [] l = "5BL" -> "E" [] l \in {"6BL", "6BL_B"} -> "F" [] OTHER -> "G"

Letter(l) ==
  CASE l = "1BL" -> "1BL_B" [] l = "2BL" -> "B_A" [] l = "2BL_B" -> "B_B" [] l = "3BL" -> "C"
    [] l = "4BL" -> "D" [] l = "5BL" -> "E" [] l \in {"6BL", "6BL_B"} -> "F" [] OTHER -> "G"

\* DumpBootloaders: S for devkit loaders and without a CPU key.
DumpName(cpu, bl, l) ==
  <<IF l # "1BL" /\ (bl[l].part.dev \/ cpu = "null") THEN "S" ELSE "C", Letter(l), bl[l].part.build>>

\* WriteImageIni: S when the 2BL is a devkit's, and F for a 7BL.
IniName(bl, l) ==
  <<IF l # "1BL" /\ isValid("2BL", bl["2BL"]) /\ bl["2BL"].part.dev THEN "S" ELSE "C",
    IF Letter(l) = "G" THEN "F" ELSE Letter(l), bl[l].part.build>>

Present(bl) == {l \in Ids : isValid(l, bl[l])}

\* The order of DumpBootloaders: of two files of one name the later one stays.
DumpOrder == <<"1BL", "2BL", "2BL_B", "3BL", "4BL", "5BL", "6BL", "7BL", "6BL_B", "7BL_B">>

DumpBootloaders(files, cpu, bl) ==
  LET calls    == {k \in DOMAIN DumpOrder : DumpOrder[k] \in Present(bl)}
      name(k)  == DumpName(cpu, bl, DumpOrder[k])
      dumped   == {name(k) : k \in calls}
      latest(n) == CHOOSE k \in calls : name(k) = n /\ \A j \in calls : name(j) = n => j <= k
  IN  [n \in DOMAIN files \cup dumped |->
         IF n \in dumped THEN bl[DumpOrder[latest(n)]].part ELSE files[n]]

-----------------------------------------------------------------------------
(* Dumping *)

\* DumpKeyVaults, a vault at a time: what goes to the two names, and what is
\* left.  The alternative vault is only ever asked for the state it is in.
Named(name, v) == <<name, IF v.plain THEN "dec" ELSE "enc">>

DumpVault(vaults, name, v, cpu) ==
  LET first  == SaveVault(v, ~ v.plain, cpu)
      second == SaveVault(first, first.plain, cpu)
  IN  [vaults |-> On(On(vaults, Named(name, first), first), Named(name, second), second),
       left   |-> SaveVault(second, ~ second.plain, cpu)]

DumpAltVault(vaults, v, cpu) ==
  LET first  == SaveVault(v, ~ v.plain, cpu)
      second == SaveVault(first, ~ first.plain, cpu)
  IN  [vaults |-> On(On(vaults, Named("AltKV", v), v), Named("AltKV", first), first),
       left   |-> second]

DumpKeyVaults(vaults, m, cpu) ==
  LET main == DumpVault(vaults, "KV", m.kv, cpu)
      alt  == DumpAltVault(main.vaults, m.alt, cpu)
  IN  IF m.kv.plain /\ m.kv.alt
      THEN [vaults |-> alt.vaults, kv |-> main.left, alt |-> alt.left]
      ELSE [vaults |-> main.vaults, kv |-> main.left, alt |-> m.alt]

\* WriteImageIni; a second line for the same key joins the values.
WriteImageIni(m, i) ==
  [bl    |-> [l \in Present(m.bl) |-> IniName(m.bl, l)],
   kv    |-> IF m.alt.plain THEN <<"KV joined", "dec">> ELSE <<"KV", "dec">>,
   alt   |-> {},
   files |-> {j \in Slots : ~ i.beta /\ i.tails[j].there},
   big   |-> i.big]

-----------------------------------------------------------------------------
(* What runs begin with *)

\* Loaders of a chain do not lie on each other.
Apart(cells) == \A a, b \in DOMAIN cells : a < b => a + cells[a].len <= b \/ b >= Sys

\* What is taken for a loader, and a loader that is one; a 7BL has more than its
\* slot holds, as line 1436 of CXeFlashImage.cpp takes for granted.
Fields(p) ==
  /\ p = [magic |-> p.magic, text |-> p.text, len |-> p.len, build |-> p.build, dev |-> p.dev,
          dual |-> p.dual, old |-> p.old, digest |-> p.digest, used |-> p.used, under |-> p.under]
  /\ p.len \in Int /\ p.digest \in -1..1 /\ p.used \in Nat

SoundLoader(p) ==
  /\ Fields(p)
  /\ p.text \in Ids /\ p.magic = Magic(p.text) /\ p.len > 0
  /\ p.magic = "7BL" => p.len >= Slot

\* The nonce of a vault is that of its plain data.
SoundVault(v) ==
  /\ v = [under |-> v.under, nonce |-> v.nonce, plain |-> v.plain, alt |-> v.alt]
  /\ v.nonce[2] = "plain" /\ v.plain \in BOOLEAN
  /\ v.plain => v.under = {}

\* Only the first loader of a chain is the first 2BL, and beta kits have no second.
SoundCells(i) ==
  /\ \A a \in DOMAIN i.cells :
       /\ a \in Nat /\ SoundLoader(i.cells[a])
       /\ i.cells[a].text = "2BL_B" => ~ i.beta /\ a # Entry
       /\ i.cells[a].text = "2BL" => i.beta \/ a = Entry
  /\ Apart(i.cells)

SoundTails(tails) ==
  /\ tails = [j \in Slots |-> tails[j]]
  /\ \A j \in Slots :
       /\ tails[j] = [there |-> tails[j].there, blocks |-> tails[j].blocks, data |-> tails[j].data]
       /\ tails[j].blocks \in Nat

SoundImage(i) ==
  /\ i = [beta |-> i.beta, zeroed |-> i.zeroed, big |-> i.big, junk |-> i.junk,
          cells |-> i.cells, smc |-> i.smc, kv |-> i.kv, alt |-> i.alt, tails |-> i.tails]
  /\ i.beta \in BOOLEAN /\ i.zeroed \in BOOLEAN /\ (i.beta => i.zeroed) /\ i.junk \in Int /\ i.smc \in 0..1
  /\ SoundCells(i) /\ SoundTails(i.tails) /\ SoundVault(i.kv) /\ SoundVault(i.alt)

\* An image in a flash: its SMC is munged and its vault encrypted.
Sealed(i) == i.smc = 1 /\ (~ i.beta => i.kv.under # {})

\* A 6BL in it lists no more blocks than there is room for behind its 7BL.
Listed(i) ==
  \A k \in Slots :
    LET at    == Sys + (k - 1) * Slot
        six   == Header(i, at)
        seven == Header(i, at + six.len)
    IN  six.magic = "6BL" /\ seven.magic = "7BL" => six.used <= Need(six.len, seven.len)

SoundFiles(files) ==
  \A n \in DOMAIN files : SoundLoader(files[n]) /\ n[2] = Letter(files[n].text) /\ n[3] = files[n].build

SoundVaults(vaults) ==
  \A n \in DOMAIN vaults : SoundVault(vaults[n]) /\ (n[2] = "dec" => vaults[n].under = {})

\* An ini file names decrypted vaults, and loaders by their letters; F for a 7BL
\* is what WriteImageIni makes of it.
SoundIni(ini) ==
  /\ ini = [bl |-> ini.bl, kv |-> ini.kv, alt |-> ini.alt, files |-> ini.files, big |-> ini.big]
  /\ ini.bl = [l \in DOMAIN ini.bl |-> ini.bl[l]] /\ DOMAIN ini.bl \subseteq Ids
  /\ \A l \in DOMAIN ini.bl :
       /\ ini.bl[l] = <<ini.bl[l][1], ini.bl[l][2], ini.bl[l][3]>>
       /\ ini.bl[l][2] = Letter(l) \/ (Letter(l) = "G" /\ ini.bl[l][2] = "F")
  /\ ini.kv[2] = "dec" /\ ini.alt \subseteq {<<"AltKV", "dec">>}

\* "null" is no key that can be given.
ASSUME CommandLineAssumption == \A args \in CommandLines : Parse(args).cpu # "null"

ASSUME ConsoleAssumption == \A i \in Consoles : SoundImage(i) /\ Sealed(i) /\ Listed(i)

ASSUME KitAssumption ==
  \A k \in Kits : SoundFiles(k.files) /\ SoundVaults(k.vaults) /\ SoundIni(k.ini)

-----------------------------------------------------------------------------
(* The program *)

\* main, MainContinue: the options of a run, over new objects.
Start ==
  /\ phase \in {"ready", "fault"}
  /\ \E args \in CommandLines : opts' = Parse(args)
  /\ mem' = Fresh /\ image' = Blank /\ given' = Fresh
  /\ phase' = "started"
  /\ UNCHANGED <<dir, inis, images>>

\* No image named, strip mode, or a file that is no image or no ini.
NothingToDo ==
  /\ phase = "started"
  /\ \/ ~ Loads(opts) /\ ~ Creates(opts)
     \/ Loads(opts) /\ opts.image \notin DOMAIN images
     \/ Creates(opts) /\ opts.ini \notin DOMAIN inis
  /\ phase' = "ready"
  /\ UNCHANGED <<opts, mem, image, dir, inis, images, given>>

\* The keys of a run on image i: of builds below 1839 both are overwritten with
\* zeros, of a beta kit, which LoadContinue comes to later, they are taken away.
Cpu(i) == CASE i.beta -> "null" [] i.zeroed /\ ~ i.beta -> "zero" [] OTHER -> opts.cpu
Key(i) == CASE i.beta -> NullKey [] i.zeroed /\ ~ i.beta -> <<"zero">> [] OTHER -> <<opts.bl>>

\* A 6BL that is still encrypted: as many of its words are turned as its count, which
\* is noise, says, past the 223 there are and into the loaders and the driver that
\* follow in memory, and as many blocks are read behind its 7BL.
Garbled(bl) == \E i \in Slots : isValid(Six(i), bl[Six(i)]) /\ bl[Six(i)].part.under # {}

\* LoadContinue, of memory m and image i: a vault that is not decrypted ends
\* LoadKeyVaults before the alternative one.
LoadContinue(m, i) ==
  LET kv  == IF i.beta THEN m.kv ELSE LoadVault(i.kv, Cpu(i))
      alt == IF ~ i.beta /\ kv.plain /\ kv.alt THEN LoadVault(i.alt, Cpu(i)) ELSE m.alt
  IN  [bl  |-> LoadBootloaders(i, Cpu(i), Key(i), m.bl),
       smc |-> LoadSMC([data |-> i.smc, plain |-> FALSE]),
       kv  |-> kv, alt |-> alt]

LoadImageFile ==
  /\ phase = "started" /\ Loads(opts) /\ opts.image \in DOMAIN images
  /\ image' = images[opts.image]
  /\ mem' = LoadContinue(mem, image') /\ given' = mem'
  /\ \/ phase' = IF opts.extract THEN "loaded" ELSE "ready"
     \/ Garbled(mem'.bl) /\ phase' = "fault"
  /\ UNCHANGED <<opts, dir, inis, images>>

\* DumpSMC turns the SMC and turns it back, DumpKeyVaults leaves the vault sealed.
Dump ==
  /\ phase = "loaded"
  /\ LET cpu    == Cpu(image)
         dumped == DumpKeyVaults(dir.vaults, mem, cpu)
     IN  /\ dir' = [files  |-> DumpBootloaders(dir.files, cpu, mem.bl),
                    vaults |-> IF image.beta THEN dir.vaults ELSE dumped.vaults,
                    smc    |-> IF mem.smc.plain THEN mem.smc.data ELSE UnMunge(mem.smc).data]
         /\ mem' = IF image.beta THEN mem ELSE [mem EXCEPT !.kv = dumped.kv, !.alt = dumped.alt]
         /\ inis' = On(inis, opts.path, WriteImageIni(mem', image))
  /\ phase' = "dumped"
  /\ UNCHANGED <<opts, image, images, given>>

Finish ==
  /\ phase = "dumped"
  /\ phase' = "ready"
  /\ UNCHANGED <<opts, mem, image, dir, inis, images, given>>

\* A user mends what WriteImageIni gets wrong: the letter of the 7BL and the key
\* of the second vault.
Mended(ini) ==
  [ini EXCEPT !.bl  = [l \in DOMAIN @ |-> [@[l] EXCEPT ![2] = Letter(l)]],
              !.kv  = <<"KV", "dec">>,
              !.alt = IF ini.kv[1] = "KV joined" THEN {<<"AltKV", "dec">>} ELSE @]

MendIni ==
  /\ phase = "ready"
  /\ \E path \in DOMAIN inis : inis' = [inis EXCEPT ![path] = Mended(@)]
  /\ UNCHANGED <<phase, opts, mem, image, dir, images, given>>

\* ReadImageIni: a file that is missing ends the run.
Readable(ini) ==
  /\ ini.kv \in DOMAIN dir.vaults
  /\ ini.alt \subseteq DOMAIN dir.vaults
  /\ \A l \in DOMAIN ini.bl : ini.bl[l] \in DOMAIN dir.files

\* loadBldrFromFile.
FromFile(p, l) == Taken(l, [Unset EXCEPT !.part = p])

ReadImageIni ==
  /\ phase = "started" /\ Creates(opts) /\ opts.ini \in DOMAIN inis
  /\ LET ini == inis[opts.ini] IN
     IF ~ Readable(ini)
     THEN phase' = "ready" /\ UNCHANGED <<mem, image, given>>
     ELSE /\ mem' = [bl  |-> [l \in Ids |-> IF l \in DOMAIN ini.bl
                                            THEN FromFile(dir.files[ini.bl[l]], l) ELSE Unset],
                     smc |-> TakenSMC,
                     kv  |-> TakenVault(dir.vaults[ini.kv]),
                     alt |-> IF ini.alt = {} THEN NoVault ELSE TakenVault(dir.vaults[<<"AltKV", "dec">>])]
          /\ image' = [image EXCEPT !.big = ini.big,
                                    !.tails = [i \in Slots |-> IF i \in ini.files THEN Added(@[i]) ELSE @[i]]]
          /\ given' = mem'
          /\ phase' = "read" \/ (Garbled(mem'.bl) /\ phase' = "fault")
  /\ UNCHANGED <<opts, dir, inis, images>>

\* readData takes what happens to be in its length for a limit: a file may be cut,
\* and the run goes on behind its end, to a fault or to an image that is none.
ReadCut ==
  /\ phase = "started" /\ Creates(opts) /\ opts.ini \in DOMAIN inis /\ Readable(inis[opts.ini])
  /\ phase' = "fault"
  /\ \/ UNCHANGED <<inis, images>>
     \/ images' = Without(images, opts.image) /\ inis' = Without(inis, opts.image)
  /\ UNCHANGED <<opts, mem, image, dir, given>>

\* SaveContinue.
SaveContinue ==
  /\ phase = "read"
  /\ LET smc   == SaveSMC(mem.smc)
         kv    == SaveVault(mem.kv, TRUE, opts.cpu)
         alt   == IF mem.kv.alt THEN SaveVault(mem.alt, TRUE, opts.cpu) ELSE mem.alt
         parts == [image EXCEPT !.smc = smc.data, !.kv = kv, !.alt = IF mem.kv.alt THEN alt ELSE @]
         saved == SaveBootloaders(parts, opts.cpu, <<opts.bl>>, mem.bl)
     IN  /\ mem' = [bl |-> saved.bl, smc |-> smc, kv |-> kv, alt |-> alt]
         /\ image' = saved.image
         /\ phase' = IF saved.ret = 1 THEN "fault" ELSE "written"
  /\ UNCHANGED <<opts, dir, inis, images, given>>

\* SaveImageFile reads back what it has written, and saves the buffer.
ReadBack ==
  /\ phase = "written"
  /\ mem' = LoadContinue(mem, image)
  /\ \/ phase' = "saved"
     \/ Garbled(mem'.bl) /\ phase' = "fault"
  /\ UNCHANGED <<opts, image, dir, inis, images, given>>

SaveImage ==
  /\ phase = "saved"
  /\ images' = On(images, opts.image, image)
  /\ inis' = Without(inis, opts.image)
  /\ phase' = "ready"
  /\ UNCHANGED <<opts, mem, image, dir, given>>

\* A console's image as it was dumped from the flash, or a directory of parts.
Init ==
  /\ phase = "ready" /\ opts = Defaults
  /\ mem = Fresh /\ image = Blank /\ given = Fresh
  /\ \/ /\ \E i \in Consoles : images = On(NoPaths, "img", i)
        /\ dir = [files |-> NoPaths, vaults |-> NoPaths, smc |-> 0] /\ inis = NoPaths
     \/ /\ \E k \in Kits :
             /\ dir = [files |-> k.files, vaults |-> k.vaults, smc |-> 0]
             /\ inis = On(NoPaths, "dir", k.ini)
        /\ images = NoPaths

Next ==
  \/ Start \/ NothingToDo \/ LoadImageFile \/ Dump \/ Finish \/ MendIni
  \/ ReadImageIni \/ ReadCut \/ SaveContinue \/ ReadBack \/ SaveImage

Spec == Init /\ [][Next]_vars

-----------------------------------------------------------------------------
(* Properties *)

Loader(m) == /\ m.plain \in BOOLEAN /\ m.byCpu \in BOOLEAN
             /\ m.part.len \in Int /\ m.part.digest \in -1..1 /\ m.part.used \in Nat

\* A loader is a loader, an SMC is munged at most once and a loader lies at most
\* once at an address: what SaveContinue, LoadContinue and the dumps go by.
TypeOK ==
  /\ phase \in {"ready", "started", "loaded", "dumped", "read", "written", "saved", "fault"}
  /\ \A l \in Ids : Loader(mem.bl[l]) /\ Loader(given.bl[l])
  /\ mem.smc.data \in 0..1 /\ mem.smc.plain \in BOOLEAN /\ image.smc \in 0..1
  /\ Apart(image.cells) /\ DOMAIN image.tails = Slots

Chain == {ChainOrder[i] : i \in DOMAIN ChainOrder}
Before(j, l) == \E i, k \in DOMAIN ChainOrder : i < k /\ ChainOrder[i] = j /\ ChainOrder[k] = l
Written(l) == Kept(opts.cpu, given.bl, l)

\* The chain ends before the update slots.
Fits ==
  LET len(l) == IF Written(l) THEN given.bl[l].part.len ELSE 0
  IN  Entry + len("2BL") + len("2BL_B") + len("3BL") + len("4BL") + len("5BL") <= Sys

\* The loaders up to l are where LoadBootloaders looks for them: the ones before
\* it fill whole lines of 16 bytes, and a 2BL that says a second one follows has it.
Placed(l) ==
  /\ \A j \in Chain : Written(j) /\ Before(j, l) => RoundUp(given.bl[j].part.len) = given.bl[j].part.len
  /\ l # "2BL" => (Asked(image, opts.cpu, given.bl, "2BL_B") <=> Written("2BL_B"))

\* They were given plain, and no 3BL, which is never flagged as plain, is among them.
Keyed(l) ==
  /\ \A j \in Chain : Written(j) /\ (j = l \/ Before(j, l)) => given.bl[j].part.under = {}
  /\ ~ (Written("3BL") /\ (l = "3BL" \/ Before("3BL", l)))

HasSeven(i) == isValid(Six(i), given.bl[Six(i)]) /\ isValid(Seven(i), given.bl[Seven(i)])
Needed(i)   == Need(given.bl[Six(i)].part.len, given.bl[Seven(i)].part.len)

\* No system file of this or an earlier slot had to be added, and a 6BL leaves room
\* for its 7BL.
SlotReached(i) ==
  /\ Placed("5BL") /\ given.bl[Six(i)].part.under = {}
  /\ \A j \in Slots : isValid(Six(j), given.bl[Six(j)]) => given.bl[Six(j)].part.len < Slot
  /\ \A j \in 1..i : HasSeven(j) => j \in inis[opts.ini].files

\* No system file had to be added, for no 7BL is written after that, and FileSetData
\* had its block by the second call, and none before it had.
SevenWhole(i) ==
  /\ SlotReached(i) /\ Needed(i) <= 2 /\ ~ image.big /\ given.bl[Seven(i)].part.under = {}
  /\ \A j \in Slots : HasSeven(j) => j \in inis[opts.ini].files
  /\ \A j \in 1..(i - 1) : HasSeven(j) => Needed(j) > 2

Sound(l) ==
  \/ l \in Chain /\ Written(l) /\ Placed(l) /\ Keyed(l)
  \/ \E i \in Slots : l = Six(i) /\ SlotReached(i)
  \/ \E i \in Slots : l = Seven(i) /\ isValid(Six(i), given.bl[Six(i)]) /\ SevenWhole(i)

\* What SaveImageFile writes, its LoadContinue finds: every loader an ini named
\* comes back plain and as it was, at the address and with the key that follow
\* from the loaders before it, with the digest of a 2BL taken over the SMC as it
\* is in the image.  Sound names every case in which the program does not.
FoundWhereSaved ==
  phase = "saved" =>
    \A l \in Ids : isValid(l, given.bl[l]) /\ Fits /\ Sound(l) =>
      /\ mem.bl[l].part.text = given.bl[l].part.text /\ mem.bl[l].part.len = given.bl[l].part.len
      /\ isValid(l, mem.bl[l]) /\ mem.bl[l].part.under = {}
      /\ l \in Chain /\ Digested(given.bl, l) => mem.bl[l].part.digest = image.smc

\* The keys of the run are the ones the vault and the first loader are sealed with.
RightKeys ==
  /\ image.kv.nonce[1] = Cpu(image)
  /\ \A s \in Header(image, Entry).under : s[1] = Key(image)[1]

\* Every loader of a console is found in its image, unless noise taken for the count
\* of a 6BL ends the load, and, with the right keys, decrypted: keys that build 1838,
\* which is no beta kit, has to have as zeros.  A 4BL that is sealed with the CPU key
\* is the one the second try of CXeBootloader4BL::Crypt, on the data the first has
\* changed, does not open, and of the 7BL of a big-block image the rest is read from
\* the wrong blocks.
Extracted ==
  phase = "loaded" /\ image \in Consoles =>
    /\ \A a \in DOMAIN image.cells :
         \E l \in Ids : isValid(l, mem.bl[l]) /\ mem.bl[l].part.len = image.cells[a].len
                       /\ mem.bl[l].part.text = image.cells[a].text
    /\ RightKeys \/ image.beta =>
         \A l \in Ids : isValid(l, mem.bl[l]) =>
           \/ mem.bl[l].part.under = {}
           \/ l = "4BL" /\ ~ mem.bl[l].plain
           \/ l \in {"7BL", "7BL_B"} /\ image.big
    /\ RightKeys /\ ~ image.beta => mem.kv.plain /\ (mem.kv.alt => mem.alt.plain)

\* Whatever the keys and the image, bIsDecrypted of a vault or of a 4BL, the parts
\* whose decryption is looked at, says "decrypted" of nothing that is not: two
\* tries of a key that is not the right one do not pass for one that is.
FlagsTrue ==
  phase = "loaded" =>
    /\ mem.kv.plain => mem.kv.under = {}
    /\ mem.alt.plain => mem.alt.under = {}
    /\ mem.bl["4BL"].plain /\ ~ image.beta => mem.bl["4BL"].part.under = {}

\* What a dump calls decrypted is, and a vault that the key did not open is
\* dumped as it is in the image, though it was scrambled on the way.
DumpTrue ==
  phase = "dumped" =>
    /\ dir.smc = 0
    /\ \A n \in DOMAIN dir.vaults : n[2] = "dec" => dir.vaults[n].under = {}
    /\ ~ given.kv.plain /\ ~ image.beta => dir.vaults[<<"KV", "enc">>].under = image.kv.under

\* What the program calls decrypted, in memory by a flag or in a directory by the
\* name of a dump, is.
CalledDecrypted == FlagsTrue /\ DumpTrue

\* Every loader an ini names is read from the dump of that loader and build: of
\* the two slots the later dump stays where their builds are the same, and a 7BL
\* is read from the file of a 6BL as long as nobody has mended the ini.
OwnFilesRead ==
  phase = "read" =>
    \A l \in DOMAIN inis[opts.ini].bl :
      LET name == inis[opts.ini].bl[l] IN
      /\ given.bl[l].part.build = name[3]
      /\ \/ given.bl[l].part.text = l
         \/ l \notin Chain /\ Letter(given.bl[l].part.text) = Letter(l)
         \/ Letter(l) = "G" /\ name[2] = "F"
=============================================================================
