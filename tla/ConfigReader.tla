---------------------------- MODULE ConfigReader ----------------------------
(***************************************************************************)
(* ConfigReader (myyxs/version2/ConfigReader.cpp): reading an ini file and *)
(* looking up a setting.  A line is a sequence of words, with " " for      *)
(* white space; a file is a sequence of lines.                             *)
(***************************************************************************)
EXTENDS Integers, Sequences

\* trimLeft(trimRight(s))
trim(s) ==
    LET words == {i \in DOMAIN s : s[i] # " "}
        first == CHOOSE i \in words : \A j \in words : i <= j
        last  == CHOOSE i \in words : \A j \in words : j <= i
    IN  IF words = {} THEN <<>> ELSE SubSeq(s, first, last)

isSection(line) ==
    LET t == trim(line) IN Len(t) > 2 /\ t[1] = "[" /\ t[Len(t)] = "]"

sectionName(line) ==
    LET t == trim(line) IN trim(SubSeq(t, 2, Len(t) - 1))

equals(line) == {i \in DOMAIN line : line[i] = "="}
firstEquals(line) == CHOOSE i \in equals(line) : \A j \in equals(line) : i <= j

keyOf(line) == trim(SubSeq(line, 1, firstEquals(line) - 1))
valueOf(line) == trim(SubSeq(line, firstEquals(line) + 1, Len(line)))

isSetting(line) ==
    /\ ~isSection(line) /\ equals(line) # {}
    /\ keyOf(line) # <<>>
    /\ keyOf(line)[1] \notin {"#", ";"}

(***************************************************************************)
(* load(): map_ and, as a sequence, the section m that the settings go to. *)
(* Before the first section m is null, and a setting goes through it.      *)
(***************************************************************************)
NoSettings == [k \in {} |-> <<>>]
Null == <<>>
Loaded == [map_ |-> [s \in {} |-> NoSettings], m |-> Null, crashed |-> FALSE]

set(f, k, v) == [x \in DOMAIN f \cup {k} |-> IF x = k THEN v ELSE f[x]]

\* Mutant of loadLine: a section that comes again starts anew.
loadLineAfresh(c, line) ==
    IF c.crashed THEN c
    ELSE CASE isSection(line) -> [c EXCEPT !.m = <<sectionName(line)>>,
                                           !.map_ = set(@, sectionName(line), NoSettings)]
           [] isSetting(line) /\ c.m = Null -> [c EXCEPT !.crashed = TRUE]
           [] isSetting(line) /\ c.m # Null ->
                 [c EXCEPT !.map_[c.m[1]] = set(@, keyOf(line), valueOf(line))]
           [] OTHER -> c

opened(map_, name) == IF name \in DOMAIN map_ THEN map_ ELSE set(map_, name, NoSettings)

loadLine(c, line) ==
    IF c.crashed THEN c
    ELSE CASE isSection(line) -> [c EXCEPT !.m = <<sectionName(line)>>,
                                           !.map_ = opened(@, sectionName(line))]
           [] isSetting(line) /\ c.m = Null -> [c EXCEPT !.crashed = TRUE]
           [] isSetting(line) /\ c.m # Null ->
                 [c EXCEPT !.map_[c.m[1]] = set(@, keyOf(line), valueOf(line))]
           [] OTHER -> c

load(file) ==
    LET after[n \in 0 .. Len(file)] ==
          IF n = 0 THEN Loaded ELSE loadLine(after[n - 1], file[n])
    IN  after[Len(file)]

\* The reader of the process; an unreadable file leaves it without settings.
setPath(file) == load(file)

getString(map_, section, key, default) ==
    IF section \in DOMAIN map_ /\ key \in DOMAIN map_[section]
    THEN map_[section][key] ELSE default

(***************************************************************************)
(* The meaning of a file, without a reader: a setting has the value of the *)
(* last line that sets it while the nearest section line above is its own. *)
(***************************************************************************)
under(file, i, section) ==
    \E h \in 1 .. i - 1 : /\ isSection(file[h]) /\ sectionName(file[h]) = section
                          /\ \A j \in h + 1 .. i - 1 : ~isSection(file[j])

setAt(file, section, key) ==
    {i \in DOMAIN file : isSetting(file[i]) /\ keyOf(file[i]) = key /\ under(file, i, section)}

Meaning(file, section, key, default) ==
    LET lines == setAt(file, section, key)
    IN  IF lines = {} THEN default
        ELSE valueOf(file[CHOOSE i \in lines : \A j \in lines : j <= i])

Headless(file) == \E i \in DOMAIN file : isSetting(file[i]) /\ \A h \in 1 .. i - 1 : ~isSection(file[h])
==============================================================================
