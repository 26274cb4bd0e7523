--------------------------------- MODULE Boot ---------------------------------
(****************************************************************************)
(* The first part of prekernel: the walk over the tags in which the boot    *)
(* loader reports memory and screen.  A tag is a record with its type; one  *)
(* of type "mmap" has entries, memory sections in the order reported, one   *)
(* of type "framebuffer" the screen.  Addresses are counted in pages.       *)
(****************************************************************************)
EXTENDS Integers, FiniteSets, SequencesExt

CONSTANTS
  TagLists      \* what the boot loader may report: sequences of tags

ASSUME BootAssumption ==
  \A list \in TagLists : \E i \in DOMAIN list :
    list[i].type = "mmap" /\ \E e \in Range(list[i].entries) : e.available

VARIABLES
  tags,         \* the multiboot information, discarded after the walk
  tag,          \* the tag looked at, counted from 1
  area,         \* info.largest_available_memory_section
  screen        \* info.framebuffer and the pages its size makes

info == <<area, screen>>
bootInformation == <<tags, tag>>

\* nullptr, and what info holds before it is written.
None == [first |-> 0, count |-> 0]

\* MUTANT: sections that are not available are taken as well.
largestAreaOfAny(entries) ==
  FoldLeft(LAMBDA largest, e : IF largest = None \/ e.count >= largest.count
                                 THEN [first |-> e.first, count |-> e.count] ELSE largest,
           None, entries)

\* The loop over the entries: of several largest ones it keeps the last.
largestArea(entries) ==
  FoldLeft(LAMBDA largest, e : IF e.available /\ (largest = None \/ e.count >= largest.count)
                                 THEN [first |-> e.first, count |-> e.count] ELSE largest,
           None, entries)

\* A memory map read as a framebuffer: the size of an entry is taken for the
\* address, and the width is the upper half of the first section's address, 0.
Misread == [first |-> 0, count |-> 0]

BootInit == tags \in TagLists /\ tag = 1 /\ area = None /\ screen = None

\* The loop goes on to the next tag.
At(types) == tag \in DOMAIN tags /\ tags[tag].type \in types
Advance   == tag' = tag + 1 /\ UNCHANGED tags

ScreenTag ==
  /\ At({"framebuffer"}) /\ Advance
  /\ screen' = [first |-> tags[tag].first, count |-> tags[tag].count]
  /\ UNCHANGED area

\* The case of the memory map has no break and goes on into that of the
\* framebuffer.
MemoryTag ==
  /\ At({"mmap"}) /\ Advance
  /\ area' = largestArea(tags[tag].entries)
  /\ screen' = Misread

\* MUTANT: what is neither is read as a framebuffer, too.
OtherTagMisread == At({"other"}) /\ Advance /\ screen' = Misread /\ UNCHANGED area

OtherTag == At({"other"}) /\ Advance /\ UNCHANGED info

\* `It can be safely discarded and overwritten after booting.'
EndOfTags == tag = Len(tags) + 1
Discard   == tags' = <<>> /\ tag' = 1
===============================================================================
