--------------------------- MODULE MCProcessImage ---------------------------
(* Instances of ProcessImage for TLC, with pages of four cells. *)
EXTENDS ProcessImage

Segment(vaddr, filesz, memsz) ==
    [load |-> TRUE, vaddr |-> vaddr, filesz |-> filesz, memsz |-> memsz]
Note == [load |-> FALSE, vaddr |-> 0, filesz |-> 1, memsz |-> 1]

Executable(entries, args) ==
    [header |-> TRUE, entries |-> entries, readable |-> Len(entries), args |-> args]

\* Two pages, of which the file fills a part, with a command line; text and data; a
\* segment of three pages that is mostly zero, with a small one in the page its
\* rounding adds, and an empty one; a file that is no executable; and one that ends
\* within its program headers.
Cat == Executable(<<Segment(16, 3, 6)>>, 1)
Plain == Executable(<<Note, Segment(16, 4, 4), Segment(20, 2, 3)>>, 2)
Large == Executable(<<Segment(16, 3, 10), Segment(28, 2, 4), Segment(32, 0, 0)>>, 0)
Script == [Plain EXCEPT !.header = FALSE]
Cut == [Plain EXCEPT !.readable = 2]

Two == {1, 2}
Assorted == {<<Cat, Cat>>, <<Plain, Script>>, <<Large, Cut>>}

ASSUME AssortedFit == ImagesFit
=============================================================================
