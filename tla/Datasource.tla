---------------------------- MODULE Datasource ----------------------------
(***************************************************************************)
(* What the profiler (datasource/) makes of a client's connected source:   *)
(* an enumerated structure becomes a profile, the profile the names of the *)
(* tools derived from it.  A path is the sequence of its segments, and     *)
(* nodes lie beneath the root; a node is                                   *)
(*   [path, container, type, ext, style]                                   *)
(* where type, ext and style are what item_type, the name's extension and  *)
(* the naming patterns give, Nothing where there is none.                     *)
(***************************************************************************)
EXTENDS Integers, SequencesExt, FiniteSetsExt

CONSTANT Nothing

Containers(structure) == SelectSeq(structure.items, LAMBDA i : i.container)
Leaves(structure)     == SelectSeq(structure.items, LAMBDA i : ~i.container)

Beneath(root, path) == IF IsPrefix(root, path) THEN SubSeq(path, Len(root) + 1, Len(path)) ELSE path
Depth(root, path)   == Len(Beneath(root, path))

(* The elements in the order of their first occurrence. *)
Unique(s) == FoldLeft(LAMBDA seen, x : IF x \in ToSet(seen) THEN seen ELSE Append(seen, x), <<>>, s)

(* Counter(labels).most_common(): descending, ties in the order of the     *)
(* first occurrence.                                                       *)
Count(labels, x) == Cardinality({i \in DOMAIN labels : labels[i] = x})
First(labels, x) == CHOOSE i \in DOMAIN labels :
                      labels[i] = x /\ \A j \in DOMAIN labels : labels[j] = x => i <= j
MostCommon(labels) ==
  SortSeq(SetToSeq(ToSet(labels)),
          LAMBDA x, y : \/ Count(labels, x) > Count(labels, y)
                        \/ Count(labels, x) = Count(labels, y) /\ First(labels, x) < First(labels, y))

Labels(leaves, Label(_)) == [i \in DOMAIN leaves |-> Label(leaves[i])]

FileType(leaf) == IF leaf.type # Nothing THEN leaf.type ELSE IF leaf.ext # Nothing THEN leaf.ext ELSE "unknown"
Parent(leaf)   == Front(leaf.path)
Style(leaf)    == IF leaf.style # Nothing THEN leaf.style ELSE "freeform"

(* The convention of a strict majority of the leaves. *)
Naming(leaves) ==
  LET styles == Labels(leaves, Style)
  IN  IF leaves = <<>> THEN "unknown"
      ELSE LET top == MostCommon(styles)[1]
           IN  IF 2 * Count(styles, top) > Len(styles) THEN top ELSE "mixed"

TopLevel(structure) ==
  LET groups == SelectSeq(Containers(structure), LAMBDA i : Depth(structure.root, i.path) = 1)
  IN  Unique([i \in DOMAIN groups |-> Beneath(structure.root, groups[i].path)[1]])

Densest(leaves) == LET all == MostCommon(Labels(leaves, Parent)) IN SubSeq(all, 1, Min({3, Len(all)}))

(* profile_datasource; the adapter's enumerate and sample are its input. *)
ProfileOf(name, structure) ==
  LET leaves == Leaves(structure)
  IN  [name      |-> name,
       folders   |-> Len(Containers(structure)),
       files     |-> Len(leaves),
       depth     |-> Max({0} \cup {Depth(structure.root, i.path) : i \in ToSet(structure.items)}),
       truncated |-> structure.truncated,
       groups    |-> TopLevel(structure),
       types     |-> MostCommon(Labels(leaves, FileType)),
       naming    |-> Naming(leaves),
       relevant  |-> Densest(leaves)]

(* The two tools derived from a profile bear the slug of its name.  Slugs   *)
(* are names that differ only in case or punctuation made one.             *)
Derived(slug) == {<<"search", slug>>, <<"read", slug, "by_path">>}
=============================================================================
