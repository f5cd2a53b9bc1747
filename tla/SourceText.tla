----------------------------- MODULE SourceText -----------------------------
(***************************************************************************)
(* What both collectors and the normalization of their items read in a     *)
(* parsed document: the text of a tag, whether Decimal() accepts it, and   *)
(* the fields a normalized item needs.                                     *)
(***************************************************************************)

Absent == "absent"     \* the tag is not there
Empty == ""            \* the tag is there, and has no text
Unknown == "unknown"   \* a text that is no number ("לא ידוע")

\* Texts that Decimal() accepts, for one of which no order is defined.
NaN == "NaN"
Decimals == {"12.90", "0", NaN}

\* _text(element, tag) or "": a tag that is not there has no text either.
Text(tag) == IF tag = Absent THEN Empty ELSE tag

IsDecimal(text) == text \in Decimals

\* The fields for which the normalization of an item raises: _require a
\* ValueError for a missing text, Decimal() an InvalidOperation for a text that
\* is no number.
NotNormalizable(item) ==
    {field \in {"price", "quantity"} : ~IsDecimal(item[field])}
      \cup {field \in {"unit", "name"} : item[field] = Empty}

=============================================================================
