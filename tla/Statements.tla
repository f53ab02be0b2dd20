---------------------------- MODULE Statements -----------------------------
(***************************************************************************)
(* splitStatements (internal/db/migrate.go): a migration file is cut into  *)
(* statements at the semicolons that are not inside a literal, a quoted    *)
(* identifier or a comment.                                                *)
(*                                                                         *)
(* The scan goes through the characters, and sees one character ahead.     *)
(* The file is any sequence of tokens; it is chosen as far as the scan     *)
(* sees.  What the scan makes of the characters is compared with what the  *)
(* tokens mean.                                                            *)
(***************************************************************************)
EXTENDS Naturals, Sequences

CONSTANTS
  Tokens,      \* what a file is made of: [kind, text], the text by characters
  MaxTokens    \* bound: tokens in a file

VARIABLES
  mode,        \* inSingle, inDouble, inBracket, inLine, inBlock, "plain" or "done"
  skip,        \* whether the next character was consumed with the one before it
  cur, out,    \* the statement at hand, and those that are complete
  token,       \* the token that is scanned
  coming,      \* the one after it
  place,       \* where in the token the scan is
  length,      \* tokens chosen so far, the end of the file among them
  piece, pieces  \* history: what cur and out ought to be by the tokens

scanVars == <<mode, skip, cur, out>>
statementsVars == <<scanVars, token, coming, place, length, piece, pieces>>

(* The characters the scan tells apart; any other string is one more.      *)
Quote == "quote"
DoubleQuote == "double quote"
Open == "open bracket"
Close == "close bracket"
Semicolon == "semicolon"
Dash == "dash"
Slash == "slash"
Star == "star"
Newline == "newline"
Space == "space"
Nothing == "no character"

-----------------------------------------------------------------------------
(* SQL's tokens.  A literal with a doubled quote in it is two literals     *)
(* side by side.                                                           *)
Eof == [kind |-> "eof", text |-> <<>>]

Delimited(x, first, last) ==
  /\ Len(x) >= 2 /\ x[1] = first /\ x[Len(x)] = last
  /\ \A i \in 2..(Len(x) - 1) : x[i] # last

IsLine(x) ==
  /\ Len(x) >= 2 /\ x[1] = Dash /\ x[2] = Dash
  /\ \A i \in 3..(Len(x) - 1) : x[i] # Newline

IsBlock(x) ==
  /\ Len(x) >= 4 /\ x[1] = Slash /\ x[2] = Star /\ x[Len(x) - 1] = Star /\ x[Len(x)] = Slash
  /\ \A i \in 3..(Len(x) - 2) : x[i] = Star => x[i + 1] # Slash

WellFormed(t) ==
  /\ t.text \in Seq(STRING)
  /\ \/ /\ t.kind = "word" /\ Len(t.text) = 1
        /\ t.text[1] \notin {Quote, DoubleQuote, Open, Semicolon}
     \/ t.kind = "end" /\ Len(t.text) = 1 /\ t.text[1] = Semicolon
     \/ t.kind = "single" /\ Delimited(t.text, Quote, Quote)
     \/ t.kind = "double" /\ Delimited(t.text, DoubleQuote, DoubleQuote)
     \/ t.kind = "bracket" /\ Delimited(t.text, Open, Close)
     \/ t.kind = "line" /\ IsLine(t.text)
     \/ t.kind = "block" /\ IsBlock(t.text)

ASSUME TokensAssumption == MaxTokens \in Nat /\ \A t \in Tokens : WellFormed(t)

(* What begins a comment is no word, and the line that lacks its newline   *)
(* is the last one.                                                        *)
MayFollow(t, u) ==
  /\ t.kind = "word" => <<t.text[1], u.text[1]>> \notin {<<Dash, Dash>>, <<Slash, Star>>}
  /\ t.kind = "line" => t.text[Len(t.text)] = Newline

-----------------------------------------------------------------------------
(* The scan, by what it is inside of, at the character c with next ahead.  *)

(* A statement without text is dropped, and none is trimmed here: blanks   *)
(* around a statement mean nothing.                                        *)
HasText(text) == \E i \in DOMAIN text : text[i] \notin {Space, Newline}

Flush(text, list) == IF HasText(text) THEN Append(list, text) ELSE list

SwallowLine(c) ==
  /\ mode = "line" /\ mode' = IF c = Newline THEN "plain" ELSE mode
  /\ UNCHANGED <<skip, cur, out>>

(* A line comment: its newline is kept, and ends it.                       *)
InLine(c) ==
  /\ mode = "line"
  /\ \/ c = Newline /\ mode' = "plain" /\ cur' = Append(cur, c)
     \/ c # Newline /\ UNCHANGED <<mode, cur>>
  /\ UNCHANGED <<skip, out>>

InBlock(c, next) ==
  /\ mode = "block"
  /\ \/ c = Star /\ next = Slash /\ mode' = "plain" /\ skip' = TRUE
     \/ ~(c = Star /\ next = Slash) /\ UNCHANGED <<mode, skip>>
  /\ UNCHANGED <<cur, out>>

(* Inside '...': a doubled quote does not end it.                          *)
InSingle(c, next) ==
  /\ mode = "single"
  /\ \/ /\ c = Quote /\ next = Quote
        /\ cur' = Append(Append(cur, c), next) /\ skip' = TRUE /\ UNCHANGED mode
     \/ /\ ~(c = Quote /\ next = Quote)
        /\ cur' = Append(cur, c) /\ mode' = IF c = Quote THEN "plain" ELSE mode
        /\ UNCHANGED skip
  /\ UNCHANGED out

(* Inside "..." or [...].                                                  *)
InQuoted(c, kind, last) ==
  /\ mode = kind /\ cur' = Append(cur, c)
  /\ mode' = IF c = last THEN "plain" ELSE mode
  /\ UNCHANGED <<skip, out>>

Comment(kind) == mode' = kind /\ skip' = TRUE /\ UNCHANGED <<cur, out>>

Keep(c, kind) == cur' = Append(cur, c) /\ mode' = kind /\ UNCHANGED <<skip, out>>

InPlain(c, next) ==
  /\ mode = "plain"
  /\ \/ c = Dash /\ next = Dash /\ Comment("line")
     \/ c = Slash /\ next = Star /\ Comment("block")
     \/ c = Quote /\ Keep(c, "single")
     \/ c = DoubleQuote /\ Keep(c, "double")
     \/ c = Open /\ Keep(c, "bracket")
     \/ c = Semicolon /\ out' = Flush(cur, out) /\ cur' = <<>> /\ UNCHANGED <<mode, skip>>
     \/ /\ c \notin {Quote, DoubleQuote, Open, Semicolon}
        /\ ~(c = Dash /\ next = Dash) /\ ~(c = Slash /\ next = Star) /\ Keep(c, "plain")

Scan(c, next) ==
  \/ skip /\ skip' = FALSE /\ UNCHANGED <<mode, cur, out>>
  \/ /\ ~skip
     /\ \/ InLine(c) \/ InBlock(c, next) \/ InSingle(c, next) \/ InPlain(c, next)
        \/ InQuoted(c, "double", DoubleQuote) \/ InQuoted(c, "bracket", Close)

-----------------------------------------------------------------------------
(* The reference: a comment is nothing but for the newline that ends it, a *)
(* semicolon token ends a statement, and all else is the statement's.      *)
Meaning(t) ==
  IF t.kind = "block" THEN <<>>
  ELSE IF t.kind # "line" THEN t.text
  ELSE IF t.text[Len(t.text)] = Newline THEN <<Newline>> ELSE <<>>

Understand(t) ==
  IF t.kind = "end" THEN piece' = <<>> /\ pieces' = Flush(piece, pieces)
  ELSE piece' = piece \o Meaning(t) /\ UNCHANGED pieces

(* runes[i], and runes[i+1] or the zero rune at the end.                   *)
Here == token.text[place]
Ahead == IF place < Len(token.text) THEN token.text[place + 1]
         ELSE IF coming = Eof THEN Nothing ELSE coming.text[1]

(* The file goes on, or it ends.                                           *)
Choose ==
  \/ /\ coming # Eof /\ length < MaxTokens /\ length' = length + 1
     /\ \E t \in Tokens : MayFollow(coming, t) /\ coming' = t
  \/ coming' = Eof /\ UNCHANGED length

StepOn ==
  \/ /\ place < Len(token.text) /\ place' = place + 1
     /\ UNCHANGED <<token, coming, length, piece, pieces>>
  \/ /\ place = Len(token.text) /\ place' = 1
     /\ token' = coming /\ Understand(token) /\ Choose

StatementsInit ==
  /\ mode = "plain" /\ skip = FALSE /\ cur = <<>> /\ out = <<>>
  /\ token \in Tokens \cup {Eof} /\ coming \in Tokens \cup {Eof}
  /\ coming # Eof => token # Eof /\ MayFollow(token, coming)
  /\ place = 1 /\ length = 2 /\ piece = <<>> /\ pieces = <<>>

ScanCharacter == token # Eof /\ Scan(Here, Ahead) /\ StepOn

(* After the last character what is left is a statement as well.           *)
EndOfFile ==
  /\ token = Eof /\ mode # "done" /\ mode' = "done"
  /\ out' = Flush(cur, out) /\ pieces' = Flush(piece, pieces)
  /\ UNCHANGED <<skip, cur, token, coming, place, length, piece>>

StatementsNext == ScanCharacter \/ EndOfFile

StatementsSpec == StatementsInit /\ [][StatementsNext]_statementsVars

-----------------------------------------------------------------------------
(* Properties.                                                             *)

(* The scan finds just the statements of the file, whatever semicolons,    *)
(* quotes and comment marks stand inside literals, identifiers and         *)
(* comments, and where one of them ends next to another.                   *)
SplitsAtStatements == out = pieces
=============================================================================
