------------------------------- MODULE Convert -------------------------------
(***************************************************************************)
(* A conversion, from the words of a command line or the keys of a query   *)
(* to the one picture that is written out.                                 *)
(*                                                                         *)
(* Two parts of haio keep a stack of pictures and never compare notes.     *)
(* The parser (library/common/parser/parser.cpp) only counts: how many     *)
(* pictures each open parenthesis holds, and where the first one's steps   *)
(* are, since a shape that comes first is rewritten into more steps.  The  *)
(* pipeline (library/common/pipeline/convert.cpp) has the pictures.        *)
(*                                                                         *)
(* A picture is the expression that made it: what it was read or painted   *)
(* from and what was done to it since.  What an option says and what a     *)
(* transform computes are left out.                                        *)
(***************************************************************************)
EXTENDS Integers, Sequences, SequencesExt, FiniteSets

CONSTANTS
  Files,      \* the words that name something to read
  Shapes,     \* the brushes that are a shape when they come first: qr, text
  Canvases,   \* the brushes whose size gives way to the picture before: xc
  Plain,      \* the transforms in play, of PlainKinds
  Options,    \* the options in play, of OptionNames
  Keys,       \* the keys of a query in play, of QueryKeys
  MaxSteps,   \* a transform is refused when there are this many steps
  Deepest,    \* how deep parentheses nest
  MaxWords,   \* bound of the model: the words of a line
  MaxSources, \* bound: its sources
  MaxChanges, \* bound: its transforms that are not merges
  MaxOptions  \* bound: its options

PlainKinds == {"crop", "resize", "radius", "negate", "palette", "nil", "pixpalette", "fx"}
OptionNames == {"filter", "compose", "size", "format", "define"}
ChangeKeys == {"crop", "size", "resize", "radius"}
QueryKeys == ChangeKeys \cup {"format", "pix_fmt"}

ASSUME ConvertAssumption ==
  /\ Plain \subseteq PlainKinds /\ Options \subseteq OptionNames /\ Keys \subseteq QueryKeys
  /\ Files \cap (Shapes \cup Canvases) = {} /\ Shapes \cap Canvases = {} /\ "null" \notin Shapes
  /\ {MaxSteps, Deepest, MaxWords, MaxSources, MaxChanges, MaxOptions} \subseteq Nat

VARIABLES
  stage,   \* what is being done with the line or the query
  left,    \* how many words, sources, transforms and options may still come
  parser,  \* the Reader: what it has read so far and what it made of it
  meant,   \* not in the code: the pictures the words ask for, as the notes of the grammar say
  run,     \* runPipeline's locals
  answer   \* what came out

vars == <<stage, left, parser, meant, run, answer>>

None == <<>>
NoLead == [begin |-> 0, end |-> 0, shape |-> FALSE]

-----------------------------------------------------------------------------
(* Pictures as expressions.                                                *)

Read(source, options) == <<"read", source, options>>
Paint(brush, options, size) == <<"paint", brush, options, size>>
Changed(kind, options, picture) == <<kind, options, picture>>
Mixed(mode, options, base, layer) == <<"mix", mode, options, base, layer>>

(* Which options a stage reads, and which it will not run without.         *)
OptionsOf(kind) ==
  CASE kind = "file" -> {"define"}
    [] kind = "brush" -> {"size", "define"}
    [] kind = "output" -> {"format", "define"}
    [] kind = "resize" -> {"filter"}
    [] kind = "palette" -> {"filter"}
    [] kind = "composite" -> {"compose"}
    [] OTHER -> {}
Required(kind) == IF kind = "palette" THEN {"filter"} ELSE {}
Repeats == {"define"}

(* A brush's default size is only a stand-in, and gives way.               *)
SizeFallsBack(brush) == brush \in Canvases \cup {"null"}

Names(options) == {options[i].name : i \in DOMAIN options}
(* How a merge mixes, off its -compose.                                    *)
ModeOf(options) == IF "compose" \in Names(options) THEN "other" ELSE "over"

-----------------------------------------------------------------------------
(* The parser.                                                             *)

(* The options waiting, handed to a stage: it wants each of them, none     *)
(* twice but a -define of another key, each with a value that fits, and    *)
(* none that it requires is missing.                                       *)
Takes(kind) ==
  LET waiting == parser.pending IN
  /\ Names(waiting) \subseteq OptionsOf(kind)
  /\ \A i, j \in DOMAIN waiting :
       i < j /\ waiting[i].name = waiting[j].name =>
         waiting[i].name \in Repeats /\ waiting[i].value # waiting[j].value
  /\ \A i \in DOMAIN waiting : waiting[i].value # "misfit"
  /\ Required(kind) \subseteq Names(waiting)

Pictures == Last(parser.scopes)
SetTop(s, x) == Append(Front(s), x)

(* A picture is about to start, which is where the first one's steps end.  *)
Starting ==
  LET lead == Last(parser.firsts) IN
  IF Pictures = 1 /\ lead # NoLead /\ lead.end = 0
  THEN SetTop(parser.firsts, [lead EXCEPT !.end = Len(parser.steps)])
  ELSE parser.firsts

(* The next word is one of these; the line of the model has room for it    *)
(* and for its output.                                                     *)
Reading(cost) ==
  /\ stage = "reading"
  /\ \A what \in DOMAIN cost : cost[what] <= left[what]
  /\ UNCHANGED <<run, answer>>
GoesOn(cost) ==
  /\ UNCHANGED stage
  /\ left' = [what \in DOMAIN left |->
                left[what] - (IF what = "words" \/ what \in DOMAIN cost THEN 1 ELSE 0)]
AWord == [words |-> 2]
Also(what) == [words |-> 2] @@ (what :> 1)
LastWord == [words |-> 1]

(* A line that is refused is dropped, whatever was read of it.             *)
NoLine == [scopes |-> <<0>>, firsts |-> <<NoLead>>, pending |-> None, steps |-> None,
           inputs |-> None, outputColor |-> "any", query |-> None]
NothingMeant == [scopes |-> <<[pictures |-> None, shape |-> FALSE]>>, since |-> None]
NoWords == [what \in {"words", "sources", "changes", "options"} |-> 0]
Refused == stage' = "refused" /\ left' = NoWords /\ parser' = NoLine /\ meant' = NothingMeant

CanOpen == parser.pending = None /\ Len(parser.scopes) <= Deepest
Open ==
  /\ Reading(AWord)
  /\ \/ ~CanOpen /\ Refused
     \/ /\ CanOpen
        /\ parser' = [parser EXCEPT !.scopes = Append(@, 0),
                                    !.firsts = Append(Starting, NoLead),
                                    !.steps = Append(@, [kind |-> "open"])]
        /\ meant' = [meant EXCEPT !.scopes = Append(@, [pictures |-> None, shape |-> FALSE])]
        /\ GoesOn(AWord)

CanClose == Len(parser.scopes) > 1 /\ parser.pending = None /\ Pictures > 0
Close ==
  /\ Reading(AWord)
  /\ \/ ~CanClose /\ Refused
     \/ /\ CanClose
        /\ parser' = [parser EXCEPT !.scopes = SetTop(Front(@), Last(Front(@)) + Last(@)),
                                    !.firsts = Front(@),
                                    !.steps = Append(@, [kind |-> "close"])]
        /\ LET around == Last(Front(meant.scopes)) IN
           meant' = [meant EXCEPT !.scopes =
                       SetTop(Front(@), [around EXCEPT !.pictures = @ \o Last(meant.scopes).pictures])]
        /\ GoesOn(AWord)

(* An option waits for the next stage; its value comes attached to it or   *)
(* as the next word, and may be missing.                                   *)
Option(name) ==
  /\ Reading(Also("options"))
  /\ \/ Refused
     \/ \E value \in {"fits", "misfit"} :
          LET option == [name |-> name, value |-> value] IN
          /\ parser' = [parser EXCEPT !.pending = Append(@, option)]
          /\ meant' = [meant EXCEPT !.since = Append(@, option)]
          /\ GoesOn(Also("options"))

(* What a source or a transform leaves of the line as it is meant: the     *)
(* options written since the stage before it are its own.                  *)
MeansPicture(picture, shape) ==
  LET here == Last(meant.scopes) IN
  meant' = [scopes |-> SetTop(meant.scopes,
                              [pictures |-> Append(here.pictures, picture),
                               shape |-> IF here.pictures = None THEN shape ELSE here.shape]),
            since |-> None]

SourceFile(file) ==
  /\ Reading(Also("sources"))
  /\ \/ ~Takes("file") /\ Refused
     \/ /\ Takes("file")
        /\ parser' = [parser EXCEPT
             !.pending = None,
             !.firsts = Starting,
             !.steps = @ \o << [kind |-> "source"], [kind |-> "decode", options |-> parser.pending] >>,
             !.inputs = Append(@, file),
             !.scopes = SetTop(@, Last(@) + 1)]
        /\ MeansPicture(Read(file, meant.since), FALSE)
        /\ GoesOn(Also("sources"))

Generate(brush, options) == [kind |-> "generate", brush |-> brush, options |-> options]

(* The size a painted picture is meant to have: its own, or the picture's  *)
(* before it in its parenthesis.                                           *)
MeantSize(brush, options, before) ==
  IF "size" \in Names(options) \/ ~SizeFallsBack(brush) \/ before = None THEN None ELSE Last(before)

SourceBrush(brush) ==
  /\ Reading(Also("sources"))
  /\ \/ ~Takes("brush") /\ Refused
     \/ /\ Takes("brush")
        /\ parser' = [parser EXCEPT
             !.pending = None,
             !.firsts = IF Pictures = 0
                        THEN SetTop(@, [begin |-> Len(parser.steps) + 1, end |-> 0,
                                        shape |-> brush \in Shapes])
                        ELSE Starting,
             !.steps = Append(@, Generate(brush, parser.pending)),
             !.scopes = SetTop(@, Last(@) + 1)]
        /\ MeansPicture(Paint(brush, meant.since,
                              MeantSize(brush, meant.since, Last(meant.scopes).pictures)),
                        brush \in Shapes)
        /\ GoesOn(Also("sources"))

CanChange(kind) == Pictures > 0 /\ Takes(kind) /\ Len(parser.steps) < MaxSteps
Step(kind) == [kind |-> kind, options |-> parser.pending]

(* A transform that is not a merge: its value may be missing or wrong.     *)
Transform(kind) ==
  /\ Reading(Also("changes"))
  /\ \/ Refused
     \/ /\ CanChange(kind)
        /\ parser' = [parser EXCEPT !.pending = None, !.steps = Append(@, Step(kind))]
        /\ LET here == Last(meant.scopes)
               top == Last(here.pictures)
               made == IF kind = "pixpalette" THEN top ELSE Changed(kind, meant.since, top)
           IN  meant' = [scopes |-> SetTop(meant.scopes,
                                           [here EXCEPT !.pictures = SetTop(@, made)]),
                         since |-> None]
        /\ GoesOn(Also("changes"))

(* A merge wants a picture and one to three over it.  When the first of    *)
(* them is a shape, a lone colour over it gets nothing as its second       *)
(* colour, and two colours over it get a clear copy of the shape under     *)
(* them: the steps that made it once more, and then no pixels.             *)
CanMerge == Pictures \in 2 .. 4 /\ CanChange("composite")
(* As the code would be if a lone colour were given its null whatever the  *)
(* -compose.                                                               *)
MergedWhatever ==
  LET lead == Last(parser.firsts)
      shapeFirst == lead # NoLead /\ lead.shape
      steps == IF Pictures = 2 THEN Append(parser.steps, Generate("null", None)) ELSE parser.steps
      copy == Append(SubSeq(parser.steps, lead.begin, lead.end), [kind |-> "nil", options |-> None])
  IN  Append(IF shapeFirst /\ Pictures \in 2 .. 3
             THEN SubSeq(steps, 1, lead.begin - 1) \o copy \o SubSeq(steps, lead.begin, Len(steps))
             ELSE parser.steps,
             Step("composite"))

Merged ==
  LET lead == Last(parser.firsts)
      shapeFirst == lead # NoLead /\ lead.shape
      alone == shapeFirst /\ Pictures = 2 /\ ModeOf(parser.pending) = "over"
      steps == IF alone THEN Append(parser.steps, Generate("null", None)) ELSE parser.steps
      copy == Append(SubSeq(parser.steps, lead.begin, lead.end), [kind |-> "nil", options |-> None])
      three == shapeFirst /\ (alone \/ Pictures = 3)
  IN  Append(IF three
             THEN SubSeq(steps, 1, lead.begin - 1) \o copy \o SubSeq(steps, lead.begin, Len(steps))
             ELSE steps,
             Step("composite"))

(* What the merge of these pictures means.                                 *)
Tinted(shape, colour) == Mixed("tint", None, shape, colour)
TwoColours(shape, first, second) ==
  Mixed("over", None, Tinted(Changed("negate", None, shape), second), Tinted(shape, first))
Clear(picture) == Changed("nil", None, picture)
MeantMerge(ps, shapeFirst, options) ==
  LET over(base, layer) == Mixed(ModeOf(options), options, base, layer)
      onNothing == Paint("null", None, ps[2])
  IN  CASE Len(ps) = 4 -> over(ps[1], TwoColours(ps[2], ps[3], ps[4]))
        [] Len(ps) = 3 /\ shapeFirst -> over(Clear(ps[1]), TwoColours(ps[1], ps[2], ps[3]))
        [] Len(ps) = 3 /\ ~shapeFirst -> over(ps[1], Tinted(ps[2], ps[3]))
        [] Len(ps) = 2 /\ shapeFirst /\ ModeOf(options) = "over" ->
             over(Clear(ps[1]), TwoColours(ps[1], ps[2], onNothing))
        [] OTHER -> over(ps[1], ps[2])

Merge ==
  /\ Reading(AWord)
  /\ \/ ~CanMerge /\ Refused
     \/ /\ CanMerge
        /\ parser' = [parser EXCEPT !.pending = None, !.steps = Merged,
                                    !.scopes = SetTop(@, 1), !.firsts = SetTop(@, NoLead)]
        /\ LET here == Last(meant.scopes) IN
           meant' = [scopes |-> SetTop(meant.scopes,
                       [pictures |-> <<MeantMerge(here.pictures, here.shape, meant.since)>>,
                        shape |-> FALSE]),
                     since |-> None]
        /\ GoesOn(AWord)

(* The last word: the output, when it is not somebody's value.             *)
(* As the code would be if it did not ask for the pictures to be joined.   *)
CanOutputSeveral == Len(parser.scopes) = 1 /\ Pictures > 0 /\ Takes("output")

CanOutput == Len(parser.scopes) = 1 /\ Pictures = 1 /\ Takes("output")
Output ==
  /\ Reading(LastWord)
  /\ \/ ~CanOutput /\ Refused
     \/ /\ CanOutput
        /\ parser' = [parser EXCEPT !.pending = None,
             !.outputColor = IF Last(parser.steps).kind \in {"nil", "pixpalette"}
                             THEN Last(parser.steps).kind ELSE "any"]
        /\ stage' = "parsed" /\ left' = NoWords
        /\ UNCHANGED meant

(* A line that ends without one, whatever else is wrong with it.           *)
EndOfLine ==
  /\ Reading(LastWord)
  /\ Refused

-----------------------------------------------------------------------------
(* What runs.                                                              *)

Encode(container, color) == [kind |-> "encode", container |-> container, color |-> color]

NotRun == [tokens |-> None, at |-> 0, inputs |-> None, next |-> 1, stack |-> None, scopes |-> <<0>>]
Running(tokens, inputs) == [NotRun EXCEPT !.tokens = tokens, !.at = 1, !.inputs = inputs]

(* Every input is read before anything runs, so a file that is not there   *)
(* stops the line before a picture is decoded; so does a format nobody     *)
(* knows, of an input or of the output, and a transform that only parses.  *)
Build ==
  /\ stage = "parsed"
  /\ \/ Refused /\ UNCHANGED run
     \/ /\ \A i \in DOMAIN parser.steps : parser.steps[i].kind # "fx"
        /\ stage' = "running"
        /\ run' = Running(Append(parser.steps, Encode("output", parser.outputColor)), parser.inputs)
        /\ UNCHANGED <<left, parser, meant>>
  /\ UNCHANGED answer

(* A query says what is wanted by key, in whatever order: the tokens come  *)
(* in one order of their own.                                              *)
Kind(key) == IF key = "size" THEN "resize" ELSE key
Named(key) == <<[name |-> key]>>
TokenFor(key, asked) == IF key \in asked THEN <<[kind |-> Kind(key), options |-> Named(key)]>> ELSE None
FormatToken(asked, wanted) ==
  LET color == IF "pix_fmt" \in asked THEN "rgb565" ELSE "any"
  IN  CASE "format" \in asked -> <<Encode(wanted, color)>>
        [] {"format", "pix_fmt"} \cap asked = {"pix_fmt"} -> <<Encode("raw", color)>>
        [] OTHER -> None
QueryTokens(asked, wanted) ==
  TokenFor("crop", asked) \o TokenFor("size", asked) \o TokenFor("resize", asked)
    \o TokenFor("radius", asked) \o FormatToken(asked, wanted)
TokenOrder == <<"crop", "size", "resize", "radius">>

(* A query whose transforms are written in the order of their tokens.      *)
InTokenOrder(written) ==
  \A i, j \in DOMAIN written, m, n \in DOMAIN TokenOrder :
    i < j /\ written[i] = TokenOrder[m] /\ written[j] = TokenOrder[n] => m < n

(* What a query means, as the note of cacheKey has it: a pipeline, in the   *)
(* order it is written.                                                    *)
MeantByQuery(file, written) ==
  LET upTo[i \in 0 .. Len(written)] ==
        CASE i = 0 -> Read(file, None)
          [] i > 0 /\ written[i] \in ChangeKeys ->
               Changed(Kind(written[i]), Named(written[i]), upTo[i - 1])
          [] OTHER -> upTo[i - 1]
  IN  upTo[Len(written)]

Encodes(tokens) == \E i \in DOMAIN tokens : tokens[i].kind = "encode"
(* As the code would be if a colour named did not count.                   *)
AlreadyInFormat(tokens, held) ==
  tokens # None /\ \A i \in DOMAIN tokens : tokens[i].kind = "encode" /\ tokens[i].container = held
(* Asking for the format a file already is, and nothing else, is asking    *)
(* for the file.                                                           *)
AlreadyWhatWasAsked(tokens, held) ==
  tokens # None /\ \A i \in DOMAIN tokens : tokens[i] = Encode(held, "any")

(* A transform with no format goes back into the format it came in, but    *)
(* for a ppm.                                                              *)
WithFallback(tokens, held) ==
  IF Encodes(tokens) THEN tokens
  ELSE Append(tokens, Encode(IF held = "ppm" THEN "png" ELSE held, "any"))

(* What a query answers with, before the body is encoded.                  *)
Whole(file, container) == [as |-> "file", container |-> container, color |-> "any", picture |-> Read(file, None)]

Query(file, held, written, wanted) ==
  /\ UNCHANGED left
  /\ LET asked == ToSet(written)
         tokens == QueryTokens(asked, wanted)
     IN
     /\ parser' = [parser EXCEPT !.steps = tokens, !.inputs = <<file>>,
                                 !.query = [held |-> held, asked |-> asked, wanted |-> wanted,
                                            written |-> written]]
     /\ meant' = [meant EXCEPT !.scopes = <<[pictures |-> <<MeantByQuery(file, written)>>, shape |-> FALSE]>>]
     /\ IF tokens = None \/ AlreadyWhatWasAsked(tokens, held)
        THEN stage' = "answered" /\ answer' = Whole(file, held) /\ UNCHANGED run
        ELSE stage' = "running" /\ run' = Running(WithFallback(tokens, held), <<file>>) /\ UNCHANGED answer

-----------------------------------------------------------------------------
(* The pipeline.  A picture is kept in the colour it came in until a       *)
(* transform needs it in rgba8888, and beside it, from a palette on, as    *)
(* indices.                                                                *)

Stale == <<"stale">>
Native(picture) == [native |-> picture, image |-> Stale, indexed |-> None]
Pixels(p) == IF p.native # None THEN p.native ELSE p.image
InRgba(p) == [p EXCEPT !.native = None, !.image = Pixels(p)]

Did(step, picture) == IF picture = None THEN None ELSE Changed(step.kind, step.options, picture)

(* As the code would be if only the full colour were cropped.              *)
CropOfImage(p, step) == {[InRgba(p) EXCEPT !.image = Did(step, @)]}

(* A crop, and a resize by its one filter, mean something to indices too.  *)
CropOf(p, step) == {[InRgba(p) EXCEPT !.image = Did(step, @), !.indexed = Did(step, @)]}
ResizeOf(p, step) == {[InRgba(p) EXCEPT !.image = Did(step, @), !.indexed = Did(step, @)]}
RadiusOf(p, step) == {[InRgba(p) EXCEPT !.image = Did(step, @), !.indexed = None]}
(* A grey is negated as it is, anything else once it is widened.           *)
NegateOf(p, step) ==
  LET widened == [InRgba(p) EXCEPT !.image = Did(step, @), !.indexed = None]
  IN  {widened} \cup (IF p.native = None THEN {} ELSE {[p EXCEPT !.native = Did(step, @), !.indexed = None]})
PaletteOf(p, step) ==
  LET fitted == Did(step, Pixels(p)) IN {[native |-> None, image |-> fitted, indexed |-> fitted]}
(* Indices are only ever the ones a palette left.                          *)
PixFmtOf(p, step) ==
  IF step.kind = "pixpalette" THEN (IF p.indexed = None THEN {} ELSE {p})
  ELSE {Native(Did(step, Pixels(p)))}

ChangesOf(p, step) ==
  CASE step.kind = "crop" -> CropOf(p, step)
    [] step.kind = "resize" -> ResizeOf(p, step)
    [] step.kind = "radius" -> RadiusOf(p, step)
    [] step.kind = "negate" -> NegateOf(p, step)
    [] step.kind = "palette" -> PaletteOf(p, step)
    [] OTHER -> PixFmtOf(p, step)

(* A layer on a base: full colour, so the indices of a palette go.         *)
CompositeOf(base, layer, mode, options) ==
  [native |-> None, image |-> Mixed(mode, options, Pixels(base), Pixels(layer)), indexed |-> None]

(* The pictures a merge finds in its parenthesis, made one.                *)
Joined(ps, options) ==
  LET tint(p, colour) == CompositeOf(p, colour, "tint", None)
      negative == CHOOSE p \in NegateOf(ps[2], [kind |-> "negate", options |-> None]) : TRUE
      layer == CASE Len(ps) = 4 -> CompositeOf(tint(negative, ps[4]), tint(ps[2], ps[3]), "over", None)
                 [] Len(ps) = 3 -> tint(ps[2], ps[3])
                 [] OTHER -> ps[2]
  IN  CompositeOf(ps[1], layer, ModeOf(options), options)

Token == run.tokens[run.at]
InScope(stack) == SubSeq(stack, Last(run.scopes) + 1, Len(stack))
(* The one input of a query is decoded the moment its pixels are needed.   *)
Lazily ==
  IF run.stack = None /\ run.next = 1 /\ run.inputs # None
  THEN [stack |-> <<Native(Read(run.inputs[1], None))>>, next |-> 2]
  ELSE [stack |-> run.stack, next |-> run.next]

RunsA(kinds) == stage = "running" /\ run.at <= Len(run.tokens) /\ Token.kind \in kinds /\ UNCHANGED left
(* As the code would be if every step moved on to the next input.          *)
GoesOnReading(stack, next) ==
  /\ run' = [run EXCEPT !.at = @ + 1, !.stack = stack, !.next = next + 1]
  /\ UNCHANGED <<stage, parser, meant, answer>>
Goes(stack, next) ==
  /\ run' = [run EXCEPT !.at = @ + 1, !.stack = stack, !.next = next]
  /\ UNCHANGED <<stage, parser, meant, answer>>
(* A failure is all that is left of a conversion that failed.              *)
Fails(why) == /\ stage' = "failed" /\ answer' = [as |-> why]
              /\ run' = NotRun /\ parser' = NoLine /\ meant' = NothingMeant

(* A source is only a name, an encode only what the end is to do.          *)
RunNothing == RunsA({"source", "encode"}) /\ Goes(run.stack, run.next)

RunDecode ==
  /\ RunsA({"decode"})
  /\ IF run.next > Len(run.inputs) THEN Fails("more pictures asked for than were given")
     ELSE \/ Fails("data")
          \/ Goes(Append(run.stack, Native(Read(run.inputs[run.next], Token.options))), run.next + 1)

RunGenerate ==
  /\ RunsA({"generate"})
  /\ LET fallsBack == /\ "size" \notin Names(Token.options)
                      /\ SizeFallsBack(Token.brush)
                      /\ Len(run.stack) > Last(run.scopes)
         size == IF fallsBack THEN Pixels(Last(run.stack)) ELSE None
     IN  \/ Fails("data")
         \/ Goes(Append(run.stack, Native(Paint(Token.brush, Token.options, size))), run.next)

(* A transform changes the picture on top: the one made last, inside the   *)
(* innermost parenthesis.                                                  *)
RunChange ==
  /\ RunsA(PlainKinds)
  /\ LET lazy == Lazily
         stack == lazy.stack
     IN  IF InScope(stack) = None THEN Fails("there is no picture here to change")
         ELSE \/ Fails("data")
              \/ \E p \in ChangesOf(Last(stack), Token) : Goes(SetTop(stack, p), lazy.next)

RunMerge ==
  /\ RunsA({"composite"})
  /\ LET lazy == Lazily
         here == InScope(lazy.stack)
     IN  CASE here = None -> Fails("there is no picture here to change")
           [] here # None /\ Len(here) \notin 2 .. 4 -> Fails("-composite joins a picture and one to three over it")
           [] OTHER -> \/ Fails("data")
                       \/ Goes(Append(SubSeq(lazy.stack, 1, Last(run.scopes)), Joined(here, Token.options)), lazy.next)

RunOpen ==
  /\ RunsA({"open"})
  /\ run' = [run EXCEPT !.at = @ + 1, !.scopes = Append(@, Len(run.stack))]
  /\ UNCHANGED <<stage, parser, meant, answer>>

RunClose ==
  /\ RunsA({"close"})
  /\ IF Len(run.scopes) = 1 THEN Fails("a parenthesis closed that was never opened")
     ELSE /\ run' = [run EXCEPT !.at = @ + 1, !.scopes = Front(@)]
          /\ UNCHANGED <<stage, parser, meant, answer>>

(* The end: the one picture left, in the container and the colour asked    *)
(* for; with no container its pixels, and with nothing decoded the file.   *)
(* A palette goes out as indices where the container keeps them.           *)
AsIndices(p, color) == p.indexed # None /\ color \in {"any", "pixpalette"}
Answers(as, color, picture) ==
  /\ stage' = "answered" /\ UNCHANGED <<run, parser, meant>>
  /\ answer' = [as |-> as, container |-> Last(run.tokens).container, color |-> color, picture |-> picture]

RunEnd ==
  /\ stage = "running" /\ run.at > Len(run.tokens) /\ UNCHANGED left
  /\ LET end == Last(run.tokens)
         stack == Lazily.stack
     IN  IF end.container = "raw" /\ end.color = "any" /\ run.stack = None /\ run.next = 1 /\ Len(run.inputs) = 1
         THEN /\ stage' = "answered" /\ UNCHANGED <<run, parser, meant>>
              /\ answer' = Whole(run.inputs[1], parser.query.held)
         ELSE IF Len(stack) # 1 THEN Fails("pictures and one output; join them with -composite")
         ELSE LET p == stack[1] IN
              \/ Fails("data")
              \/ /\ end.container \in {"raw", "output"}
                 /\ Answers("pixels", IF end.color = "any" THEN "rgba8888" ELSE end.color, Pixels(p))
              \/ /\ end.container # "raw" /\ AsIndices(p, end.color)
                 /\ Answers("indices", end.color, p.indexed)
              \/ /\ end.container # "raw" /\ end.color # "pixpalette"
                 /\ Answers("picture", end.color, Pixels(p))

-----------------------------------------------------------------------------

Init ==
  /\ stage = "reading"
  /\ left = [words |-> MaxWords, sources |-> MaxSources, changes |-> MaxChanges, options |-> MaxOptions]
  /\ parser = NoLine /\ meant = NothingMeant /\ run = NotRun /\ answer = None

Word ==
  \/ Open \/ Close \/ Merge \/ Output \/ EndOfLine
  \/ \E name \in Options : Option(name)
  \/ \E file \in Files : SourceFile(file)
  \/ \E brush \in Shapes \cup Canvases : SourceBrush(brush)
  \/ \E kind \in Plain : Transform(kind)

(* The queries considered: the keys in the order they are written.  Bound: *)
(* none is written twice.                                                  *)
Queries == {written \in SeqOf(Keys, Cardinality(Keys)) : IsInjective(written)}

Asks ==
  /\ stage = "reading" /\ parser.steps = None /\ parser.pending = None /\ Len(parser.scopes) = 1
  /\ \E file \in Files, held \in {"png", "ppm"}, written \in Queries, wanted \in {"png", "ppm", "raw"} :
       ("format" \notin ToSet(written) => wanted = held) /\ Query(file, held, written, wanted)

Run ==
  RunNothing \/ RunDecode \/ RunGenerate \/ RunChange \/ RunMerge \/ RunOpen \/ RunClose \/ RunEnd

Next == Word \/ Asks \/ Build \/ Run

Spec == Init /\ [][Next]_vars

-----------------------------------------------------------------------------
(* What should hold.                                                       *)

Stages == {"reading", "parsed", "refused", "running", "answered", "failed"}

(* The parser and the pipeline hold what they say they hold: a count and a *)
(* lead for each open parenthesis, pictures only while something runs, and *)
(* the inputs taken in order.                                              *)
TypeOK ==
  /\ stage \in Stages
  /\ Len(parser.scopes) = Len(parser.firsts) /\ Len(parser.scopes) = Len(meant.scopes)
  /\ parser.query = None => \A i \in DOMAIN parser.scopes : parser.scopes[i] = Len(meant.scopes[i].pictures)
  /\ \A i \in DOMAIN parser.firsts : parser.firsts[i].end <= Len(parser.steps)
  /\ run.next \in 1 .. Len(run.inputs) + 1
  /\ \A i \in DOMAIN run.scopes : run.scopes[i] <= Len(run.stack)

(* A line the parser lets through never meets a pipeline without the       *)
(* pictures it counted: the two agree on every parenthesis and merge, the  *)
(* steps a shape is rewritten into included, and at the end one picture is *)
(* left and every input that was read was used.                            *)
StackFailures ==
  {"there is no picture here to change", "more pictures asked for than were given",
   "-composite joins a picture and one to three over it",
   "a parenthesis closed that was never opened", "pictures and one output; join them with -composite"}
AcceptedLineRuns ==
  /\ stage = "failed" => answer.as \notin StackFailures
  /\ stage = "answered" /\ answer.as # "file" => Len(run.stack) <= 1 /\ Lazily.next = Len(run.inputs) + 1

(* What comes out is the picture the words describe: each transform on the *)
(* picture made last in its parenthesis, with the options right before it, *)
(* merges in the order the grammar's notes give, a shape first of them     *)
(* over a clear copy of itself, and a canvas with no size as big as the    *)
(* picture before it.  Never a picture somebody moved out of.  A query is  *)
(* held to the order it is written in only where that is the tokens' own:  *)
(* in any other it is answered with the picture of the tokens' order,      *)
(* though haio_cache.hpp:52 and test_cdn_cache.cpp:42 call the order of a  *)
(* query its meaning.                                                      *)
AnswerIsMeant ==
  stage = "answered" /\ (parser.query # None => InTokenOrder(parser.query.written)) =>
    answer.picture = Last(meant.scopes[1].pictures)

(* The indices kept beside a picture are that same picture, or an encode   *)
(* that prefers them would write another one.                              *)
IndicesInStep ==
  \A i \in DOMAIN run.stack :
    run.stack[i].indexed # None => run.stack[i].native = None /\ run.stack[i].indexed = run.stack[i].image

(* A query gets the format it asked for; with none, the pixels of the      *)
(* colour it named, or the file's own format, in which nothing is ever     *)
(* written out as a ppm; and the untouched file only when nothing was      *)
(* asked of it but the format it is, or no format at all.                  *)
QueryGetsItsFormat ==
  stage = "answered" /\ parser.query # None =>
    LET query == parser.query
        changes == query.asked \ {"format", "pix_fmt"}
        untouched == changes = {} /\ "pix_fmt" \notin query.asked /\ query.wanted \in {query.held, "raw"}
    IN  /\ (answer.as = "file") = untouched
        /\ untouched \/ answer.container =
             CASE "format" \in query.asked -> query.wanted
               [] "format" \notin query.asked /\ "pix_fmt" \in query.asked -> "raw"
               [] OTHER -> "png"
=============================================================================
