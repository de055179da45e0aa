------------------------ MODULE MCCommitVerification ------------------------
(***************************************************************************)
(* Requests over four coins of one group, and a coin of another that is    *)
(* co-anchored with one of them; for the simplest request, under every     *)
(* funding and change policy, answers that perturb the caller's fields and *)
(* append up to two coins; for the others, answers that perturb the        *)
(* packets; and for every package, edits of one field or one entry.        *)
(***************************************************************************)
EXTENDS CommitVerification

-----------------------------------------------------------------------------
(* Coins and transaction templates *)

Coin(outpoint, issuance, group, amount, key) ==
    [outpoint |-> outpoint, issuance |-> issuance, group |-> group,
     amount |-> amount, key |-> key, locked |-> FALSE]

a1 == Coin("x", "A1", "G", 2, "mine")
a2 == Coin("y", "A2", "G", 2, "mine")
a3 == Coin("z", "A1", "G", 1, "mine")
a4 == Coin("w", "A2", "G", 2, "mine")
b1 == Coin("w", "B", NoGroup, 1, "mine")

MCGenuine == {a1, a2, a3, a4, b1}

Input(outpoint, value) ==
    [outpoint |-> outpoint, sequence |-> 0, value |-> value, fixed |-> "blank",
     derivations |-> {"origin"}, stable |-> TRUE]

Output(value, script) ==
    [value |-> value, script |-> script, fixed |-> "meta", roots |-> {}]

Funded == [header |-> "v2", inputs |-> <<Input("x", 3)>>,
           outputs |-> <<Output(1, "asset"), Output(2, "payee")>>]

P2AParent == [header |-> "v3", inputs |-> <<Input("x", 3)>>,
              outputs |-> <<Output(3, "asset"), Output(0, "p2a")>>]

\* A template that spends just the inputs' anchor outputs.
Exact(inputs) ==
    LET outpoints == SetToSeq({i.coin.outpoint : i \in ToSet(inputs)})
    IN  [header |-> "v2",
         inputs |-> [i \in DOMAIN outpoints |-> Input(outpoints[i], 4)],
         outputs |-> <<Output(2, "asset"), Output(2, "asset")>>]

Funding(mode, change) ==
    [mode |-> mode, variants |-> {mode}, change |-> change, existing |-> 2,
     maxFee |-> 2, lockID |-> "lock", p2a |-> 2]

-----------------------------------------------------------------------------
(* Requests *)

In(id, ref, coin, witness) ==
    [id |-> id, ref |-> ref, amount |-> coin.amount, sources |-> {"file"},
     coin |-> coin, witness |-> witness]

Out(id, ref, amount, script, index) ==
    [id |-> id, ref |-> ref, amount |-> amount, script |-> script, key |-> id,
     index |-> index, value |-> 2, anchor |-> "key"]

A1 == AssetRef("A1")
G == GroupRef("G")

InputLists ==
    {<<In("i", ref, a1, w)>> : ref \in {A1, G}, w \in {"backend", "valid"}}
      \cup {<<In("i", G, c, w), In("j", G, a2, v)>> :
               c \in {a1, a3}, w, v \in {"backend", "valid"}}
      \cup {<<In("i", ref, a1, w), In("j", G, a3, v)>> :
               ref \in {A1, G}, w, v \in {"backend", "valid"}}
      \cup {<<In("i", G, a2, "backend")>>,
            <<In("i", G, [a3 EXCEPT !.key = "other"], "backend")>>,
            <<In("i", G, a1, "invalid")>>,
            <<In("i", G, [a1 EXCEPT !.amount = 3], "backend")>>,
            <<In("i", G, [a1 EXCEPT !.locked = TRUE], "backend")>>,
            <<In("i", A1, a1, "backend"), In("j", G, a1, "backend")>>}

OutputLists ==
    LET Outs1(id) == {Out(id, ref, amount, script, index) :
                         ref \in {A1, G}, amount \in 1..3,
                         script \in {"external", "burn"}, index \in {1, 2}}
    IN  {<<o>> : o \in Outs1("o")}
          \cup {<<o, p>> : o \in Outs1("o"), p \in Outs1("p")}
          \cup {<<Out("o", G, 2, script, 1), Out("p", G, 1, "wallet", 2)>> :
                   script \in {"opTrue", "pretweaked"}}
          \* One script key for two outputs.
          \cup {<<Out("o", A1, 2, "external", 1),
                  [Out("p", G, 2, "external", 1) EXCEPT !.key = "o"]>>}

NoLoss == [mode |-> "reject", confirmed |-> FALSE, allowances |-> <<>>]

Losses ==
    {NoLoss, [mode |-> "burn", confirmed |-> FALSE, allowances |-> <<>>]}
      \cup {[mode |-> "burn", confirmed |-> TRUE,
             allowances |-> <<[ref |-> G, amount |-> n]>>] : n \in {1, 2}}

Policy(policy) == [policy |-> policy, packets |-> <<>>]

Reanchoring(list) == [policy |-> "callerReanchor", packets |-> list]

PassivePacket(coin) ==
    [id |-> "p", ref |-> Identity(coin), amount |-> coin.amount, tip |-> coin,
     input |-> coin, wellFormed |-> TRUE,
     output |-> [issuance |-> coin.issuance, amount |-> coin.amount,
                 key |-> coin.key, index |-> 1, anchor |-> "key"]]

Passives ==
    LET good == PassivePacket(b1)
    IN  {Policy("preserve"), Reanchoring(<<good>>),
         \* An active coin once more, and the passive one twice.
         Reanchoring(<<good, [PassivePacket(a4) EXCEPT !.id = "q"]>>),
         Reanchoring(<<good, [good EXCEPT !.id = "q"]>>),
         Reanchoring(<<[good EXCEPT !.output.key = "stolen"]>>),
         Reanchoring(<<[good EXCEPT !.output.amount = 2]>>)}

Request(inputs, outputs, loss, passive, funding, template) ==
    [inputs |-> inputs, outputs |-> outputs, loss |-> loss,
     passive |-> passive, funding |-> funding, template |-> template]

CallerFunded == Funding("callerFundedExact", "none")

Simple(funding, template) ==
    Request(<<In("i", G, a1, "backend")>>,
            <<[Out("o", G, 2, "external", 1)
                  EXCEPT !.value = template.outputs[1].value]>>,
            NoLoss, Policy("reject"), funding, template)

MCRequests ==
    {Request(i, o, l, Policy("reject"), CallerFunded, Exact(i)) :
        i \in InputLists, o \in OutputLists, l \in Losses}
      \cup {Request(i, <<o>>, NoLoss, p, CallerFunded, Exact(i)) :
               i \in {<<In("i", G, a4, "backend")>>},
               o \in {Out(id, G, 2, "external", x) : id \in {"", "o"}, x \in {1, 2}},
               p \in Passives}
      \cup {Simple(Funding("walletFunded", c), Funded) :
               c \in {"add", "existing", "noNew"}}
      \cup {Simple(CallerFunded, Funded),
            Simple(Funding("externalP2A", "none"), P2AParent),
            Simple(Funding("externalP2A", "none"), Funded)}

\* The caller reuses its request: the next transfer burns.
MCEdits(r) == {[r EXCEPT !.outputs[1].script = "burn"]}

-----------------------------------------------------------------------------
(* Answers *)

\* What the backend may do to a caller's input.
PerturbedInputs(input) ==
    {input,
     [input EXCEPT !.derivations = {"origin", "signer"}],
     [input EXCEPT !.derivations = {"signer"}],
     [input EXCEPT !.sequence = 1],
     [input EXCEPT !.value = @ + 1]}

AppendedInputs ==
    LET coins == {Input("coin1", 2), Input("coin2", 3), Input("x", 3),
                  [Input("legacy", 2) EXCEPT !.stable = FALSE]}
    IN  {<<>>} \cup {<<c>> : c \in coins} \cup {<<c, d>> : c, d \in coins}

\* And to an output: its value, its script, or (tapd's own part) its roots.
PerturbedOutputs(output, committed) ==
    {[output EXCEPT !.value = v, !.script = s, !.roots = r] :
        v \in {output.value, output.value + 2},
        s \in {output.script, "committed"}, r \in {{}, committed}}

\* Caller parts of an answer: input and asset output perturbed together, or the
\* BTC-only output.
CallerParts(template, committed) ==
    LET input == template.inputs[1]
        asset == template.outputs[1]
        payee == template.outputs[2]
    IN  {<<i, o, payee>> : i \in PerturbedInputs(input),
                          o \in PerturbedOutputs(asset, committed)}
          \cup {<<input, asset, o>> : o \in PerturbedOutputs(payee, committed)}

Locks == {<<>>, <<"coin1">>, <<"coin1", "coin1">>, <<"coin1", "coin2">>,
          <<"x">>}

Filled(template) == [template EXCEPT !.inputs[1].fixed = Required("x")]

RootsAt(r, p, index) ==
    {out \in VirtualOutputs(r, p) : out.index = index}

\* A signer that does as asked, pays somebody else, or signs badly.
MCSignatures(own) ==
    LET Signed(p) == [packet |-> p, witnessed |-> TRUE]
        Diverted(p) == [packet |-> [p EXCEPT !.outs =
                                      {[o EXCEPT !.key = <<"static", "stolen">>] :
                                          o \in @}],
                        witnessed |-> TRUE]
        honest == [p \in own |-> Signed(p)]
    IN  {honest}
        \cup {[honest EXCEPT ![p] = Diverted(p)] : p \in own}
        \cup {[honest EXCEPT ![p].witnessed = FALSE] : p \in own}

\* The virtual packets as submitted, with the suffixes of the answered anchor.
Committed(r, p, anchor) ==
    [inputs |-> VirtualInputs(r, p),
     outputs |-> {[out |-> out, suffix |-> Suffix(anchor, out)] :
                     out \in VirtualOutputs(r, p)}]

Perturbed(r, p, answer) ==
    {[answer EXCEPT
        !.anchor = [header |-> p.template.header,
                    inputs |-> <<parts[1]>> \o appended,
                    outputs |-> <<parts[2], parts[3]>> \o extra],
        !.change = change, !.locked = locked, !.commitments = commitments] :
        parts \in CallerParts(p.template, VirtualOutputs(r, p)),
        appended \in AppendedInputs,
        extra \in {<<>>} \cup {<<Output(v, "change")>> : v \in 0..3},
        change \in {NoChange, 2, 3},
        locked \in Locks,
        commitments \in BOOLEAN}

\* An exact answer, and what a backend may do to its packets: exchange suffixes,
\* prove another transaction, pay or drop another output, forget a proof.
ExactAnswers(r, p) ==
    LET anchor == [p.template EXCEPT
                      !.outputs = [i \in DOMAIN @ |->
                         [@[i] EXCEPT !.script = IF i = 1 THEN "committed" ELSE @,
                                      !.roots = RootsAt(r, p, i)]]]
        answer == [anchor |-> anchor, change |-> NoChange, locked |-> <<>>,
                   commitments |-> TRUE, virtual |-> Committed(r, p, anchor)]
        outs == VirtualOutputs(r, p)
        WithOutputs(entries) == [answer EXCEPT !.virtual.outputs = entries]
    IN  {answer,
         WithOutputs({[out |-> o, suffix |-> Suffix(p.template, o)] :
                        o \in outs})}
        \cup {WithOutputs({[out |-> o, suffix |-> Suffix(anchor, o)] :
                             o \in outs \ {x}}) :
                 x \in outs}
        \cup {WithOutputs({[out |-> o, suffix |-> Suffix(anchor, x)] :
                             o \in outs}) :
                 x \in outs}

MCAnswers(r, p) ==
    IF p.template \in {Filled(Funded), Filled(P2AParent)}
    THEN {[a EXCEPT !.virtual = Committed(r, p, a.anchor)] :
             a \in Perturbed(r, p, [anchor |-> p.template, change |-> NoChange,
                                   locked |-> <<>>, commitments |-> TRUE,
                                   virtual |-> {}])}
    ELSE ExactAnswers(r, p)

-----------------------------------------------------------------------------
(* Edits of a package: one field, or one entry of a list *)

Elsewhere(list, i, field) == {list[j][field] : j \in DOMAIN list \ {i}}

MCHostEdits(k) ==
    {[k EXCEPT !.locked = <<>>], [k EXCEPT !.lockID = ""],
     [k EXCEPT !.lockID = "lock"], [k EXCEPT !.fee = @ + 1],
     [k EXCEPT !.maxFee = @ + 1], [k EXCEPT !.mode = "callerFundedExact"],
     [k EXCEPT !.mode = "walletFunded"], [k EXCEPT !.managed = {}],
     [k EXCEPT !.managed = @ \cup {1}, !.plans = @ \ {1}],
     [k EXCEPT !.updates = Tail(@)], [k EXCEPT !.inputs = Tail(@)],
     [k EXCEPT !.outputs = Tail(@)],
     \* An update for somebody else is appended.
     [k EXCEPT !.updates = Append(@, [@[1] EXCEPT !.recipient = "o"])],
     [k EXCEPT !.inputs = Append(@, @[1])]}
      \cup {[k EXCEPT !.updates[i][f] = v] :
               <<i, f, v>> \in
                 UNION {{<<i, f, v>> : v \in Elsewhere(k.updates, i, f)} :
                           i \in DOMAIN k.updates,
                           f \in {"at", "proof", "recipient", "id"}}}
      \cup {[k EXCEPT !.inputs[i].source = v] :
               <<i, v>> \in
                 UNION {{<<i, v>> : v \in Elsewhere(k.inputs, i, "source")} :
                           i \in DOMAIN k.inputs}}
=============================================================================
