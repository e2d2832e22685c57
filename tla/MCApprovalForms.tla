-------------------------- MODULE MCApprovalForms --------------------------
(***************************************************************************)
(* Instance of ApprovalForms for TLC: one named principal, three codes -   *)
(* one begins like the prefix, one is nothing but confusable digits - and  *)
(* enrollments whose modes share a key, or an input's name.                *)
(***************************************************************************)
EXTENDS ApprovalForms

MCSecrets ==
    {WrittenCode(<< <<"0", "M">>, <<"C", "1">> >>),
     WrittenCode(<< <<"M", "C">>, <<"P", "0">> >>),
     WrittenCode(<< <<"1", "1">>, <<"0", "1">> >>)}

Field(key, secret, optional) == [key |-> key, secret |-> secret, optional |-> optional]

Mode(key, fields) == [key |-> key, fields |-> fields]

Token == Field(<<"token">>, TRUE, FALSE)

MCEnrollments ==
    [callback : BOOLEAN,
     modes :
        {<< Mode(<<"key">>, <<Token, Field(<<"user">>, FALSE, TRUE)>>) >>,
         << Mode(<<"key">>, <<Token>>),
            Mode(<<"file">>, <<Field(<<"token">>, FALSE, FALSE)>>) >>,
         << Mode(<<"a">>, <<Field(<<"b", "c">>, TRUE, TRUE)>>),
            Mode(<<"a", "b">>, <<Field(<<"c">>, FALSE, FALSE)>>) >>,
         << Mode(<<"key">>, <<Token, Token>>) >>,
         << Mode(<<"key">>, <<Token>>), Mode(<<"key">>, <<Token, Field(<<"id">>, FALSE, TRUE)>>) >>,
         << Mode(<<>>, <<Token>>) >>,
         << Mode(<<"key">>, <<>>) >>,
         <<>>}]

MCBindings ==
    {[ws |-> <<"a", ",", " ", "b">>, org |-> <<"b", "a", ",">>],
     [ws |-> <<"b", "a", ",", "b">>, org |-> <<"b", ",", "b">>]}

MCEnrolledBindings == {[ws |-> <<"a">>]}

MCTyped ==
    {[prefix |-> PairingPrefix, hand |-> <<>>, between |-> <<"-">>],
     [prefix |-> <<>>, hand |-> Lowercase, between |-> <<>>]}
=============================================================================
