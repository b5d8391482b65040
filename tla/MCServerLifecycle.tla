-------------------------- MODULE MCServerLifecycle --------------------------
EXTENDS ServerLifecycle

CONSTANTS w1, w2

Request(method, target, body) == [method |-> method, target |-> target, body |-> body]

OrderBody(sku, qty) == [orderid |-> "string", sku |-> sku, qty |-> qty]
BatchBody(qty, eta) == [ref |-> "string", sku |-> "string", qty |-> qty, eta |-> eta]

\* A good request and a bad one of every kind.
AllRequests ==
    {Request("POST", "/allocate", b) :
        b \in {NoObject, OrderBody("string", "int"), OrderBody("missing", "int"), OrderBody("date", "int64")}}
    \cup {Request("POST", "/add_batch", b) :
        b \in {NoObject, BatchBody("int", "missing"), BatchBody("int64", "null"),
               BatchBody("int64", "string"), BatchBody("other", "date")}}
    \cup {Request("GET", t, NoObject) :
        t \in {"/allocations/", "/allocations/{orderid}", "/ping", "/"}}
    \cup {Request("OPTIONS", "/allocate", NoObject)}

AllPayloads == {NoObject} \cup {[batchref |-> r, qty |-> q] : r \in {"string", "null"}, q \in {"int", "int64"}}
=============================================================================
