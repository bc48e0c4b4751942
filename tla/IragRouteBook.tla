--------------------------- MODULE IragRouteBook ---------------------------
(***************************************************************************)
(* The requests irag/service.go and irag/download.go have words for: every *)
(* route that their two switches, or the documents for them, name, and for *)
(* what a route needs every name that one of the builders reads it from,   *)
(* be it the builder of one provider only.  A row has the routes and the   *)
(* names, the one that all of their providers know first.                  *)
(*                                                                         *)
(* Left out are the options that go by one name wherever they are read     *)
(* (page, limit, model, frame, mode, lang, ekspedisi and the like).        *)
(***************************************************************************)
EXTENDS IragDownload

Under(prefix, names) == {prefix \o n : n \in names}

\* isAllowedDirectAITextSlug's list, and what the text surface has besides.
directTexts == {"ai4chat", "beago", "chatgpt-ryz", "chocomilk-gpt", "claila", "copilot", "deepai-chat",
                "deepseek", "deepseek-ryz", "felo", "gemini", "gemini-ryz", "gpt", "gpt-v2", "groq",
                "meta", "mistral", "perplexity", "powerbrain", "qwen", "webpilot", "z-ai"}
imageSlugs == {"animagine-xl-3", "animagine-xl-4", "deepimg", "flux-schnell"}
promptedSlugs == {"colorize", "removebg", "waifu2x", "image2txt", "enhance", "enhance2x", "tololi",
                  "nanobanana", "nano-banana"}
processSlugs == promptedSlugs \cup {"toanime", "upscale", "nsfw-check"}

Processing(slugs) == Under("/v1/ai/process/", slugs) \cup Under("/v1/i2i/", slugs)

picture == <<"prompt", "ask", "text", "q">>

AskedOfAI ==
    { <<Under("/v1/ai/text/", directTexts \cup {"pollinations"}), prompt>>,
      <<Under("/v1/ai/", directTexts \cup {"v2/gpt"}), prompt>>,
      <<{"/v1/llm/chatgpt/completions"}, prompt>>,
      <<Under("/v1/ai/image/", imageSlugs \cup {"pollinations", "pollinations/image", "kanata", "kanata/direct",
            "animagine3", "animagine4", "flux-diffusion", "text2img"}), picture>>,
      <<Under("/v1/ai/", imageSlugs \cup {"generate", "image", "pollinations/image"}), picture>>,
      <<Processing(processSlugs), image>>,
      <<Processing(promptedSlugs), <<"text", "prompt", "ask">>>>,
      <<Processing({"toanime"}), <<"style", "mode">>>>,
      <<Processing({"upscale"}), <<"scale", "factor">>>>,
      <<Processing({"faceswap"}), <<"original", "url", "image_url">>>>,
      <<Processing({"faceswap"}), <<"face", "face_url", "faceUrl">>>> }

AskedOfDownloads ==
    { <<{"/v1/youtube/search", "/v1/youtube/play"}, spoken>>,
      <<{"/v1/youtube/info", "/v1/youtube/download"}, link>>,
      <<{"/v1/youtube/download"}, <<"quality", "format", "itag">>>>,
      <<Under("/v1/download/", downloadRoutes \ {"youtube/search"}), downloadURL>>,
      <<Under("/v1/download/", downloadRoutes \ {"youtube/search"}), downloadQuality>>,
      <<{"/v1/download/youtube/search"}, <<"q", "query", "keyword", "search">> \o downloadURL>> }

searchSlugs == {"anime", "bilibili", "bmkg", "bstation", "cctv", "chord", "cookpad", "drama", "film", "gold",
                "google", "google/image", "harga-emas", "jadwal-sholat", "kurs-bca", "lens", "lyrics",
                "mahasiswa", "manga", "novel", "pddikti", "pinterest", "pixiv", "server-info", "sholat",
                "spotify", "tidal", "tiktok", "wallpaper", "weather", "youtube"}
titledSlugs == {"pixiv", "wallpaper", "anime", "manga", "film", "drama", "bstation"}

AskedOfSearch ==
    { <<Under("/v1/search/", searchSlugs), <<"q", "query", "ask", "text">>>>,
      <<{"/v1/search/weather"}, <<"q", "city">>>>,
      <<{"/v1/search/jadwal-sholat", "/v1/search/sholat"}, <<"q", "kota", "city">>>>,
      <<Under("/v1/search/", titledSlugs), <<"q", "title">>>>,
      <<{"/v1/search/mahasiswa", "/v1/search/pddikti"}, <<"q", "name">>>>,
      <<{"/v1/search/lens"}, image>> }

AskedOfStalk ==
    { <<Under("/v1/stalk/", {"instagram", "github", "npm"}), <<"username", "user", "q", "query">>>>,
      <<Under("/v1/stalk/", {"ml", "mobile-legends", "free-fire", "freefire"}),
        <<"userId", "id", "user_id", "player_id", "uid">>>>,
      <<Under("/v1/stalk/", {"ml", "mobile-legends", "free-fire", "freefire"}),
        <<"zoneId", "server", "zone_id", "zone">>>>,
      <<Under("/v1/stalk/", {"valorant", "clash-of-clans", "clash-royale"}), <<"name", "username", "q", "query">>>>,
      <<{"/v1/stalk/valorant"}, <<"tag", "server", "zone">>>>,
      <<Under("/v1/stalk/", {"clash-of-clans", "clash-royale"}), <<"token", "apikey", "api_key">>>> }

AskedOfLibraries ==
    { <<{"/v1/bmkg/weather"}, <<"provinsi", "province", "slug", "q", "query">>>>,
      <<{"/v1/bmkg/weather/village"}, <<"adm4", "code", "id", "wilayah">>>>,
      <<{"/v1/bmkg/region/search"}, <<"q", "query", "text", "name", "wilayah">>>>,
      <<{"/v1/anime/search", "/v1/otakudesu/search", "/v1/manga/search", "/v1/komiku/search", "/v1/film/search",
         "/v1/drama/search", "/v1/dramabox/search", "/v1/tools/dramabox/search"}, question>>,
      <<{"/v1/anime/iframe", "/v1/otakudesu/iframe"}, <<"url", "embed_url", "iframe">>>>,
      <<{"/v1/film/stream"}, <<"id", "slug", "url">>>>,
      <<{"/v1/weebs/anime-info", "/v1/weebs/manga-info"}, <<"query", "q", "title">>>>,
      <<{"/v1/weebs/sfw-waifu"}, <<"tag", "q", "query">>>>, <<{"/v1/weebs/whatanime"}, image>>,
      <<{"/v1/novel/search"}, <<"q", "query", "ask", "text">>>>,
      <<{"/v1/novel/genre"}, <<"genre", "q", "query", "title">>>>,
      <<{"/v1/novel/chapters"}, <<"url", "chapter_url", "href", "link">>>>,
      <<{"/v1/misc/ip-whitelist-check"}, <<"ip", "q", "query">>>>,
      <<{"/v1/islamic/topegon"}, <<"text", "ask", "q">>>>, <<{"/v1/islamic/tafsir"}, <<"surah", "nomor">>>> }

AskedOfTools ==
    { <<{"/v1/tools/translate"}, <<"text", "q", "ask">>>>,
      <<{"/v1/tools/translate"}, <<"to", "target">>>>, <<{"/v1/tools/translate"}, <<"from", "source">>>>,
      <<{"/v1/tools/kbbi"}, <<"q", "text", "query">>>>,
      <<{"/v1/tools/ipinfo", "/v1/tools/mc-lookup"}, <<"ip", "q">>>>,
      <<{"/v1/tools/carbon"}, <<"code", "text">>>>, <<{"/v1/tools/weather"}, <<"city", "q">>>>,
      <<{"/v1/tools/cekresi"}, <<"resi", "noresi", "tracking_number">>>>,
      <<{"/v1/tools/qris-converter"}, <<"url", "image_url">>>>,
      <<{"/v1/tools/qris-converter"}, <<"nominal", "amount">>>>,
      <<Under("/v1/tools/", {"qr", "brat", "brat/animated", "iphonechat"}), <<"text", "q">>>>,
      <<{"/v1/tools/iphonechat"}, <<"profile_url", "profileUrl">>>>,
      <<Under("/v1/tools/", {"nsfw", "nsfw-check", "removebg"}), <<"image_url", "url">>>>,
      <<Under("/v1/tools/", {"ssweb", "screenshot"}), <<"url", "target">>>>,
      <<{"/v1/utility/upscale", "/v1/tools/upscale"}, image>>,
      <<{"/v1/tools/pln"}, <<"id_pel", "id", "customer_id">>>>,
      <<{"/v1/tools/pajak/jabar"}, <<"plat", "no_pol", "plate">>>>,
      <<Under("/v1/tools/", {"whois", "check-hosting", "subdofinder"}), <<"domain", "q">>>>,
      <<Under("/v1/tools/", {"turnstile-bypass", "turnstile/sitekey"}), <<"sitekey", "url">>>>,
      <<{"/v1/tools/shorturl"}, <<"long_url", "url", "target">>>>,
      <<{"/v1/tools/yt-transcript"}, <<"url", "video_url", "link">>>>,
      <<{"/v1/tools/isrc"}, <<"isrc", "q", "query">>>>,
      <<{"/v1/tools/cekbank"}, <<"bank_code", "bank", "kode_bank">>>>,
      <<{"/v1/tools/cekbank"}, <<"no_rek", "account_number", "rekening">>>>,
      <<{"/v1/tools/distance"}, <<"from", "dari", "origin">>>>,
      <<{"/v1/tools/distance"}, <<"to", "ke", "destination">>>>,
      <<Under("/v1/tools/", {"kurs", "currency-converter"}), <<"dari", "from">>>>,
      <<Under("/v1/tools/", {"kurs", "currency-converter"}), <<"ke", "to">>>>,
      <<Under("/v1/tools/", {"kurs", "currency-converter"}), <<"jumlah", "amount">>>>,
      <<{"/v1/tools/gsmarena"}, <<"q", "query", "device">>>>,
      <<{"/v1/tools/cctv/search", "/v1/bsw/cctv/search"}, <<"q", "query", "text", "name", "location">>>> }

RouteBook ==
    AskedOfAI \cup AskedOfDownloads \cup AskedOfSearch \cup AskedOfStalk \cup AskedOfLibraries \cup AskedOfTools

\* Routes that need nothing but themselves.
BareRoutes ==
    Under("/v1/anime/", {"home", "schedule", "genres", "nonce", "genre/x", "detail/x", "episode/x", "full/x",
                         "batch/x"})
    \cup Under("/v1/otakudesu/", {"home", "schedule", "genre", "genres", "nonce", "lengkap/x", "full/x", "genre/x",
                                  "animebygenre/x", "detail/x", "episode/x", "batch/x"})
    \cup Under("/v1/manga/", {"latest", "detail/x", "chapter/x"})
    \cup Under("/v1/komiku/", {"latest", "home", "detail/x", "chapter/x"})
    \cup Under("/v1/islamic/", {"quran", "quran/1", "hadith/bukhari/1", "khutbah", "khutbah/detail", "sholat/1",
                                "sholat/city/x"})
    \cup Under("/v1/game/growagarden/", {"crops", "pets", "gear", "eggs", "cosmetics", "events", "stock"})
    \cup Under("/v1/stalk/", {"tiktok", "twitter", "youtube"})
    \cup Under("/v1/tools/", {"ipinfo/8.8.8.8", "cctv", "cctv/x", "cctv/all", "cctv/detail/x", "dramabox",
                              "hargapangan", "listbank", "satudata", "server-info", "tv", "tempmail",
                              "tinyurl", "shortlink/bypass"})
    \cup Under("/v1/", {"otakudesu", "komiku", "film/home", "film/detail/x", "drama/home", "drama/detail/x", "lk21",
                        "lk21/episode/x", "news/top", "news/cnn", "media", "media/", "media/tv", "novel",
                        "novel/home", "novel/hot", "novel/hot-search", "dramabox", "bmkg/earthquake",
                        "bmkg/earthquake/felt", "bmkg/provinces", "bsw/cctv", "bsw/cctv/all", "bsw/cctv/detail/x",
                        "server-info", "misc/server-info", "upload", "upload/kanata", "upload/ryzumi",
                        "weebs/character", "weebs/info"})

\* A path, a name, and the row's usual one.
Asks == UNION {{[path |-> p, name |-> row[2][i], usual |-> row[2][1]] :
                    p \in row[1], i \in DOMAIN row[2]} : row \in RouteBook}
            \cup {[path |-> p, name |-> "", usual |-> ""] : p \in BareRoutes}
=============================================================================
